SPECIFICATION FairSpec
CONSTANTS
    d1 = d1
    d2 = d2
    p1 = p1
    p2 = p2
    r1 = r1
    r2 = r2
    Dsms = {d1, d2}
    Layout <- SamePaths
    Kinds <- DiskKinds
    Requests = {r1, r2}
    Worlds <- SomeWorlds
    None = None
    Faulty = {"VolumeList", "VolumeGet", "Create", "Change"}
    MaxFaults = 1
INVARIANTS
    PlacedAsAsked
    CapacityCovers
PROPERTY EventuallyPlaced
