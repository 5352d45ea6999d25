SPECIFICATION FairSpec
CONSTANTS
    Worlds <- AllWorlds
    NPortals = 2
    Pods = {p1, p2}
    Calls = {c1, c2}
    None = None
INVARIANTS
    PublishedServed
    MountsBacked
    UnstageLeavesNothing
    ExpandHonest
PROPERTIES
    UnpublishHonest
    EventuallySettled
