SPECIFICATION FairSpec
CONSTANTS
    n1 = n1
    n2 = n2
    w1 = w1
    w2 = w2
    r1 = r1
    Volumes = {w1, w2}
    Names = {n1, n2}
    Copies = {r1}
    FromOf <- OfFirst
    Uuids = {u1, u2, u3}
    MaxTime = 2
    Calls = {c1, c2}
    None = None
    Worlds <- AllWorlds
INVARIANTS
    SnapshotKept
    OneSnapshotPerName
    DeletedGone
    RestoredComplete
PROPERTIES
    CopiedFirst
    EventuallySettled
