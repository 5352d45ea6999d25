SPECIFICATION FairSpec
CONSTANTS
    v1 = v1
    v2 = v2
    s1 = s1
    s2 = s2
    d1 = d1
    d2 = d2
    Dsms = {d1, d2}
    Names = {v1, v2}
    ShareNames = {s1, s2}
    ShareOf <- Distinct
    Uuids = {u1, u2, u3}
    Calls = {c1, c2}
    Sizes = {3, 4, 5, 6, 8}
    MB = 2
    None = None
    Request <- VolumeAndClone
    Worlds <- AllWorlds
INVARIANTS
    BoundKept
    RoundedOnce
PROPERTIES
    NeverShrinks
    ImplementsStore
    EventuallySettled
