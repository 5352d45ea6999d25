SPECIFICATION FairSpec
CONSTANTS
    None = None
    v1 = v1
    v2 = v2
    Dsms = {d1}
    Names = {v1, v2}
    Uuids = {u1, u2}
    Tids = {t1, t2}
    Calls = {c1, c2}
    Sizes = {1}
    Request <- VolumeAndClone
    Faulty <- NotReads
    MaxFaults = 1
INVARIANT DeletedGone
PROPERTIES
    ImplementsStore
    EventuallySettled
