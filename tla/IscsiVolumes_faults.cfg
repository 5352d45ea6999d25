SPECIFICATION Spec
CONSTANTS
    None = None
    v1 = v1
    v2 = v2
    Dsms = {d1}
    Names = {v1, v2}
    Uuids = {u1, u2, u3}
    Tids = {t1, t2, t3}
    Calls = {c1, c2}
    Sizes = {1, 2}
    Request <- VolumeAndClone
    Faulty <- AllFaults
    MaxFaults = 3
SYMMETRY Symmetry
INVARIANTS
    TypeOK
    BoundUsable
    MappedReady
