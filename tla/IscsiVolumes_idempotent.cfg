SPECIFICATION Spec
CONSTANTS
    None = None
    v1 = v1
    v2 = v2
    Dsms = {d1, d2}
    Names = {v1}
    Uuids = {u1, u2, u3}
    Tids = {t1, t2, t3}
    Calls = {c1}
    Sizes = {1, 2}
    Request <- OneShared
    Faulty <- Honest
    MaxFaults = 3
SYMMETRY Symmetry
INVARIANT OneVolumePerName
