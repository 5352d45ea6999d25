SPECIFICATION Spec
CONSTANTS
    None = None
    v1 = v1
    v2 = v2
    Dsms = {d1}
    Names = {v1}
    Uuids = {u1}
    Tids = {t1}
    Calls = {c1}
    Sizes = {1}
    Request <- OneShared
    Faulty <- Listings
    MaxFaults = 2
INVARIANT DeletedGone
