SPECIFICATION FairSpec
CONSTANTS
    s1 = s1
    s2 = s2
    v1 = v1
    v2 = v2
    N = 4
    Servers = {s1, s2}
    HomeOf <- InTurn
    ParentOf <- ByVolume
    Twice = {}
    Limits = {0, 1, 2}
    Wants = {0, 3}
    Sources = {None, v1}
    None = None
    MaxFaults = 1
    MaxChanges = 2
INVARIANTS
    Ordered
    ListedAll
PROPERTY EventuallyDone
