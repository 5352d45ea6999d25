SPECIFICATION Spec
CONSTANTS
    IfsA <- ListA
    IfsB <- ListB
    Names <- OfOneController
    None = None
    MaxFaults = 1
    MaxChanges = 1
INVARIANTS
    TwoControllers
    NearestFound
