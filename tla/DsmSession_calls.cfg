SPECIFICATION FairSpec
CONSTANTS
    Handlers = {h1, h2}
    MaxFaults = 2
CHECK_DEADLOCK FALSE
INVARIANTS
    TypeOK
    OneMishapHarmless
    SessionsBounded
PROPERTY Recovers
