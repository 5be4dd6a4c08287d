SPECIFICATION FairSpec
CONSTANTS
    Block = {a, b}
    Batch = 1
    MaxHeight = 3
    MaxEvents = 2
    MaxDelays = 1
    BanThreshold = 6
CHECK_DEADLOCK FALSE
INVARIANTS
    Consistent
    InStep
PROPERTY
    CatchesUp
