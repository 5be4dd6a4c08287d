SPECIFICATION FairSpec
CONSTANTS
    a = a
    b = b
    NoOne = NoOne
    None = None
    Thread = {t1, t2}
    Body <- Bodies
    Genesis <- Coinbase
    TopK = 1
    Backoff = 1
    SyncScanMax = 1
    Activation = 2
    Tries = 2
    MaxDepth = 1
    MaxHeight = 3
    MaxFaults = 1
    Chunk = 2
CHECK_DEADLOCK FALSE
INVARIANT CachesExact
PROPERTY CatchesUpStats
