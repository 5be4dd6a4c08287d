SPECIFICATION FairSpec
CONSTANTS
    h1 = h1
    h2 = h2
    Host = {h1, h2}
    Own = {}
    Whitelist = {h2}
    ClassOf <- MCClassOf
    ClassLimit = 1
    Thread = {t1, t2}
    Floor = 1
    BanReset = 1
    SyncLimit = 1
    MaxCandidates = 1
    BanThreshold = 1
CHECK_DEADLOCK FALSE
INVARIANTS
    Consistent
PROPERTY
    Redials
