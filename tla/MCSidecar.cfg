SPECIFICATION MCFairSpec
CHECK_DEADLOCK FALSE
CONSTANTS
    Window = 2
    Boundary = 3
    Bury = 1
    MaxReorg = 9
    MaxHeight = 9
    Diff = {1, 2, 4}
    Right = 4
    Wrong = 1
    Threshold = 2
    MinPeers = 3
    MaxPeers = 4
    NConfirm = 2
    LifetimeMax = 1
    Depth = 1
    CapMult = 3
    Checkpoint = 1
    MaxTip = 3
    MaxArms = 3
    MaxSplits = 1
    MaxCrashes = 2
    Tx <- MCTx
    Op <- MCOp
    Bodies <- MCBodies
    Downloaded <- MCDownloaded
    Name <- MCName
    Lower <- MCLower
    Addr = {"A", "B"}
    Issued = "issued"
    MaxBlocks = 3
    MaxEvents = 3
INVARIANTS
    JudgedRight
    MajorityAgainst
    HealsBounded
    AppliedOnce
    Consistent
    NeverOverspent
    TokensExact
    AliasesExact
PROPERTIES
    TipIndependent
    ComesBack
