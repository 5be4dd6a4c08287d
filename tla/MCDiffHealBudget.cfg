SPECIFICATION Spec
CONSTANTS
    Diff = {1, 2, 4}
    Right = 4
    Wrong = 1
    Threshold = 2
    MinPeers = 3
    MaxPeers = 4
    NConfirm = 2
    LifetimeMax = 2
    Depth = 1
    CapMult = 3
    Checkpoint = 1
    MaxTip = 3
    MaxArms = 3
    MaxSplits = 1
    MaxCrashes = 2
CHECK_DEADLOCK FALSE
INVARIANT LifetimeBudget
