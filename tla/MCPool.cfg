SPECIFICATION Spec
CONSTANTS
    alt_add = alt
    Thread = {t1, t2}
    Nonce = {n1, n2}
    Miner = {m1}
    Reward = 3
    MinPayout = 1
    AltFee = TRUE
    MaxTime = 2
    MaxShares = 3
    MaxRewards = 1
    MaxCrashes = 1
    MaxFails = 1
    MaxRounds = 2
SYMMETRY Symmetry
CHECK_DEADLOCK FALSE
INVARIANTS CountedOnce PaidOnce RewardOnce
