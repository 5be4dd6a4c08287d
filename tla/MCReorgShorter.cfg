SPECIFICATION MCSpec
CHECK_DEADLOCK FALSE
CONSTANTS
    Block <- MCBlock
    Genesis = "g"
    Parent <- MCParent
    Ts <- MCTs
    TxsOf <- MCTxsOf
    Fault <- MCFault
    Tx <- MCTx
    Rivals <- MCRivals
    Peer = {"p1", "p2"}
    Serves <- Mixed
    Rank <- MCRank
    Claims = {3, 4}
    Configs <- MCConfigs
    MaxProbeDepth = 5
    MinAnswersDeep = 2
    PenaltyInvalidBlock = 1
    RewardValidBlock = 1
    RepBan = 1
    RepLimit = 1
    WarningsToBan = 2
    Whitelist = {"p1"}
    Free = Free
    Tip = 12
    Linear = 2
PROPERTIES
    ShorterNeverDisplaces
