SPECIFICATION FairSpec
CHECK_DEADLOCK FALSE
CONSTANTS
    Block <- MCBlock
    Genesis = "g"
    Parent <- MCParent
    Ts <- MCTs
    TxsOf <- MCTxsOf
    Fault <- MCFault
    Tx <- MCTx
    Rivals <- MCRivals
    Peer = {"p1", "p2"}
    Serves <- Mixed
    Offers <- MCOffers
    Consensus = 3
    SyncSlack = 5
    SubmitSlack = 1
    Mined = {"B"}
    PenaltyInvalidBlock = 1
    RewardValidBlock = 1
    RepBan = 2
    RepLimit = 2
    WarningsToBan = 4
    Whitelist = {}
    Free = Free
INVARIANTS
    Consistent
    LedgerSound
    PoolAffordable
PROPERTIES
    ThreadsReturn
