SPECIFICATION FairSpec
CONSTANTS
    Host = {local, wallet, stranger}
    Local = local
    Allowed = {local, wallet}
    Whitelist = {}
    Value = {"7", "portget"}
    Number = {"7"}
    Plugin = {"HN_quick_check_balance"}
    UnknownApi = {"api_getsupply"}
    local = local
    wallet = wallet
    stranger = stranger
CHECK_DEADLOCK FALSE
INVARIANTS ReplyMatches OnlyPermittedChange
PROPERTY Ends
