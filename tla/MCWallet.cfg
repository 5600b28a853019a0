SPECIFICATION Spec
CONSTANTS
    Chain <- MCChain
    Tokens <- MCTokens
    Native = "eth"
    Nfts = {"art"}
    Opening <- MCOpening
    Usd <- MCUsd
    Spam = {}
    Unlisted = {"new"}
    PnlItems <- MCPnl
    PnlInfo <- MCPnl
    Configured = {"moralis", "goldrush", "alchemy", "ankr"}
    PageSize <- MCPageSize
    MaxTokens = 3
    Procs = {p1, p2}
    Catalog = {"eth", "tkn"}
    MaxFaults = 1
    None = None
    Mixes <- MCMixes
INVARIANTS
    AckedIsRecorded
    BalanceWasHeld
    SettledIsTrue
    CursorLeavesNoGap

    
SYMMETRY MCSymmetry
CHECK_DEADLOCK FALSE
