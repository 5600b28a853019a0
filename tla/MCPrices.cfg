SPECIFICATION Spec
CONSTANTS
    Sources = {"binance", "coinbase", "kraken", "kraken_bbo"}
    Quotes = {3, 16}
    Ratio = 5
    Ttl = 2
    MaxQueue = 2
    Mixes <- MCMixes
INVARIANTS
    ConsensusWins
    ServedIsRecent
    FrameIsCanonical
CHECK_DEADLOCK FALSE
