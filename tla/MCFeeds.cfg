SPECIFICATION FairSpec
CONSTANTS
    Clients = {"coinbase", "binance", "kraken", "krakenBbo", "gate", "kucoin", "okx", "bybit"}
    Ranked <- MCRanked
    Market = {"btc", "eth", "zzz"}
    KrakenLimit = 1
    MaxRows = 2
INVARIANTS
    ConnectedIsSubscribed
    HealthyIsKept
    DollarTicksOnly
PROPERTIES
    DisconnectIsFinal
    StalledIsReplaced
    Reconnects
CHECK_DEADLOCK FALSE
