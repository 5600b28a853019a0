SPECIFICATION Spec
CONSTANTS
    p1 = p1
    p2 = p2
    t1 = t1
    t2 = t2
    Null = Null
    Same = Same
    Free = Free
    Portfolios = {p1, p2}
    Tokens = {t1, t2}
    Slots = {s1, s2}
    Amounts = {1}
    Prices = {1}
    Times = {1}
    Kinds = {"retoken", "retime", "transfer", "import", "add", "openings", "net", "remove"}
    Opened <- OnePortfolio
    OpenLot <- OneUnit
    Logged <- OnePurchase
    MaxTx = 5
    MaxReq = 3
    MaxFail = 1
    MaxRows = 1
INVARIANTS
    TypeOK

    
SYMMETRY Symmetry
CHECK_DEADLOCK FALSE
