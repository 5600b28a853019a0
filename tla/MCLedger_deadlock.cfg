SPECIFICATION Spec
CONSTANTS
    p1 = p1
    p2 = p2
    t1 = t1
    t2 = t2
    Null = Null
    Same = Same
    Free = Free
    Portfolios = {p1, p2}
    Tokens = {t1, t2}
    Slots = {s1, s2}
    Amounts = {1}
    Prices = {1}
    Times = {1}
    Kinds = {"create"}
    Opened <- OnePortfolio
    OpenLot <- TwoUnits
    Logged <- NoPurchase
    MaxTx = 3
    MaxReq = 2
    MaxFail = 0
    MaxRows = 1
INVARIANT WritersSerialize
SYMMETRY Symmetry
CHECK_DEADLOCK FALSE
