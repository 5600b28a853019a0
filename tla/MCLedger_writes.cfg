SPECIFICATION Spec
CONSTANTS
    p1 = p1
    p2 = p2
    t1 = t1
    t2 = t2
    Null = Null
    Same = Same
    Free = Free
    Portfolios = {p1, p2}
    Tokens = {t1, t2}
    Slots = {s1, s2}
    Amounts = {1}
    Prices = {1}
    Times = {1}
    Kinds = {"create", "amend", "delete", "transfer", "lot"}
    Opened <- OneToken
    OpenLot <- OneUnit
    Logged <- OnePurchase
    MaxTx = 7
    MaxReq = 3
    MaxFail = 0
    MaxRows = 1
INVARIANTS
    AssetIsDerived
    NetIsSum
    LegsArePaired
PROPERTIES
    SalesAreCovered
SYMMETRY Symmetry
CHECK_DEADLOCK FALSE
