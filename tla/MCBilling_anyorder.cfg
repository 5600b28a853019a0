SPECIFICATION Spec
CONSTANTS
    Subs = {s1}
    NoSub = NoSub
    Intents = {i1}
    NoIntent = NoIntent
    Workers = {w1, w2}
    Reqs = {r1, r2}
    Kinds = {"activateFree", "activateYearly", "upgradeYearly", "downgradeMonthly", "downgradeFree"}
    RefundWindow = 0
    MaxNow = 2
    MaxSent = 4
    MaxReq = 3
    MaxFail = 1
    MaxOutage = 0
    InOrder = FALSE
    Redelivery = TRUE
    QuickRequests = FALSE
    PaidEvents = 1
    SessionIntent = {FALSE}
    PeriodOnSubscription = TRUE
INVARIANTS
    OneHandlerPerEvent
    LinkedRow
SYMMETRY Symmetry
CHECK_DEADLOCK FALSE
