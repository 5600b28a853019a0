SPECIFICATION Spec
CONSTANTS
    Subs = {s1}
    NoSub = NoSub
    Intents = {i1}
    NoIntent = NoIntent
    Workers = {w1}
    Reqs = {r1, r2}
    Kinds = {"activateMonthly", "refund"}
    RefundWindow = 0
    MaxNow = 1
    MaxSent = 5
    MaxReq = 4
    MaxFail = 0
    MaxOutage = 1
    InOrder = FALSE
    Redelivery = TRUE
    QuickRequests = FALSE
    PaidEvents = 2
    SessionIntent = {TRUE, FALSE}
    PeriodOnSubscription = FALSE
INVARIANTS
    RefundExclusive
PROPERTIES
    RefundedIsFinal
SYMMETRY Symmetry
CHECK_DEADLOCK FALSE
