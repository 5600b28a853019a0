SPECIFICATION Spec
CONSTANTS
    Subs = {s1}
    NoSub = NoSub
    Intents = {i1}
    NoIntent = NoIntent
    Workers = {w1, w2}
    Reqs = {r1}
    Kinds = {"activateMonthly"}
    RefundWindow = 0
    MaxNow = 2
    MaxSent = 6
    MaxReq = 1
    MaxFail = 1
    MaxOutage = 0
    InOrder = TRUE
    Redelivery = TRUE
    QuickRequests = TRUE
    PaidEvents = 1
    SessionIntent = {FALSE}
    PeriodOnSubscription = FALSE
INVARIANTS
    FailureIsRedelivered
CHECK_DEADLOCK FALSE
