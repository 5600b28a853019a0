SPECIFICATION FairSpec
CONSTANTS
    Subs = {s1}
    NoSub = NoSub
    Intents = {i1, i2}
    NoIntent = NoIntent
    Workers = {w1}
    Reqs = {r1, r2}
    Kinds = {"activateMonthly", "cancel", "upgradeMonthly", "downgradeFree"}
    RefundWindow = 0
    MaxNow = 2
    MaxSent = 6
    MaxReq = 3
    MaxFail = 1
    MaxOutage = 1
    InOrder = TRUE
    Redelivery = FALSE
    QuickRequests = TRUE
    PaidEvents = 1
    SessionIntent = {FALSE}
    PeriodOnSubscription = FALSE
INVARIANTS
    TypeOK
    Converged
PROPERTIES
    ProEndsOnlyWithStripe
    DeletionApplied
CHECK_DEADLOCK FALSE
