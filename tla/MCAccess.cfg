SPECIFICATION Spec
CONSTANTS
    Procs = {p1, p2}
    MaxUsers = 2
    MaxSessions = 2
    MaxHashes = 4
    MaxPasswords = 2
    MaxTokens = 2
    MaxAttempts = 2
    MaxIpAttempts = 3
    Mixes <- MCMixes
    MaxSockets = 2
    MaxTickets = 1
    MaxPlanChanges = 2
INVARIANTS
    TypeOK
    SpentIsMarked
    ResetEndsOldSessions
    LockoutHasEnd
    AttemptsAreBounded
    FreeHasNoSocket
PROPERTIES
    RefreshIsAFamily
CHECK_DEADLOCK FALSE
SYMMETRY MCSymmetry
