SPECIFICATION Spec
CHECK_DEADLOCK FALSE
CONSTANTS
    MaxRequests = 3
    AtMost <- MCAttempts
    Emails = {e1, e2}
    Passwords = {p1}
    FirstPassword = p1
    OldHashes = FALSE
    Origins = {o1, o2}
    Unset = Unset
    IdentifierLimit = 2
    OriginLimit = 2
    Window = 0
    Retention = 0
    SessionTtl = 2
    ResetTtl = 1
    MaxTime = 1
    MaxFaults = 1
SYMMETRY AttemptSymmetry
INVARIANTS
    TypeOK
    AcknowledgedAccountsExist
    LimitsHold
    AttemptsGoOnRecord
