SPECIFICATION Spec
CHECK_DEADLOCK FALSE
CONSTANTS
    MaxRequests = 4
    AtMost <- MCRehash
    Emails = {e1}
    Passwords = {p1, p2}
    FirstPassword = p1
    OldHashes = TRUE
    Origins = {o1}
    Unset = Unset
    IdentifierLimit = 9
    OriginLimit = 9
    Window = 1
    Retention = 1
    SessionTtl = 1
    ResetTtl = 1
    MaxTime = 0
    MaxFaults = 0
INVARIANT
    OnlyTheNewPasswordLogsIn
