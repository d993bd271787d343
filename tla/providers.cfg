CONSTANTS
    Duration = 4
    Grace = 1
    Clients <- SmallClients
    MaxAttempts = 3
    BackoffBase = 1
    BackoffMax = 2
    MaxRetryAfter = 3
    RetryAfters = {3, 5}
    Timeout = 2
    Day = 15
    StartTime = 10
    MaxTime = 19
    MaxRequests = 3
    MaxRestarts = 1
    MaxDefects = 1
SPECIFICATION Spec
INVARIANTS
    RequestsArePaced
    OkMeansComplete
CHECK_DEADLOCK FALSE
