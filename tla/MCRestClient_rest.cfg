SPECIFICATION MCSpec
CONSTANTS
    Never = Never
    limit = 2
    interval = 3
    MaxCalls = 4
    LastCall = 9
    MaxLate = 2
    Sync = {1, 2, 3, 4}
    ServerWait = 1
    LongWait = 2
    RetryAfters = {2}
    Resets = {1}
    MaxTroubles = 2
INVARIANTS
    RestTypeOK
    RateLimited
    ResetRespected
PROPERTIES
    AllGranted
    AbortedEnds
CHECK_DEADLOCK FALSE
