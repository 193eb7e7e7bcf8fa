SPECIFICATION MCSpec
CONSTANTS
    Null = Null
    MaxMessage = 4
    MaxVersion = 1
    PageSize = 2
    Reacted <- EverySecond
    Changing <- Second
    LivePosts = TRUE
    MaxCrashes = 1
    MaxStops = 1
INVARIANTS
    TypeOK
    NoGap
    QuietLastIDSuffices
PROPERTIES
    SyncSettles
CHECK_DEADLOCK FALSE
