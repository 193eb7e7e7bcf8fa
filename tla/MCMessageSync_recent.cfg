SPECIFICATION MCSpec
CONSTANTS
    Null = Null
    MaxMessage = 2
    MaxVersion = 1
    PageSize = 2
    Reacted <- Nobody
    Changing <- Everyone
    LivePosts = TRUE
    MaxCrashes = 1
    MaxStops = 0
INVARIANTS
    AlwaysMoreRecent
CHECK_DEADLOCK FALSE
