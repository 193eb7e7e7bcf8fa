SPECIFICATION MCSpec
CONSTANTS
    Null = Null
    MaxMessage = 3
    MaxVersion = 0
    PageSize = 2
    Reacted <- Nobody
    Changing <- Nobody
    LivePosts = TRUE
    MaxCrashes = 0
    MaxStops = 0
INVARIANTS
    LastIDSuffices
CHECK_DEADLOCK FALSE
