SPECIFICATION MCSpec
CONSTANTS
    Null = Null
    reidentify = TRUE
    MaxSockets = 3
    MaxSessions = 2
    MaxSeq = 3
    MaxTrouble = 1
    MayDestroy = TRUE
INVARIANTS
    TypeOK
    DispatchedInOrder
    ReplayNotLive
PROPERTIES
    Recovers
CHECK_DEADLOCK FALSE
