SPECIFICATION FairSpec
CONSTANTS
    o1 = o1  o2 = o2  o3 = o3  o4 = o4  s1 = s1  s2 = s2
    Op = {o1, o2, o3, o4}
    maxOngoingOperations = 2
    Signal = {s1, s2}
    SignalOf <- MCSignalOf
    NoSignal = NoSignal
INVARIANTS
    LimiterTypeOK
    SlotsExact
    NoIdleSlot
    FirstComeFirstServed
PROPERTIES
    EveryoneServed
CHECK_DEADLOCK FALSE
