SPECIFICATION MCSpec
CONSTANTS
    Null = Null
    t1 = t1  t2 = t2  r1 = r1  c1 = c1  c2 = c2
    Tx = {t1, t2}
    Single = {r1}
    Closes = {c1, c2}
    Size = 2
    MaxFailures = 1
    MayDie = TRUE
INVARIANTS
    TypeOK
    AnswersInOrder
    AllOrNothing
    CloseKeepsEarlier
PROPERTIES
    ImplementsLimiter
    TransactionsCommitted
    CloseEnds
CHECK_DEADLOCK FALSE
