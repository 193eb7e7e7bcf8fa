SPECIFICATION MCSpec
CONSTANTS
    Null = Null
    g1 = g1  c1 = c1  r1 = r1  m1 = m1  m2 = m2  u1 = u1
    left = left  p1 = p1  p2 = p2
    a1 = a1  a2 = a2
    Object = {g1, c1, r1, m1, m2, u1}
    KindOf <- MCKindOf
    Parent <- MCParent
    Props = {p1, p2, left}
    LeftProps = left
    Guild = g1
    UserOf <- MCUserOf
    Account = {a1, a2}
    Chunks <- MCChunks
    MaxTime = 3
    MaxChanges = 3
    MaxCrashes = 1
    MaxTroubles = 1
INVARIANTS
    TypeOK
    CaughtUp
    MembersCaughtUp
SYMMETRY Symmetry
CHECK_DEADLOCK FALSE
