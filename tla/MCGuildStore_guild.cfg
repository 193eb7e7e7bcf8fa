SPECIFICATION MCSpec
CONSTANTS
    Null = Null
    g1 = g1  c1 = c1  r1 = r1  t1 = t1  t2 = t2  m1 = m1  m2 = m2  u1 = u1
    left = left  p1 = p1  p2 = p2
    Object = {g1, c1, r1, t1, t2, m1, m2, u1}
    KindOf <- MCKindOf
    Parent <- MCParent
    Props = {p1, left}
    LeftProps = left
    Timings <- MCTimings
INVARIANTS
    ObjectsTypeOK
    ObjectsOrdered
    NeverBreaksPrimaryKey
PROPERTIES
    ObjectsImplementArchive
