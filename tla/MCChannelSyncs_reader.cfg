SPECIFICATION MCSpec
CONSTANTS
    Null = Null
    Everyone = Everyone
    Self = Self
    c1 = c1  t1 = t1  t2 = t2  t3 = t3  r1 = r1
    Flag <- MCFlag
    Channel = {c1}
    Thread = {t1, t2, t3}
    ParentOf <- MCParentOf
    Private = {t2}
    Active = {t3}
    Role = {r1}
    Overwrites <- MCOverwrites
    Grants <- MCGrants
    MaxChanges = 3
    MaxOps = 7
INVARIANT
    ReaderGuaranteed
CHECK_DEADLOCK FALSE
