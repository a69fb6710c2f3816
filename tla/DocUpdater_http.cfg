SPECIFICATION Spec
CONSTANTS
  w1 = w1
  w2 = w2
  c1 = c1
  c2 = c2
  None = None
  Workers = {w1, w2}
  Clients = {c1}
  Methods = {"get", "set", "flush", "delete"}
  Faults = {"crash", "persist", "history", "slowLock"}
  BatchMax = 1
  MaxAge = 2
  DocOpsMax = 2
  MaxOps = 2
  MaxSends = 1
  MaxHttp = 2
CHECK_DEADLOCK FALSE
SYMMETRY Symmetry
INVARIANTS
  DocOpsAligned
  RecentOpsKept
  CleanCopyIsSaved
  CopyCurrent
PROPERTIES
  ImplementsDocLog
