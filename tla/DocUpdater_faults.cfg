SPECIFICATION Spec
CONSTANTS
  w1 = w1
  w2 = w2
  c1 = c1
  c2 = c2
  None = None
  Workers = {w1, w2}
  Clients = {c1, c2}
  Methods = {}
  Faults = {"mismatch", "hash", "write", "history", "read", "notify", "slowLock", "docOpsTtl"}
  BatchMax = 2
  MaxAge = 1
  DocOpsMax = 1
  MaxOps = 1
  MaxSends = 2
  MaxHttp = 0
SYMMETRY Symmetry
CHECK_DEADLOCK FALSE
INVARIANTS
  OneHolder
  NoInternalError
  HistoryFollowsLog
  PublishedIsLogged
  NoOpTwice
