SPECIFICATION FairSpec
CONSTANTS
  w1 = w1
  w2 = w2
  c1 = c1
  c2 = c2
  None = None
  Workers = {w1, w2}
  Clients = {c1, c2}
  Methods = {"get", "delete"}
  Faults = {}
  BatchMax = 1
  MaxAge = 4
  DocOpsMax = 4
  MaxOps = 1
  MaxSends = 1
  MaxHttp = 1
CHECK_DEADLOCK FALSE
PROPERTIES
  EveryUpdateAnswered
