SPECIFICATION FairSpec
CONSTANTS
  t1 = t1
  t2 = t2
  c1 = c1
  b1 = b1
  None = None
  Turns = {t1, t2}
  Conversations = {c1}
  Rollbacks = {b1}
  Limit <- BothLimits
  Estimate <- RunEstimate
  Usages <- RunUsages
  Faults = {"prepare", "start", "unseen", "record"}
CHECK_DEADLOCK FALSE
INVARIANTS
  NoGhostRun
PROPERTIES
  RollbackWaits
  ReservationsReleased
