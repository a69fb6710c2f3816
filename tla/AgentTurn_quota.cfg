SPECIFICATION Spec
CONSTANTS
  t1 = t1
  t2 = t2
  c1 = c1
  None = None
  Turns = {t1, t2}
  Conversations = {c1}
  Rollbacks = {}
  Limit <- BothLimits
  Estimate <- RunEstimate
  Usages <- RunUsages
  Faults = {"prepare", "start", "unseen", "record", "overtake", "callback", "reply", "mark", "die"}
SYMMETRY Symmetry
CHECK_DEADLOCK FALSE
INVARIANTS
  ReservationsAddUp
  WithinLimits
