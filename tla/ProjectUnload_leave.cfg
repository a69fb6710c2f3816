SPECIFICATION FairSpec
CONSTANTS
  p1 = p1
  p2 = p2
  u1 = u1
  u2 = u2
  u3 = u3
  f1 = f1
  f2 = f2
  None = None
  Projects = {p1}
  Users = {u1, u2, u3}
  Processes = {{u1, u2}, {u3}}
  Flushers = {f1, f2}
  Events = {"fail"}
CHECK_DEADLOCK FALSE
INVARIANTS
  UnloadOwed
PROPERTY UnloadedInTheEnd
