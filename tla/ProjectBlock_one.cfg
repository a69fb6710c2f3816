SPECIFICATION Spec
CONSTANTS
  d1 = d1
  d2 = d2
  d3 = d3
  m1 = m1
  None = None
  Docs = {d1, d2, d3}
  Migrators = {m1}
  Faults = {"crash", "expire"}
  MaxStage = 2
SYMMETRY Symmetry
CHECK_DEADLOCK FALSE
INVARIANTS
  LoadedIsTracked
  BlockHolds
