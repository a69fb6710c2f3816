SPECIFICATION CompileSpec
CONSTANTS
  c1 = c1
  c2 = c2
  c3 = c3
  c4 = c4
  Nobody = Nobody
  Callers = {c1, c2, c3, c4}
  CompileFaults = {"slow", "die", "store", "unlock"}
SYMMETRY Symmetry
CHECK_DEADLOCK FALSE
INVARIANTS
  HolderHasLock
  WaiterAnswered
