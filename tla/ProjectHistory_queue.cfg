SPECIFICATION Spec
CONSTANTS
    w1 = w1
    w2 = w2
    None = None
    Bad = Bad
    Workers = {w1, w2}
    MaxOps = 2
    MaxResyncs = 2
    Faults = {"crash", "timeout", "web", "resyncCrash", "hardWeb", "hardCrash",
              "expire"}
SYMMETRY Exchange
INVARIANTS
    TypeOK
    OpsInOrder
    SkipEnds
    NothingLost
