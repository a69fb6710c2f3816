SPECIFICATION Spec
CONSTANTS
    c1 = c1
    c2 = c2
    Failed = Failed
    Clients = {c1, c2}
    InitialText <- TwoCharacters
    MaxEvents = 3
    MaxDelete = 2
    MaxDrops = 2
    MaxRetries = 1
    Faults = {}
SYMMETRY Exchange
CHECK_DEADLOCK FALSE
INVARIANTS
    AppliedOnce
    NeverRefused
    ViewsAgree
    EditsMerge
