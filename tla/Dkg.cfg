SPECIFICATION Spec
CONSTANTS
    Node = {n1, n2}
    LastRound = 4
    None = None
    MaxAttempts = 3
    MaxLosses = 1
    MaxCrashes = 1
SYMMETRY Symmetry
INVARIANT TypeOK
PROPERTY KeepsPromise
CHECK_DEADLOCK FALSE
