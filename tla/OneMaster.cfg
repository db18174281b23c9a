SPECIFICATION FormedSpec
CONSTANTS
    Node = {n1, n2, n3}
    Threshold = 2
    Session = {s1, s2, s3}
    None = None
    Mixed = Mixed
    MaxCrashes = 0
    MaxLosses = 1
    MaxRefreshes = 0
    LostShares = 1
    Ahead = 0
SYMMETRY Symmetry
INVARIANT OneMaster
