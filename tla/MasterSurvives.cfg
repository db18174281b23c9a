SPECIFICATION FormedSpec
CONSTANTS
    Node = {n1, n2, n3}
    Threshold = 2
    Session = {s1, s2}
    None = None
    Mixed = Mixed
    MaxCrashes = 1
    MaxLosses = 0
    MaxRefreshes = 1
    LostShares = 0
    Ahead = 0
SYMMETRY Symmetry
INVARIANT MasterSurvives
