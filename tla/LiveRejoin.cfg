SPECIFICATION FairStartSpec
CONSTANTS
    Node = {n1, n2}
    Threshold = 1
    Session = {1, 2, 3, 4}
    None = None
    Mixed = Mixed
    MaxCrashes = 1
    MaxLosses = 1
    MaxRefreshes = 0
    LostShares = 0
    Ahead = 0
PROPERTY Rejoins
