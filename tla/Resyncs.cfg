SPECIFICATION FairFormedSpec
CONSTANTS
    Node = {n1, n2, n3}
    Threshold = 2
    Session = {s1, s2, s3}
    None = None
    Mixed = Mixed
    MaxCrashes = 0
    MaxLosses = 0
    MaxRefreshes = 0
    LostShares = 0
    Ahead = 1
PROPERTY Resyncs
