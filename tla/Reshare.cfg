SPECIFICATION SplitOrLostSpec
CONSTANTS
    Node = {n1, n2, n3}
    Threshold = 2
    Session = {s1, s2, s3}
    None = None
    Mixed = Mixed
    MaxCrashes = 1
    MaxLosses = 1
    MaxRefreshes = 1
    LostShares = 0
    Ahead = 1
SYMMETRY Symmetry
INVARIANTS TypeOK KeyMatchesShare DealersRejectGarbage AlertMeansStuck EpochsUnbroken OneMasterUnlessMixed
PROPERTIES NoGenesisOverHolders MasterStable KeepsLedger
