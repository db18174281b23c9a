SPECIFICATION FairStartSpec
CONSTANTS
    Node <- MCNode
    Addr <- MCAddr
    HostOf <- MCHostOf
    Seeds <- MCSeeds
    Window = 2
    Epochs = {1}
    Master = {m1, m2}
    Master1 = m1
    None = None
    Unstable = {3}
    MaxAdopts = 1
    MaxFaults = 1
INVARIANTS TypeOK DeadExpires EpochsHeld
PROPERTIES Discovered ViewsCatchUp
