SPECIFICATION Spec
CONSTANTS
    Node = {1, 2, 3, 4}
    Self = 1
    Url <- Urls
    NodeAt <- Places
    Threshold = 2
    HealthySets = {{1, 2, 3}, {1, 2}}
    MaxEpoch = 1
    None = None
INVARIANTS TypeOK NeverShort RejectionMeansSplit
PROPERTIES Served WorkShrinks
CHECK_DEADLOCK FALSE
