SPECIFICATION FairSpec
CONSTANTS
    Caller = {c1, c2}
    Lock = {l1, l2}
    None = None
    PositiveRefresh = 2
    NegativeTTL = 2
    MaxStaleness = 4
    ScanLagWait = 2
    ScanLagPoll = 1
    ScanLagDamp = 1
INVARIANTS TypeOK SingleFlight
PROPERTIES AllowedOnVerdict EveryCallReturns
