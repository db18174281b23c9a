SPECIFICATION Spec
CONSTANTS
    Caller = {c1, c2, c3}
    None = None
    TTL = 2
    MissMin = 1
    MaxRpc = 2
SYMMETRY Symmetry
PROPERTIES RemovalEnforced ReRegistered ForcedRarely
