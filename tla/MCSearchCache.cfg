SPECIFICATION Spec
CONSTANTS
    r1 = r1
    r2 = r2
    k1 = k1
    k2 = k2
    Requests <- MCRequests
    NoKey = NoKey
    Key <- MCKeys
    CacheTTL = 1
    SettingsAge = 1
    Latency = 1
    MaxChanges = 2
    MaxPatches = 1
    Faults = {"redis_error"}
SYMMETRY RequestKeySymmetry
INVARIANTS
    HitsAreRecent
    DeletesAreForgotten
