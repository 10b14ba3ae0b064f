SPECIFICATION Spec
CONSTANTS
    r1 = r1
    r2 = r2
    Requests <- MCTwoRequests
    TTL = 2
    Latency = 1
    MaxPatches = 1
    Faults = {"db_error", "redis_error", "save_error", "db_restart"}
SYMMETRY RequestSymmetry
INVARIANTS
    InvalidationIsComplete
    StalenessBounded
    
