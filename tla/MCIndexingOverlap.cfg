SPECIFICATION Spec
CONSTANTS
    d1 = d1
    d2 = d2
    w1 = w1
    w2 = w2
    NoTask = NoTask
    Docs <- MCOneDoc
    Workers <- MCTwoWorkers
    NumChunks <- MCNumChunks1
    MaxRetries = 1
    MaxRequests = 2
    Faults = {"error", "lookup_error", "status_error", "partial_bulk", "crash", "broker_down"}
SYMMETRY WorkerSymmetry

    
    
PROPERTIES
    DocumentsFollowLife
CHECK_DEADLOCK FALSE
