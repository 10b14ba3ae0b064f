SPECIFICATION FairSpec
CONSTANTS
    d1 = d1
    d2 = d2
    w1 = w1
    w2 = w2
    NoTask = NoTask
    Docs <- MCTwoDocs
    Workers <- MCOneWorker
    NumChunks <- MCNumChunks
    MaxRetries = 1
    MaxRequests = 1
    Faults = {"error", "partial_bulk"}
PROPERTIES
    WorkEnds
    
CHECK_DEADLOCK FALSE
