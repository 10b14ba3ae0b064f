SPECIFICATION Spec
CONSTANTS
    e1 = e1
    e2 = e2
    e3 = e3
    w1 = w1
    w2 = w2
    Runs <- MCRuns
    Workers <- MCWorkers
    Items = 2
    Faults = {"broker", "crash", "db", "api", "judge"}
CHECK_DEADLOCK FALSE
INVARIANTS
    UnfinishedRunsAreHeld
PROPERTIES
    RunsFollowJob
    RunsEnd
