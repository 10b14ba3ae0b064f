SPECIFICATION FairSpec
CONSTANTS
    r1 = r1
    r2 = r2
    Requests <- MCOneRequest
    TTL = 1
    Latency = 1
    MaxPatches = 1
    Faults = {"db_restart"}
PROPERTY
    SettingsReadsRecover
