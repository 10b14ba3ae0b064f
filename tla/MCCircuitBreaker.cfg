SPECIFICATION FairSpec
CONSTANTS
    c1 = c1
    c2 = c2
    c3 = c3
    Callers <- MCCallers3
    FailureThreshold = 3
    RecoveryTimeout = 2
    MaxRetries = 1
    MaxFailures = 6
    Faults = {"cancelled", "unusable"}
INVARIANTS
    TripsExactlyAtThreshold
    OneProbePerEpisode
    HalfOpenAfterCooldown
PROPERTIES
    NoAdmissionDuringCooldown
    CallsEnd
    RecoversUnlessProbeLost
