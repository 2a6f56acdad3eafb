SPECIFICATION FairSpec
CONSTANTS
    k1 = k1
    k2 = k2
    Services = {"gateway", "user", "notification"}
    Jobs = {k1, k2}
    BatchSize = 2
    CleanupMaxBatches = 3
    MaxFaults = 2
INVARIANTS
    TypeOK
    CleanStopIsClean
    WorkKeepsItsConnections
    FailedStartReleases
PROPERTIES
    StopEnds
CHECK_DEADLOCK FALSE
