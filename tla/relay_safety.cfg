SPECIFICATION Spec
CONSTANTS
    w1 = w1
    w2 = w2
    NULL = NULL
    Workers = {w1, w2}
    Mortal = {w2}
    Events <- TwoEvents
    Poison = {1}
    BatchSize = 2
    CleanupBatch = 1
    LockTimeout = 2
    Retention = 1
    FirstDelay = 3
    MaxExponent = 1
    MaxRetryDelay = 5
    Skew <- SecondAhead
    MaxSkew = 1
    MaxCallTicks = 1
    MaxBatchTicks = 9
    MaxFaults = 1
    Horizon = 4
INVARIANTS
    TypeOK
    PublishedIsStored
    LeaseHolds
    LeaseExclusive
    SnapshotIsCurrent
PROPERTY
    HandsOff
