SPECIFICATION Spec
CONSTANTS
    w1 = w1
    w2 = w2
    NULL = NULL
    Workers = {w1, w2}
    Mortal = {w1, w2}
    Events <- TwoEvents
    Poison = {}
    BatchSize = 2
    CleanupBatch = 1
    LockTimeout = 2
    Retention = 1
    FirstDelay = 3
    MaxExponent = 1
    MaxRetryDelay = 5
    Skew <- SecondAhead
    MaxSkew = 1
    MaxCallTicks = 0
    MaxBatchTicks = 9
    MaxFaults = 2
    Horizon = 4
PROPERTY
    FinishesClaimedBatch
