SPECIFICATION FairSpec
CONSTANTS
    r1 = r1
    r2 = r2
    NULL = NULL
    MaxCopies = 2
    Replicas = {r1, r2}
    Mortal = {r2}
    MaxDeliver = 2
    MaxAckPending = 1
    Lease = 1
    MaxFaults = 1
INVARIANTS
    TypeOK
    SettledMeansDone
PROPERTIES
    RecordedIsNotResent
    ImplementsFate
    CommittedEventEnds
CHECK_DEADLOCK FALSE
