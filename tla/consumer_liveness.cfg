SPECIFICATION FairSpec
CONSTANTS
    r1 = r1
    r2 = r2
    good = good
    again = again
    broken = broken
    failing = failing
    ada = ada
    Messages = {good, again, broken, failing}
    EventOf <- Republished
    Malformed = {broken}
    Failing = {failing}
    Replicas = {r1, r2}
    Mortal = {r2}
    MaxDeliver <- Two
    MaxAckPending = 1
    MaxFaults = 1
PROPERTY
    EveryMessageEnds
CHECK_DEADLOCK FALSE
