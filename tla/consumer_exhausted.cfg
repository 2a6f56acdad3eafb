SPECIFICATION Spec
CONSTANTS
    r1 = r1
    r2 = r2
    good = good
    again = again
    broken = broken
    failing = failing
    ada = ada
    Messages = {broken, failing}
    EventOf <- Republished
    Malformed = {broken}
    Failing = {failing}
    Replicas = {r1, r2}
    Mortal = {}
    MaxDeliver <- Two
    MaxAckPending = 1
    MaxFaults = 1
INVARIANT
    ExhaustedIsPreserved
CHECK_DEADLOCK FALSE
