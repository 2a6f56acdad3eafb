SPECIFICATION Spec
CONSTANTS
    r1 = r1
    r2 = r2
    good = good
    again = again
    broken = broken
    failing = failing
    ada = ada
    Messages = {good, again, broken}
    EventOf <- Republished
    Malformed = {broken}
    Failing = {}
    Replicas = {r1, r2}
    Mortal = {r1, r2}
    MaxDeliver <- TwoThree
    MaxAckPending = 2
    MaxFaults = 1
SYMMETRY Copies
INVARIANTS
    TypeOK
    SettledIsAccountedFor
    AbandonmentIsExplained
CHECK_DEADLOCK FALSE
