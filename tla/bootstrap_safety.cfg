SPECIFICATION Spec
CONSTANTS
    j1 = j1
    j2 = j2
    j3 = j3
    created = created
    deadLetter = deadLetter
    old = old
    new = new
    NULL = NULL
    Jobs = {j1, j2, j3}
    Configs <- Builds
    MaxFaults = 2
INVARIANTS
    TypeOK
    DoneMeansUsable
    ResultIsCurrent
    RacesDoNotFail
    RerunIsIdle
PROPERTIES
    ForeignStreamUntouched
CHECK_DEADLOCK FALSE
