SPECIFICATION Spec
CONSTANTS
    c1 = c1
    c2 = c2
    c3 = c3
    NULL = NULL
    Calls = {c1, c2, c3}
    Lease = 2
    Skew <- OthersAhead
    MaxSkew = 1
    MaxClaimTicks = 1
    MaxFaults = 1
    Horizon = 4
PROPERTY
    NoSendAfterSent
