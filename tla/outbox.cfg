SPECIFICATION FairSpec
CONSTRAINT OneReason
CONSTANTS
    ClientIds = {k1, k2}
    MayRefuse = {k2}
    SlowModes = {TRUE, FALSE}
    Faults = {"restart", "disconnect", "lose_reply", "timeout", "server_error"}
    MaxInFlight = 1
INVARIANT OutboxIsHonest
PROPERTIES Drains
CHECK_DEADLOCK FALSE
