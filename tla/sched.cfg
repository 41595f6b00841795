SPECIFICATION MCSpec
CONSTANTS
    Posts = {k1, k2}
    Workers = {w1, w2}
    Batch = 2
    MaxAttempts = 2
    Author = {"revise", "cancel"}
    Faults = {"crash", "slow", "restrict", "unrecorded"}
    MaxVersions = 2
    MaxClaims = 3
    MaxCrashes = 1
    Sockets = {s1, s2}
    TheUser = u1
    Devices = {d1, d2}
    Connections = {c1, c2}
INVARIANT PublishedOnce
PROPERTIES Settles ClosedIsForgotten GoneReadsOffline
CHECK_DEADLOCK FALSE
