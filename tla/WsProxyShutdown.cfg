SPECIFICATION Spec
CONSTANTS
    r1 = r1
    r2 = r2
    t1 = t1
    t2 = t2
    a1 = a1
    IP <- OneIP
    AllowedTargets = {}
    Request <- TwoRequests
    Target <- OneTarget
    MaxConnections = 2
    MaxPerTarget = 1
CHECK_DEADLOCK FALSE
INVARIANT ShutdownClosesEverySession
