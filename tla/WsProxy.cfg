\* Two requests to two targets, each of which takes one session: they compete for
\* the last slot of a target or run side by side.
SPECIFICATION FairSpec
CONSTANTS
    r1 = r1
    r2 = r2
    t1 = t1
    t2 = t2
    a1 = a1
    IP <- OneIP
    AllowedTargets = {}
    Request <- TwoRequests
    Target <- TwoTargets
    MaxConnections = 2
    MaxPerTarget = 1
CHECK_DEADLOCK FALSE
INVARIANT SessionAccounting
INVARIANT VncServersAreNotOverloaded
PROPERTY ImplementsSessionPool
PROPERTY VncCloseEndsSession
PROPERTY BrowserCloseEndsSession
PROPERTY ShutdownCompletes
