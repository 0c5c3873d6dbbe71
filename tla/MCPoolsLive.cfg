CONSTANTS
    Callers = {a, b}
    Keys = {k1, k2}
    Conns = {x, y}
    MaxIdle = 1
    Timeout = 0
    MaxNow = 1
    MaxGets = 3
    Reqs = {p, q}
    Alpn = TRUE
SPECIFICATION MCFairSpec
INVARIANT RightPeer
PROPERTIES GetReturns RequestEnds
CHECK_DEADLOCK FALSE
