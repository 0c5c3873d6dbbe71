CONSTANTS
    p = p
    q = q
    s = s
    x = x
    y = y
    Reqs = {p, q, s}
    Conns = {x, y}
    MaxIdle = 1
    Alpn = TRUE
SPECIFICATION Spec
INVARIANTS SingleLease ReadyWhenPooled OneConnecting WaitsForSomebody
SYMMETRY Symmetry
CHECK_DEADLOCK FALSE
