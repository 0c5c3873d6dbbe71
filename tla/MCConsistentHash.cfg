CONSTANTS
    n1 = n1
    n2 = n2
    n3 = n3
    a1 = a1
    a2 = a2
    a3 = a3
    Insts = {n1, n2, n3}
    Addrs = {a1, a2, a3}
    Hashes = {0, 1, 2, 3}
    MaxVirtual = 4
    Replicas = 2
SPECIFICATION Spec
INVARIANTS PicksFollowRing PanicsOnlyWithoutVirtual RemovalMovesOnlyItsOwn
SYMMETRY Symmetry
CHECK_DEADLOCK FALSE
