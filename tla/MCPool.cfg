SPECIFICATION Spec
CONSTANTS
  Callers = {a, b, c}
  Keys = {k1}
  Conns = {x, y, z}
  MaxIdle = 2
  Timeout = 0
  MaxNow = 1
  MaxGets = 4
SYMMETRY Symmetry
INVARIANTS SingleOwner IdleOldestFirst SendersOpen ConnectingExclusive NoStrandedWaiter
CHECK_DEADLOCK FALSE
