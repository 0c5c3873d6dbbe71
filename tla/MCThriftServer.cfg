CONSTANTS
    x = x
    y = y
    z = z
    Conns = {x, y, z}
    MaxWaits = 2
    MaxReqs = 2
SPECIFICATION FairSpec
INVARIANTS CountExact OneLateRequest NobodyCutOff
PROPERTY ExitEnds
CHECK_DEADLOCK FALSE
