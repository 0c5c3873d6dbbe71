CONSTANTS
    a = a
    b = b
    c = c
    Addrs = {a, b, c}
    Orderly <- MCOrderly
    Rival <- MCRival
    N = 3
SPECIFICATION FairSpec
INVARIANTS RightListener
PROPERTIES NoGap HandoverEnds RestartRecovers
CHECK_DEADLOCK FALSE
