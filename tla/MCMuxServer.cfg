CONSTANTS
    a = a
    b = b
    c = c
    w = w
    Calls = {a, b, c, w}
    Oneway = {w}
    ChannelSize = 1
SPECIFICATION FairSpec
INVARIANTS ResetIsLast ErrorLostOnlyLast
PROPERTIES WriterEnds HandlersEnd
CHECK_DEADLOCK FALSE
