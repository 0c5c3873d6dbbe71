CONSTANTS
    a = a
    b = b
    w = w
    Calls = {a, b}
    Oneway = {}
    Timed = {}
SPECIFICATION FairSpec
PROPERTY CallReturns
CHECK_DEADLOCK FALSE
