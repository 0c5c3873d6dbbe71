CONSTANTS
    a = a
    b = b
    w = w
    Calls = {a, b, w}
    Oneway = {w}
    Timed = {a}
SPECIFICATION FairSpec
INVARIANTS AwaitCovered StoppedRetired
PROPERTIES TornStaysLast AnsweredWhileReading TimedCallReturns
CHECK_DEADLOCK FALSE
