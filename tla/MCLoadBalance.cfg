CONSTANTS
    None = None
    Calls = {a, b}
    Lists <- VariedLists
    Retry = 1
    Capacity = 2
    MaxChanges = 3
SPECIFICATION FairSpec
INVARIANTS NoInstanceTwice GivesUpAfterAll FirstPickProportional
PROPERTY CacheCatchesUp
CHECK_DEADLOCK FALSE
