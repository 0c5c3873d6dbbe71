CONSTANTS
    Requests <- ManyRequests
    Replies <- ManyReplies
    U16 = 65536
    Exchanges = 2
    NoMap = NoMap
    None = None
SPECIFICATION Spec
INVARIANTS ServerSeesRequest ClientSeesReply GarbledOnlyByLongStrings SizeInSyncElsewhere
CHECK_DEADLOCK FALSE
