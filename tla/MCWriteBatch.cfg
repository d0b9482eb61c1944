CONSTANTS
    crack = crack  ppap = ppap  mfg = mfg  quality = quality
    Item = {crack, ppap}
    Critical = {crack}
    Owner = {mfg, quality}
    OwnersOf <- MCOwnersOf
    Unread = Unread
    Repeat = 2
    Modes = {"dry", "write", "keep"}
    Cuts = TRUE
    MaxMoves = 1
    MaxReplies = 1
    Page = 2
    Filtered = FALSE
    MaxFaults = 1
SPECIFICATION Spec
CHECK_DEADLOCK FALSE
INVARIANTS PassedRunsLeaveNothing FiledOnce MovedDataIsNotBlamed PassingTasksRanInFull
