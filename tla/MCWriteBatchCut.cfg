CONSTANTS
    crack = crack  ppap = ppap  mfg = mfg  quality = quality
    Item = {crack, ppap}
    Critical = {crack}
    Owner = {mfg, quality}
    OwnersOf <- MCOwnersOf
    Unread = Unread
    Repeat = 2
    Modes = {"write"}
    Cuts = TRUE
    MaxMoves = 0
    MaxReplies = 0
    Page = 4
    Filtered = TRUE
    MaxFaults = 0
SPECIFICATION Spec
CHECK_DEADLOCK FALSE
INVARIANT CleanedUpMeansGone
