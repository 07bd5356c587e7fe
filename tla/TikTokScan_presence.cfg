SPECIFICATION TikTokSpec
CONSTANTS
    MaxPost = 2
    FirstPosts = 2
    MaxTrouble = 1
    ScanSpan = 0
    Refresh = FALSE
    BatchSize = 2
CHECK_DEADLOCK FALSE
INVARIANT FlaggedWasGone
