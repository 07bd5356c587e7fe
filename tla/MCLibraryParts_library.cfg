SPECIFICATION LibrarySpec
CONSTANTS
    MaxPost = 3
    FirstPosts = 2
    MaxTrouble = 2
    ScanSpan = 1
    Models <- BothModels
    Videos <- FirstPost
    Liked <- SecondPost
    Overlap = 1
    Refresh = TRUE
    BatchSize = 1
    Tabs <- BothTabs
    Shorts <- SecondPost
    YoutubeBatch = 1
    VscoSections <- BothSections
    Journaled <- SecondPost
    Films <- FirstPost
    SameBytes <- Copies
    Compares = TRUE
    OnTop <- FirstPost
    Clips <- SecondPost
    KnownPages = 2

    q1 = q1
    q2 = q2
    h1 = h1
    h2 = h2
    anna = anna
    bert = bert
    Profile <- BothProfiles
    Handle <- BothHandles
    Person <- BothPeople
    Nobody = nobody
    Taken = h1
    Taker = anna
    MaxMoves = 2
    MaxEdits = 2

    LastLike = 3
    FirstLikes = 2
    KnownPageThreshold = 1
    ItemLimits <- Limits
    MaxScans = 3
    MaxErased = 1

    s1 = s1
    m1 = m1
    m2 = m2
    i1 = i1
    i2 = i2
    i3 = i3
    gone = gone
    binned = binned
    MediaPath <- Paths
    ProfileOf <- Owner
    Inode <- Inodes
    BytesOf <- Bytes
    FirstPlaced <- Library
    NewInodes <- Stores
    Selections <- Selected
    Gone = gone
    Binned = binned
    CleanupErrors = TRUE
    MaxOutside = 1

    f1 = f1
    IndexFile <- Files
    VideoFile <- Files
    Eligibles <- AllJobs
    Workers = 1
    IndexErrors = TRUE
    MaxRev = 2
    MaxEnding = 1
VIEW LibraryView
CONSTRAINT Undisturbed
CHECK_DEADLOCK FALSE
INVARIANTS
    LibraryTypeOK
    FlaggedWasGone
    DeletedStaysDeleted
    SucceededHolds
    OnePersonEach
    
    BytesKept
    LastCopyStays
    
    RunsEndSettled
