SPECIFICATION PartsSpec
CONSTANTS
    p1 = p1
    Plan <- Plans
    Interval = 1
    StartupDelay = 1
    Ahead = 1
    MaxTime = 2

    Custom = own
    Absent = absent
    r1 = r1
    r2 = r2
    t1 = t1
    t2 = t2
    Release <- Releases
    Pinned = r1
    Published <- Latest
    Thread <- Threads
    MaxUse = 1
    MaxLosses = 1

    LastVersion = 3
    FirstVersion = 1
    Archives <- Backups
    Retention = 2
    MaxCommits = 1
    MaxStamp = 1

    a1 = a1
    a2 = a2
    anna = anna
    bert = bert
    ProviderAccount <- BothAccounts
    Login <- BothLogins
    Genuine <- GenuineLogins
    FirstAccount = a1
    FirstLogin = anna
    Drafts <- OnlyReady
    MaxSecrets = 3
    MaxCommands = 3

    l1 = l1
    l2 = l2
    k1 = k1
    k2 = k2
    LegacyFolder <- LegacyFolders
    XmlHandle <- OneHandle
    HandMade <- ByHand
    Certain <- NamedFolders
    FirstFiles <- FilesThere
    Catalogued <- FilesListed
    LastPost = 3
    FirstPublished = 2
    MaxProfiles = 2
    MaxJobs = 2
    MaxDeeds = 2

    u1 = u1
    u2 = u2
    d1 = d1
    d2 = d2
    Link <- Links
    PostOf <- Posts
    Slideshow <- Slides
    Shown <- Asked
    Place <- Places
    FirstRoot = d1
    MaxOrders = 4
    MaxStops = 1

    n1 = n1
    n2 = n2
    n3 = n3
    w1 = w1
    w2 = w2
    w3 = w3
    w4 = w4
    Shelf <- ThreeFiles
    FileVersion <- FourVersions
    SizeOf <- EqualSizes
    Pixels <- Shots
    Alike <- Likeness
    Albums <- BothAlbums
    CanBecome <- Changing
    NoBytes = nobytes
    MaxHunts = 2
    MaxChanges = 2
VIEW PartsView
CONSTRAINT Undisturbed
CHECK_DEADLOCK FALSE
INVARIANTS
    PartsTypeOK
    PausesStand
    ChosenIsTaken
    WorkspaceKept
    OriginKept
    
    RevertReturns
    
    CaughtUp
    SinglesAreThere
    
PROPERTIES
    RunsAsAsked
