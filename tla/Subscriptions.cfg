CONSTANTS
    own = own
    rp = rp
    p1 = p1
    p2 = p2
    sd = sd
    u1 = u1
    a = a
    b = b
    m1 = m1
    NoUrl = NoUrl
    Domains <- MCDomains
    OwnDomain = own
    ProductIDs <- MCProductIDs
    RegisteredPublishersID = rp
    ServiceIDs <- MCServiceIDs
    Urls <- MCUrls
    SyncBeforeReady = FALSE
    MaxTime = 2
    TicksPerSecond = 1
    SubscribedID = p1
    DirectoryUrl = sd
    Subscribers <- MCSubscribers
    ReceiveCached <- MCSubscribers
    Monitors <- MCMonitors
    Uses <- MCNoUses
    MaxBinds = 2
    MaxPublished = 2
    MaxQueue = 1
    MaxCommands = 1
SYMMETRY MCSymmetry
SPECIFICATION SystemSpec
INVARIANTS
    SubscriptionFollowsDirectory
    SubscribersUpToDate
    DeliversSubscribedProduct
    RegisteredStaysListed
PROPERTY SocketsDeliverOnce
CHECK_DEADLOCK FALSE
