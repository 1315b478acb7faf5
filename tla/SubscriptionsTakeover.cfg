CONSTANTS
    own = own
    rp = rp
    p1 = p1
    p2 = p2
    sd = sd
    u1 = u1
    a = a
    b = b
    m1 = m1
    NoUrl = NoUrl
    Domains <- MCDomains
    OwnDomain = own
    ProductIDs <- MCProductIDs
    RegisteredPublishersID = rp
    ServiceIDs <- MCServiceIDs
    Urls <- MCUrls
    SyncBeforeReady = FALSE
    MaxTime = 4
    TicksPerSecond = 2
    SubscribedID = p1
    DirectoryUrl = sd
    Subscribers <- MCOneSubscriber
    ReceiveCached <- MCOneSubscriber
    Monitors <- MCNoMonitors
    Uses <- MCLateUses
    MaxBinds = 2
    MaxPublished = 2
    MaxQueue = 1
    MaxCommands = 1
SPECIFICATION SystemSpec
INVARIANTS
    DeliversSubscribedProduct
    RegisteredStaysListed
PROPERTY SocketsDeliverOnce
CHECK_DEADLOCK FALSE
