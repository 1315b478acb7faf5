CONSTANTS
    own = own
    rp = rp
    p1 = p1
    p2 = p2
    s1 = s1
    s2 = s2
    u1 = u1
    u2 = u2
    a = a
    b = b
    NoUrl = NoUrl
    EmptyUrl = EmptyUrl
    Domains <- MCDomains
    OwnDomain = own
    ProductIDs <- MCProductIDs
    RegisteredPublishersID = rp
    ServiceIDs <- MCServiceIDs
    Urls <- MCUrls
    SyncBeforeReady = FALSE
    Nodes <- MCTwoNodes
    OffersOf <- MCProductOrService
    UrlsOf <- MCSamePort
    MaxAttempts = 2
    Faults = {"timeout", "crash"}
    TicksPerSecond = 2
    MaxTime = 4
SPECIFICATION SystemSpec
INVARIANTS
    UndisputedIsListed
    UndisputedServiceIsFound
CHECK_DEADLOCK FALSE
