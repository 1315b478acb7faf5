CONSTANTS
    own = own
    foreign = foreign
    rp = rp
    p1 = p1
    p2 = p2
    s1 = s1
    u1 = u1
    u2 = u2
    NoUrl = NoUrl
    Domains <- MCTwoDomains
    OwnDomain = own
    ProductIDs <- MCTwoProducts
    RegisteredPublishersID = rp
    ServiceIDs <- MCNoServices
    Urls <- MCUrls
    SyncBeforeReady = FALSE
    MaxTime = 2
    TicksPerSecond = 1
SPECIFICATION Spec
INVARIANTS
    NoLostUpdate
    CachedUpdateCurrent
CHECK_DEADLOCK FALSE
