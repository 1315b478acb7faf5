CONSTANTS
    own = own
    foreign = foreign
    rp = rp
    p1 = p1
    p2 = p2
    s1 = s1
    u1 = u1
    u2 = u2
    NoUrl = NoUrl
    Domains <- MCOneDomain
    OwnDomain = own
    ProductIDs <- MCProductIDs
    RegisteredPublishersID = rp
    ServiceIDs <- MCServiceIDs
    Urls <- MCUrls
    SyncBeforeReady = FALSE
    MaxTime = 3
    TicksPerSecond = 2
SPECIFICATION Spec
INVARIANTS
    TypeOK
    OneProductPerUrl
PROPERTY DetailsTrackDirectory
CHECK_DEADLOCK FALSE
