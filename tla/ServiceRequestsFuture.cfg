CONSTANTS
    own = own
    rp = rp
    s1 = s1
    u1 = u1
    q1 = q1
    q2 = q2
    q3 = q3
    NoUrl = NoUrl
    Domains <- MCDomains
    OwnDomain = own
    ProductIDs <- MCProductIDs
    RegisteredPublishersID = rp
    ServiceIDs <- MCServiceIDs
    Urls <- MCUrls
    SyncBeforeReady = FALSE
    Offers <- MCOffers
    AsyncRequests <- MCOneAsync
    SyncRequests <- MCNoSync
    ServiceOf <- MCServiceOf
    Timed = {}
    FutureFor = {q1}
    NumPorts = 1
    Faults = {}
    TicksPerSecond = 1
    MaxTime = 1
SPECIFICATION SystemSpec
INVARIANT
    ResponseIsDelivered
CHECK_DEADLOCK FALSE
