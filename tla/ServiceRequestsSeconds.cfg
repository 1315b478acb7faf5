CONSTANTS
    own = own
    rp = rp
    s1 = s1
    u1 = u1
    q1 = q1
    q2 = q2
    q3 = q3
    NoUrl = NoUrl
    Domains <- MCDomains
    OwnDomain = own
    ProductIDs <- MCProductIDs
    RegisteredPublishersID = rp
    ServiceIDs <- MCServiceIDs
    Urls <- MCUrls
    SyncBeforeReady = FALSE
    Offers <- MCOffers
    AsyncRequests <- MCTwoAsync
    SyncRequests <- MCNoSync
    ServiceOf <- MCServiceOf
    Timed = {}
    FutureFor = {}
    NumPorts = 1
    Faults = {"crash"}
    TicksPerSecond = 2
    MaxTime = 7
SPECIFICATION SystemSpec
INVARIANT ProviderStaysListed
CHECK_DEADLOCK FALSE
