CONSTANTS
    own = own
    rp = rp
    s1 = s1
    u1 = u1
    q1 = q1
    q2 = q2
    q3 = q3
    NoUrl = NoUrl
    Domains <- MCDomains
    OwnDomain = own
    ProductIDs <- MCProductIDs
    RegisteredPublishersID = rp
    ServiceIDs <- MCServiceIDs
    Urls <- MCUrls
    SyncBeforeReady = FALSE
    Offers <- MCOffers
    AsyncRequests <- MCTwoAsync
    SyncRequests <- MCOneSync
    ServiceOf <- MCServiceOf
    Timed = {q2, q3}
    FutureFor = {q2, q3}
    NumPorts = 1
    Faults = {"crash", "ports"}
    TicksPerSecond = 1
    MaxTime = 2
SPECIFICATION SystemSpec
INVARIANTS
    OneOutcome
    ExecutedByNamed
    FilledByNamed
    ProviderStaysListed
PROPERTY
    RequestEnds
CHECK_DEADLOCK FALSE
