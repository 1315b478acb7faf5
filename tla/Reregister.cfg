SPECIFICATION Spec
CONSTANTS
    n1 = n1
    n2 = n2
    Nodes = {n1, n2}
    OffersOf <- MCOffersOf
    Subscribers = {n2}
    Topic = "topic"
    DirectoryUrls = {u}
    UpdatesUrls = {w}
    NoUrl = NoUrl
    NoUpdate = NoUpdate
    Fresh = {n2}
    StartSteps = {1}
    Slow = FALSE
    MaxStarts = 3
    MaxOperations = 2
CHECK_DEADLOCK FALSE
INVARIANT SettledIsListed
INVARIANT SubscriptionRestored
PROPERTY EndedStaysEnded
PROPERTY RelistedInTheEnd
PROPERTY OperationEnds
