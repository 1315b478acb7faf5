SPECIFICATION SyncSpec
CONSTANTS
    Products = {p}
    Services = {}
    Urls = {u}
    DetailsID = DomainDetails
    DetailsUrl = detailsUrl
    DirectoryID = DirectoryService
    DirectoryUrl = directoryUrl
    NoUrl = NoUrl
    TicksPerSecond = 2
    Orderly = TRUE
    MaxTime = 4
    MaxIncarnations = 1
    MaxRemoves = 1
    MaxSyncCommands = 1
CHECK_DEADLOCK FALSE
INVARIANT RemovedIsCleared
