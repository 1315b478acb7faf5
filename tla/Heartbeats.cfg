CONSTANTS
    a = a
    b = b
    Components <- MCOne
    Senders <- MCSenders
    Period <- MCPeriod
    Intervals <- MCIntervals
    MaxWait = 2
    Delay = 0
    Lag = 1
    MaxThreads = 2
    MaxElements = 2
    MaxTimes = 2
    Uses <- MCOverlapAgain
SPECIFICATION Spec
INVARIANTS
    TypeOK
PROPERTIES
    MissedIsSilent
    ReceivedIsRecent
    AliveIsNotMissed
    ReportsGoOn
    StoppedSenderEnds
