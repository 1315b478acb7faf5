CONSTANTS
    a = a
    b = b
    Components <- MCTwo
    Senders <- MCSenders
    Period <- MCPeriod
    Intervals <- MCChanging
    MaxWait = 3
    Delay = 0
    Lag = 1
    MaxThreads = 1
    MaxElements = 2
    MaxTimes = 1
    Uses <- MCAgain
SPECIFICATION Spec
PROPERTIES
    MissedIsSilent
    ReceivedIsRecent
