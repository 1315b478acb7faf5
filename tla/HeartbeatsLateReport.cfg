CONSTANTS
    a = a
    b = b
    Components <- MCOne
    Senders <- MCSenders
    Period <- MCPeriod
    Intervals <- MCIntervals
    MaxWait = 2
    Delay = 0
    Lag = 0
    MaxThreads = 1
    MaxElements = 1
    MaxTimes = 1
    Uses <- MCOrderly
SPECIFICATION Spec
PROPERTIES
    ReceivedIsAlwaysRecent
