CONSTANTS
    a = a
    b = b
    Components <- MCOne
    Senders <- MCSenders
    Period <- MCPeriod
    Intervals <- MCIntervals
    MaxWait = 2
    Delay = 0
    Lag = 1
    MaxThreads = 2
    MaxElements = 1
    MaxTimes = 3
    Uses <- MCOverlap
SPECIFICATION Spec
PROPERTIES
    StartedIsReceived
