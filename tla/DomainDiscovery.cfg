CONSTANTS
    own = own
    other = other
    Domains <- MCDomains
    OwnDomain = own
    BroadcastEnabled = TRUE
    ValidDomains <- MCValid
    MAX_RECEIVE_COUNT = 3
    Rate = 2
    MaxStarts = 2
    MaxLate = 1
    MaxDatagrams = 2
    MaxCommands = 2
SPECIFICATION Spec
INVARIANTS
    ThreadsAgree
PROPERTIES
    DeadDomainIsRemoved
    LiveDomainIsAdded
CHECK_DEADLOCK FALSE
