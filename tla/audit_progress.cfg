SPECIFICATION LockingSpec
CONSTANTS
    Workers = {w1, w2}
    Users = {alice}
    System = System
    Removable = {alice}
    MaxLogs = 3
    MaxClock = 0
    MaxAborts = 1
    MaxEdits = 0
\* the clients may stop sending requests
CHECK_DEADLOCK FALSE
PROPERTY RequestsEnd
