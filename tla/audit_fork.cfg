SPECIFICATION Spec
CONSTANTS
    Workers = {w1, w2}
    Users = {alice}
    System = System
    Removable = {}
    MaxLogs = 2
    MaxClock = 1
    MaxAborts = 0
    MaxEdits = 0
INVARIANT NoFork
