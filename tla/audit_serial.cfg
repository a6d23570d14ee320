SPECIFICATION Spec
CONSTANTS
    Workers = {w1}
    Users = {alice}
    System = System
    Removable = {}
    MaxLogs = 4
    MaxClock = 2
    MaxAborts = 0
    MaxEdits = 0
INVARIANT QuickRaisesNoFalseAlarm
PROPERTY GrowsAsChain
