SPECIFICATION Spec
CONSTANTS
    Workers = {w1, w2}
    Users = {alice}
    System = System
    Removable = {alice}
    MaxLogs = 3
    MaxClock = 0
    MaxAborts = 1
    MaxEdits = 1
SYMMETRY WorkerSymmetry
INVARIANTS
    TypeOK
    LinksBackward
    AcceptedMeansIntact
PROPERTY GrowsAsTree
