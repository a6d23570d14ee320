SPECIFICATION Spec
CONSTANTS
    Workers = {w1, w2}
    Late = {w2}
    Faults = {"outage", "vault_wiped", "backup_wiped", "save_fails", "save_dies"}
    MaxKeys = 2
    MaxFaults = 1
INVARIANTS
    TypeOK
    SealedRecoverable
    ServiceOpensAll
    NoSplitBrain
