SPECIFICATION Spec
CONSTANTS
    Workers = {w1, w2}
    Late = {w2}
    Scheme = "tkn20"
    Policies <- MCPolicies
    Satisfies <- MCSatisfies
    Parses <- MCParses
    Faults = {"crash", "outage"}
    MaxKeys = 4
    MaxFiles = 2
    MaxFaults = 1
INVARIANTS
    TypeOK
    RestartsKeepKeys
    FilesOpen
