SPECIFICATION Spec
CONSTANTS
    Workers = {w1}
    Late = {}
    Scheme = "tkn20"
    Policies <- MCPolicies
    Satisfies <- MCSatisfies
    Parses <- MCParses
    Faults = {"crash", "outage"}
    MaxKeys = 4
    MaxFiles = 1
    MaxFaults = 1
INVARIANT SealedKeysKept
