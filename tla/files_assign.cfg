SPECIFICATION Spec
CONSTANTS
    Requests = {r1, r2}
    Paths = {a}
    AbePolicies = {}
    PlainPolicies = {z}
    NoPolicy = NoPolicy
    FieldEncryption = TRUE
    Ops = {"upload", "restore", "trash", "assign", "remove_policy"}
    Failing = {"assign"}
    MaxUploads = 2
    MaxClock = 2
\* the store may rest
CHECK_DEADLOCK FALSE
SYMMETRY Symmetry
INVARIANTS
    AckedReadable
