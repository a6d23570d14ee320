SPECIFICATION Spec
CONSTANTS
    Requests = {r1, r2}
    Paths = {a, b}
    AbePolicies = {p}
    PlainPolicies = {}
    NoPolicy = NoPolicy
    FieldEncryption = TRUE
    Ops = {"upload", "versions", "sign", "trash", "hard_delete",
           "rename", "remove_policy", "folder_policy"}
    Failing = {"upload", "hard_delete"}
    MaxUploads = 2
    MaxClock = 1
\* the store may rest
CHECK_DEADLOCK FALSE
SYMMETRY Symmetry
INVARIANTS
    AckedReadable
    OwnObject
    VersionRecordsPolicy
