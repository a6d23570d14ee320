SPECIFICATION Spec
CONSTANTS
    Requests = {r1}
    Paths = {a}
    AbePolicies = {p, q}
    PlainPolicies = {z}
    NoPolicy = NoPolicy
    FieldEncryption = FALSE
    Ops = {"upload", "versions", "trash", "restore", "hard_delete", "destroy", "assign"}
    Failing = {"upload", "hard_delete", "destroy"}
    MaxUploads = 2
    MaxClock = 2
\* the store may rest
CHECK_DEADLOCK FALSE
SYMMETRY Symmetry
INVARIANTS
    TypeOK
    AckedReadable
    EncryptionFollowsLinks
