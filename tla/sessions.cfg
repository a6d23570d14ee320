SPECIFICATION Spec
CONSTANTS
    Users = {u1}
    Requests = {r1, r2}
    Tokens = {t1, t2, t3}
    Codes = {c1}
    Nobody = Nobody
    Limit = 1
    MaxRaced = 1
SYMMETRY Symmetry
\* the clients may rest
CHECK_DEADLOCK FALSE
INVARIANTS
    TypeOK
    OneLiveRefresh
    LockoutHolds
    CodeSpentOnce
PROPERTY RevocationIsFinal
