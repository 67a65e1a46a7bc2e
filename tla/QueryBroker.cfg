CONSTANTS
    Request = {r1, r2, r3}
    User = {u}
    Query = {p, q}
    Limit = 2
    Window = 2
    TTL = 1
    MaxTime = 2
    MaxRows = 1
    MaxFaults = 1
SPECIFICATION Spec
SYMMETRY Symmetry
CHECK_DEADLOCK FALSE
INVARIANTS
    TypeOK
    AuditMatchesAnswer
    CachedIsBacked
    WithinLimit
