CONSTANTS
    Request = {r1, r2}
    User = {u}
    Query = {p}
    Limit = 1
    Window = 2
    TTL = 1
    MaxTime = 2
    MaxRows = 1
    MaxFaults = 1
SPECIFICATION Spec
CHECK_DEADLOCK FALSE
INVARIANTS
    EveryQueryIsRecorded
