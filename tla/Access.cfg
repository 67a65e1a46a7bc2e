CONSTANTS
    User = {adm}
    Admin = adm
    Password = {p, q}
    Granted = {"viewer", "engineer"}
    ScopeLists = {{}, {d}, {"*"}}
    Token = {t}
    Dataset = {d, e}
    Request = {r}
    Ephemeral = TRUE
    SessionTTL = 1
    TokenTTL = 1
    Second = 2
    MaxTime = 2
    MaxStarts = 2
    MaxSessions = 1
SPECIFICATION Spec
SYMMETRY Symmetry
CHECK_DEADLOCK FALSE
INVARIANTS
    TypeOK
    ServedWasEntitled
    RefusedHasReason

