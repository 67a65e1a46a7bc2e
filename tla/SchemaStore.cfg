CONSTANTS
    Request = {r1, r2, r3}
    Name = {a, b}
    Type = {t, u}
    MaxFaults = 1
SPECIFICATION Spec
SYMMETRY Symmetry
CHECK_DEADLOCK FALSE
INVARIANTS
    TypeOK
    NoLostUpdate
    SuccessIsQueryable
    TableWithinRegistry
PROPERTIES
    ImplementsRegistry
