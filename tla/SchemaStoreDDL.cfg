CONSTANTS
    Request = {r1, r2, r3}
    Name = {a, b}
    Type = {t, u}
    MaxFaults = 0
SPECIFICATION Spec
SYMMETRY Symmetry
CHECK_DEADLOCK FALSE
INVARIANTS
    DDLIsApplied
