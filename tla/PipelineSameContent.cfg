CONSTANTS
    Content = {a, b, x}
    Invalid = {x}
    BatchSize = 2
    Threshold = 1
    MaxEntries = 2
    Call = {c1, c2}
    NoCall = NoCall
    MaxRecords = 2
    MaxFaults = 0
SPECIFICATION Spec
SYMMETRY CallSymmetry
CHECK_DEADLOCK FALSE
INVARIANTS
    AckedWasProcessed
