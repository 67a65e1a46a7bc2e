CONSTANTS
    Content = {a, b, x}
    Invalid = {x}
    BatchSize = 2
    Threshold = 1
    MaxEntries = 10
    Call = {c1, c2}
    NoCall = NoCall
    MaxRecords = 3
    MaxFaults = 1
SPECIFICATION Spec
SYMMETRY CallSymmetry
CHECK_DEADLOCK FALSE
INVARIANTS
    RetryHashesToSameKey
