CONSTANTS
    Content = {a, b, x}
    Invalid = {x}
    BatchSize = 2
    Threshold = 1
    MaxEntries = 2
    Call = {c1, c2, c3}
    NoCall = NoCall
    MaxRecords = 3
    MaxFaults = 2
SPECIFICATION FairSpec
CHECK_DEADLOCK FALSE
INVARIANTS
    TypeOK
    LossHasCause
    DuplicatesBounded
PROPERTIES
    EventuallyDrained
