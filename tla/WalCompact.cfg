CONSTANTS
    MaxAppends = 3
    MaxCrashes = 1
    MaxErrors = 0
SPECIFICATION Spec
CHECK_DEADLOCK FALSE
INVARIANTS
    CompactKeepsUnacked
