CONSTANTS
    MaxAppends = 3
    MaxCrashes = 1
    MaxErrors = 1
SPECIFICATION Spec
CHECK_DEADLOCK FALSE
INVARIANTS
    ConfirmedIsOnDisk
