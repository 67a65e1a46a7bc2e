CONSTANTS
    Limit = 2
    Window = 3
    MaxTime = 8
    MaxMessages = 8
SPECIFICATION Spec
CHECK_DEADLOCK FALSE
INVARIANTS
    CapsPerSecond
