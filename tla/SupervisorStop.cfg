CONSTANTS
    N = 2
    Initial = 1
    Multiplier = 2
    MaxDelay = 3
    MaxExits = 2
    MaxStartErrors = 1
SPECIFICATION FairSpec
CHECK_DEADLOCK FALSE
PROPERTIES
    StopTerminates
