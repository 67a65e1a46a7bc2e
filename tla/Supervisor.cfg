CONSTANTS
    N = 3
    Initial = 1
    Multiplier = 2
    MaxDelay = 3
    MaxExits = 2
    MaxStartErrors = 1
SPECIFICATION FairSpec
CHECK_DEADLOCK FALSE
INVARIANTS
    TypeOK
    OneInstance
    ReverseStopOrder
    StartIsHealthGated
PROPERTIES
    ExitedIsRestarted
    StopReturnsUnlessRestarted
