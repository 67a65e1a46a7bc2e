CONSTANTS
    Limit = 1
    Window = 2
    MaxTime = 2
    MaxMessages = 3
    MaxStamp = 2
    MaxRows = 2
    MaxFaults = 1
SPECIFICATION FairWidgetSpec
CHECK_DEADLOCK FALSE
INVARIANTS
    WidgetTypeOK
    IncrementalShowsOnce
    WithinTwiceLimit
PROPERTIES
    NewRowIsShown
