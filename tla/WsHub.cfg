CONSTANTS
    Widget = {v, w}
    QueueSize = 1
    MaxPollers = 2
    MaxTicks = 1
    MaxBroadcasts = 1
SPECIFICATION FairSpec
CHECK_DEADLOCK FALSE
INVARIANTS
    TypeOK
    GapMeansClose
    OnePollerPerWidget
PROPERTIES
    ClosedIsUnwound
