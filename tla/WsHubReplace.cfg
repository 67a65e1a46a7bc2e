CONSTANTS
    Widget = {v}
    QueueSize = 2
    MaxPollers = 2
    MaxTicks = 0
    MaxBroadcasts = 0
SPECIFICATION Spec
CHECK_DEADLOCK FALSE
INVARIANTS
    ReplacedPollerIsSilent
