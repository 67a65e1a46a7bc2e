CONSTANTS
    Services = 2
    MaxRuns = 2
    MaxDownloads = 2
    MaxFaults = 2

SPECIFICATION LauncherSpec
INVARIANT HealthyIsOwn
CHECK_DEADLOCK FALSE
