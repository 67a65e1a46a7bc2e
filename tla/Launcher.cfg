CONSTANTS
    Services = 2
    MaxRuns = 2
    MaxDownloads = 2
    MaxFaults = 2

SPECIFICATION LauncherSpec
CHECK_DEADLOCK FALSE
INVARIANT LauncherTypeOK
INVARIANT CleanHandover
PROPERTY ServedInTheEnd
