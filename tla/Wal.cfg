CONSTANTS
    MaxAppends = 4
    MaxCrashes = 2
    MaxErrors = 2
SPECIFICATION Spec
CHECK_DEADLOCK FALSE
INVARIANTS
    TypeOK
    UnackedSurvives
    ReplayIsExact

