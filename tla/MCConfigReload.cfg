CONSTANTS
    MaxEdits = 4
    Broken = {2}
    Overlap = FALSE
SPECIFICATION Spec
INVARIANTS
    NoLostSignal
    QuietMeansCurrent
PROPERTIES
    NoReloadStartsAfterStop
    EditReachesRoutes
CHECK_DEADLOCK FALSE
