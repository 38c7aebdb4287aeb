CONSTANTS
    s1 = s1
    s2 = s2
    Servers = {s1, s2}
    Interval <- OneMonitored
    Timeout = 3
    StopTimeout = 2
    MaxCycles = 2
SPECIFICATION Spec
INVARIANTS
    StoreConverges
    StopMeansQuiet
    StopGivesUpForCause
PROPERTIES
    StopReturns
