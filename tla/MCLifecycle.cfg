CONSTANTS
    Callers = {c1, c2, c3}
    MaxCycles = 3
SPECIFICATION Spec
INVARIANTS
    NoOrphan
    StopIsOfItsCycle
PROPERTIES
    StopReturns
CHECK_DEADLOCK FALSE
