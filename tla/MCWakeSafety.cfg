CONSTANTS
    r1 = r1
    r2 = r2
    r3 = r3
    a = a
    None = None
    Routes = {a}
    Requests = {r1, r2, r3}
    RouteOf <- OneRoute
    WakeTimeout = 1
    Debounce = 2
    Graceful = TRUE
SPECIFICATION SafeSpec
SYMMETRY Symmetry
INVARIANTS
    SlotNamesTheWake
    ForwardedOnSuccess
    RefusedForCause
    CloseLeavesNoWake
