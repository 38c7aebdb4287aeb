CONSTANTS
    a1 = a1
    a2 = a2
    b1 = b1
    c1 = c1
    a = a
    b = b
    c = c
    p = p
    q = q
    NoRoute = NoRoute
    Routes = {a1, a2, b1, c1}
    KeyOf <- Keyed
    PortOf <- Ports
    Configs <- OneRoute
    Versions <- Replaced
    Foreign = {p}
    MaxEdits = 2
    MaxListeners = 3
SPECIFICATION Spec
INVARIANTS
    PortsAreDistinct
    LiveIsListed
    ListedIsMapped
    QuietServesConfig
PROPERTIES
    ReloadEnds
    StopEnds
CHECK_DEADLOCK FALSE
