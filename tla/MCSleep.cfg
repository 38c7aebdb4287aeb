CONSTANTS
    a = a
    b = b
    s1 = s1
    NoRoute = NoRoute
    Routes = {a, b}
    ServerOf <- OneServer
    IdleTimeout <- OneTracked
    Senders = {a}
    Handlers = {1, 2}
    CheckInterval = 1
    MaxLag = 1
    BufSize = 1
SPECIFICATION Spec
PROPERTIES
    IdleRouteIsHandled
    TriggersOnlyIdleRoutes
    TriggersAreSpaced
