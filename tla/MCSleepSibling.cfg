CONSTANTS
    a = a
    b = b
    s1 = s1
    NoRoute = NoRoute
    Routes = {a, b}
    ServerOf <- OneServer
    IdleTimeout <- BothTracked
    Senders = {a, b}
    Handlers = {1}
    CheckInterval = 1
    MaxLag = 0
    BufSize = 1
SPECIFICATION SafeSpec
PROPERTIES
    TriggersOnlyIdleServers
