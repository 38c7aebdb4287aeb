\* No route's server has Sleep-on-LAN: is a request answered as without a tracker?
SPECIFICATION SafeSpec
CONSTANTS
    Configs <- JustUntracked
    Requested <- JustUntracked
    Foreign = {22}
    MaxAttempts = 1
    BaseDelay = 1
    MaxDelay = 1
    GwTimeout = 1
    Statuses = {202}
    WakeTimeout = 2
    WriteTimeout = 3
    MaxClock = 3
INVARIANT PanicsOnlyOnAbort
CHECK_DEADLOCK FALSE
