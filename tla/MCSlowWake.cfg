\* A wakeOnLan.timeout above the listener's WriteTimeout: is a client whose server
\* has been woken answered?
SPECIFICATION SafeSpec
CONSTANTS
    Configs <- JustGated
    Requested <- JustGated
    Foreign = {22}
    MaxAttempts = 1
    BaseDelay = 1
    MaxDelay = 1
    GwTimeout = 1
    Statuses = {202}
    WakeTimeout = 4
    WriteTimeout = 3
    MaxClock = 5
INVARIANT WokenIsAnswered
CHECK_DEADLOCK FALSE
