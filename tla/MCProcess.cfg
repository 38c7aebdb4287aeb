\* The process in all its configurations, with a request and its wake.
SPECIFICATION Spec
CONSTANTS
    Configs <- AllConfigs
    Requested <- WithRequest
    Foreign = {22}
    MaxAttempts = 3
    BaseDelay = 1
    MaxDelay = 1
    GwTimeout = 1
    Statuses = {202, 401, 404, 503}
    WakeTimeout = 4
    WriteTimeout = 6
    MaxClock = 6
INVARIANTS
    TypeOK
    ResultTellsTheAnswer
    RetriesAreBounded
    AnswersAreTold
    LogTellsStatus
    FailsForCause
    EnabledIsStarted
    DependenciesOutlive
    NothingLeft
PROPERTIES
    DefiniteAnswersEnd
    StartupEnds
    ShutdownEnds
CHECK_DEADLOCK FALSE
