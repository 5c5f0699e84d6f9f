SPECIFICATION FairSpec
CONSTANTS
    d1 = d1
    d2 = d2
    Devices = {d1, d2}
    Requests = {d1, d2}
    StaleAfter = 1
    OfflineAfter = 2
    NoRequest = NoRequest
    NoTarget = NoTarget
    NoOperation = NoOperation
    Lifetime = 2
    Parallelism = 1
    FreshFor = 2
    MaxTime = 2
    MaxEvidence <- MCMaxEvidence
    MaxIdentity <- MCMaxIdentity
    MaxExecutions = 2
    MaxCrashes = 1
    MayRefuse = TRUE
CHECK_DEADLOCK FALSE
INVARIANTS
    AttemptsHaveOneWorker
    SentIsDurable
    InvokedAtMostOnce
PROPERTIES
    VisibleSurvives
    AttemptsSettle
