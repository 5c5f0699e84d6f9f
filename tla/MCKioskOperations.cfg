SPECIFICATION KioskSpec
CONSTANTS
    d1 = d1
    d2 = d2
    r1 = r1
    r2 = r2
    op1 = op1
    Devices = {d1, d2}
    Requests = {r1, r2}
    OperationIds = {op1}
    StaleAfter = 1
    OfflineAfter = 2
    NoRequest = NoRequest
    NoTarget = NoTarget
    NoOperation = NoOperation
    Times = {0, 1, 2}
    Lifetime = 1
    Parallelism = {1, 2}
    AttemptLimits = {1, 2}
    FreshFor = 1
    MaxEvidence <- MCMaxEvidence
    MaxIdentity <- MCMaxIdentity
SYMMETRY OperationsSymmetry
CHECK_DEADLOCK FALSE
INVARIANTS
    GuardsSuffice
    ConfirmedTogether
PROPERTIES
    HistoryIsKept
    StartsOnlyWhatWasPreviewed
