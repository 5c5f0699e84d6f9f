CONSTANTS
    d1 = d1 d2 = d2 r1 = r1 r2 = r2 o1 = o1 o2 = o2
    Devices = {d1, d2}
    OperationIds = {o1, o2}
    Requests = {r1, r2}
    Facts = {"fit", "unfit"}
    Fit = {"fit"}
    MaxParallelism = 1
    MaxOperations = 2
    MaxArchives = 1
    MaxConsumed = 2
    PreviewLifetime = 2
    ClaimLifetime = 1
    MaxTime = 2
    MaxTargets = 2
    MaxCrashes = 1
    OwnerTimes = {0, 1}
    Reports = {"awaiting_wearer", "cancellation_requested", "failed"}
    None = None
SYMMETRY Symmetric
SPECIFICATION Spec
INVARIANTS OneWorkerPerTarget DeliveryWithinParallelism OneClaimPerRequest
PROPERTIES TerminalIsFinal 
CHECK_DEADLOCK FALSE
