CONSTANTS
    d1 = d1
    Operations = {1, 2}
    Devices = {d1}
    NoOperation = NoOperation
    Actions = {"status", "start_windows", "start_device", "restore"}
    Readbacks <- MCReadbacks
    Slots = 1
    ProviderSlots = 1
    FailureLimit = 2
    MaxTime = 2
SPECIFICATION Spec
INVARIANTS WatchdogCanBeStopped LaterStopWins 
CHECK_DEADLOCK FALSE
