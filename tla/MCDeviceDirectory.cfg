SPECIFICATION Spec
CONSTANTS
    d1 = d1
    p1 = p1
    p2 = p2
    e1 = e1
    e2 = e2
    e3 = e3
    DeviceIds = {d1}
    Profiles = {p1, p2}
    Epochs = {e1, e2, e3}
    MaxIdentityRevision = 2
    MaxSourceRevision = 2
    MaxReceivedTime = 1
    SourceEpochLimit = 2
    HistoryLimit = 2
    EventLimit = 2
    MaxEvents = 5
    NoDevice = NoDevice
SYMMETRY DirectorySymmetry
CHECK_DEADLOCK FALSE
INVARIANTS
    LineageAdvances
    EpochNeverReturns
    WatchLogAccountsForRevisions
    SnapshotRestorable
