SPECIFICATION FairSpec
CONSTANTS
    o1 = o1
    o2 = o2
    d1 = d1
    d2 = d2
    Operations = {o1, o2}
    Devices = {d1, d2}
    NoOperation = NoOperation
    Actions = {"request"}
    Asked <- MCAsked
    Configurations <- MCConfigurations
    Receipts <- MCReceipts
    Slots = 2
INVARIANTS OneWorkerPerHeadset AppliedIsProven
CHECK_DEADLOCK FALSE
PROPERTY TargetsSettle
