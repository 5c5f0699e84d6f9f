\* One operation outlives its lease while the other starts.
CONSTANTS
    o1 = o1
    o2 = o2
    g1 = g1
    g2 = g2
    Operations = {o1, o2}
    Generations = {g1, g2}
    NoGeneration = NoGeneration
    NoRequest = NoRequest
    NoReceipt = NoReceipt
    NoOperation = NoOperation
    Lifetime = 1
    Lag = 1
    MaxTime = 2
SYMMETRY HotspotSymmetry
SPECIFICATION Spec
INVARIANTS OneHolder SentIsDurable OwnershipIsVerified
PROPERTIES SettledForGood
CHECK_DEADLOCK FALSE
