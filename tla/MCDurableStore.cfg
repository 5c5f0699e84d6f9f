\* One slot may be damaged.  With the other one removed or damaged too the start
\* fails closed: the hub stops.
CONSTANTS
    fresh = fresh
    a = a
    b = b
    Values = {fresh, a, b}
    Fresh = fresh
    NoFile = NoFile
    MaxGeneration = 3
    MaxDamages = 1
SYMMETRY StoreSymmetry
SPECIFICATION StoreSpec
INVARIANTS AlwaysOpens
PROPERTIES KeepsItsPromise 
CHECK_DEADLOCK FALSE
