CONSTANTS
    a = a b = b v = v w = w x = x y = y
    Consoles = {a, b}
    ViewIds = {v, w}
    Views = {x, y}
    NoView = NoView
    MaxSavedViews = 1
    MaxRevision = 4
    MaxInFlight = 3
    MaxCrashes = 2
SYMMETRY Symmetric
SPECIFICATION ViewsSpec
INVARIANTS RevisionNamesCollection
PROPERTIES NothingUnseenIsOverwritten 
