CONSTANTS
    d1 = d1 d2 = d2 k1 = k1 k2 = k2 old = old e1 = e1 e2 = e2 p = p
    c1 = c1 c2 = c2 c3 = c3 c4 = c4
    Devices = {d1, d2}
    Profiles = {p}
    Epochs = {e1, e2}
    MaxIdentityRevision = 2
    MaxSourceRevision = 3
    SourceEpochLimit = 2
    NoDevice = NoDevice
    Keys = {k1, k2, old}
    NoKey = NoKey
    Ids = {c1, c2, c3, c4}
    Envelopes <- MCEnvelopes
    w1 = w1 off = off
    WifiOperations = {w1, off}
    Wifi <- MCWifi
    KioskCapable = {d1}
    NoProof = NoProof
    NoReceipt = NoReceipt
    ActiveKey <- MCActiveKey
    KeyValidFrom <- MCKeyValidFrom
    KeyExpires <- MCKeyExpires
    SeenLimit = 3
    MaxTime = 2
    MaxEvents = 2
SPECIFICATION Spec
INVARIANTS NeverAdmissibleAgain AuthoritiesAgree SlotsRestore UsableIsProven
CHECK_DEADLOCK FALSE
