SPECIFICATION Spec
CONSTANTS
    Workers = {w1, w2, w3}
    Keys = {k1}
    k1 = k1
    NoKey = NoKey
    Hashes = {h1, h2}
    h1 = h1
    h2 = h2
    NoHash = NoHash
    NoWorker = NoWorker
    NoRecord = NoRecord
    MaxRequests = 3
    MaxDeadlockRetries = 1
    Requests <- AllRequests
INVARIANTS
    GaplessLog
    SameKeySameEvent
    TiersAgree
    AllOrNothing
PROPERTIES
    GrowsAtTheEnd
    ImplementsAtMostOnceLog
SYMMETRY WorkerSymmetry
CHECK_DEADLOCK FALSE
