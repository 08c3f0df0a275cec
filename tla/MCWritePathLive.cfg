SPECIFICATION Spec
CONSTANTS
    Workers = {w1, w2}
    Keys = {k1}
    k1 = k1
    NoKey = NoKey
    Hashes = {h1, h2}
    h1 = h1
    h2 = h2
    NoHash = NoHash
    NoWorker = NoWorker
    NoRecord = NoRecord
    MaxRequests = 3
    MaxDeadlockRetries = 1
    Requests <- LiveRequests
PROPERTY EveryRequestEnds
CHECK_DEADLOCK FALSE
