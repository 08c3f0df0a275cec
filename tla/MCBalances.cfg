SPECIFICATION Spec
CONSTANTS
    Workers = {w1, w2, w3}
    NoWorker = NoWorker
    Accounts = {world, u1, u2}
    world = world
    u1 = u1
    u2 = u2
    NoAccount = NoAccount
    Issuers = {world}
    Assets = {usd, eur}
    usd = usd
    eur = eur
    Requests <- CompetingRequests
    Setup <- OneHold
    MaxRequests = 3
    MaxDeadlockRetries = 1
INVARIANTS
    CapturedWithinAuthorized
    ClosedHoldsAreFinal
    ProjectionsFollowLog
PROPERTIES
    OnlyStaleChecksOverdraw
    EveryTransactionEnds
CHECK_DEADLOCK FALSE
