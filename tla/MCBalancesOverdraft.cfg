SPECIFICATION Spec
CONSTANTS
    Workers = {w1, w2}
    NoWorker = NoWorker
    Accounts = {world, u1, u2}
    world = world
    u1 = u1
    u2 = u2
    NoAccount = NoAccount
    Issuers = {world}
    Assets = {usd, eur}
    usd = usd
    eur = eur
    Requests <- SpendRequests
    Setup <- Funded
    MaxRequests = 3
    MaxDeadlockRetries = 1
INVARIANT NonIssuerNeverNegative
CHECK_DEADLOCK FALSE
