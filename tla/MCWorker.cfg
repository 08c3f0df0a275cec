\* Batches: a server with three writers and as many connections, a worker, three events.
\* Deployment: two processes that migrate, three times in all, and the worker.
SPECIFICATION PartsSpec
CONSTANTS
    server = server
    NoWriter = NoWriter
    Procs = {server, sweeps}
    Workers = {sweeps}
    Writers = {w1, w2, w3}
    Home <- MCHome
    PoolSize <- MCPoolSize
    MaxEvents = 3
    MaxCloseRetries = 0
    ListLimit = 2
    MaxBatches = 2
    MaxLog = 3
    MaxCrashes = 1
    m1 = m1
    Migrators = {m1, m2}
    MaxRuns = 3
    Threshold = 0
    MaxDeltas = 1
    MaxClock = 1
    MaxConsecutiveFailures = 2
INVARIANTS
    RootCoversPrefix
    VerifyIsExact
    ChainDoesNotFork
    SchemaIsPrefix
PROPERTIES
    EventsAreSealed
    DeltasAreRolledUp
CHECK_DEADLOCK FALSE
