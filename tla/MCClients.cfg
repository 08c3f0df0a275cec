\* Approvals: three callers, two of whose approvals are required, and a sweep.
\* Feed: one subscriber, three events, pages of two and a channel for two.
\* Transfer: every table, three rows, pages of one and two, two imports and a
\* writer.
SPECIFICATION ClientsSpec
CONSTANTS
    Callers = {c1, c2, c3}
    Sweepers = {p1}
    NoCaller = NoCaller
    ann = ann
    bob = bob
    sue = sue
    Principals = {ann, bob, sue}
    Required = {ann, bob}
    Submitter = sue
    MaxAuditRetries = 1
    Subscribers = {s1}
    MaxId = 3
    TypeOf <- MCTypeOf
    Filters <- MCFilters
    BufferSize = 2
    PageSize = 2
    MaxReplay = 3
    Tables <- MCTables
    RowKeys = {1, 2, 3}
    Times = {1, 2}
    Sizes = {0, 3}
    Scopes <- MCScopes
    DefaultPageSize = 1
    MaxPageSize = 2
    MaxRows = 3
    Importers = {i1, i2}
    MaxImport = 2
INVARIANTS
    FourEyes
    ExecutedAtMostOnce
    ExecutedIsReal
    NothingMissedSilently
    NoDuplicates
    RestoredIsPrefix
PROPERTIES
    EveryApprovalEnds
    EveryListingEnds
CHECK_DEADLOCK FALSE
