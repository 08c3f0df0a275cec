\* One key, four events, a ledger that enforces its schema as well as it can.
SPECIFICATION Spec
CONSTANTS
    Variables <- MCVariables
    Accounts <- MCAccounts
    Addresses <- MCAddresses
    Keys = {k}
    Values = {v1, v2}
    Charts <- MCCharts
    Versions = {"1"}
    ActiveVersion = "1"
    Mode = "best_effort"
    MaxLog = 4
    MaxTxs = 3
    MaxReads = 1
INVARIANTS
    TransactionsFollowLog
    HistoryRebuilds
    RelationshipsAreLineage
    ChartIsExact
CHECK_DEADLOCK FALSE
