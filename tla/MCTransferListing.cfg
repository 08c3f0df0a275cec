\* Ledgers as the SDK lists them and events as Export streams them.
SPECIFICATION TransferSpec
CONSTANTS
    Tables = {"ledgers", "log"}
    RowKeys = {1, 2, 3}
    Times = {1, 2}
    Sizes = {0, 3}
    Scopes <- MCScopes
    DefaultPageSize = 1
    MaxPageSize = 2
    MaxRows = 3
    Importers = {i1, i2}
    MaxImport = 2
INVARIANT EveryRowIsListed
CHECK_DEADLOCK FALSE
