\* Three rows of any kind, batches of two objects.
SPECIFICATION TracesSpec
CONSTANTS
    TxnIds = {1, 2}
    Objects = {1, 2, 3}
    Lock <- Batches
    UpgradeModes = TRUE
    MaxRows = 3
INVARIANTS
    TraceForClient
    AccessesCovered
CHECK_DEADLOCK FALSE
