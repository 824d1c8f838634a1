\* Four requests of two hosts; lock 6 is in the switch, lock 3 is not.
SPECIFICATION Spec
CONSTANTS
    Requests <- MCRequests
    Locks = {3, 6}
    TxnIds = {1, 6}
    InSwitch = {6}
    ServerNodes = 2
    TxnPorts = 4
    LockPorts = 4
    Base = 4
INVARIANTS
    GrantIsOfRequest
    OneLcorePerTxn
    OneLcorePerLock
    LatencyOfRequest
CHECK_DEADLOCK FALSE
