\* A request has overflowed to the server when the switch fails.
SPECIFICATION OverflowSpec
CONSTANTS
    c1 = c1
    c2 = c2
    h1 = h1
    h2 = h2
    Clients = {c1, c2}
    Hosts = {h1, h2}
    Requests <- MCRequests
    Exclusive <- MCRequests
    HostOf <- MCHostOf
    FirstOf <- MCFirstOf
    NoRequest = NoRequest
    Left = 1
    Right = 1
    RegisterModulus = 8
    MaxAttempts <- MCMaxAttempts
    MaxProbes = 1
    LenInSwitch = 1
INVARIANTS
    NotifiedQueuesEmpty
CHECK_DEADLOCK FALSE
