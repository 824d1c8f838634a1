\* Every request fits into the switch queue; recirculation beats the tail.
SPECIFICATION FairSpecWithArrivals
CONSTANTS
    s1 = s1
    s2 = s2
    s3 = s3
    x1 = x1
    x2 = x2
    Requests = {s1, s2, x1, x2}
    Exclusive = {x1, x2}
    NoRequest = NoRequest
    Left = 1
    Right = 4
    RegisterModulus = 8
    LenInSwitch = 4
    FastRecirculation = TRUE
INVARIANTS
    MutualExclusion
    NotifiesOnlyWaiters
    NoStrandedWaiter
PROPERTIES
    ImplementsFifoLock
    EveryWaiterGranted
