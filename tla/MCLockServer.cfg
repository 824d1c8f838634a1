\* Three readers and two writers of one lock of the server.
SPECIFICATION FairSpec
CONSTANTS
    s1 = s1
    s2 = s2
    s3 = s3
    x1 = x1
    x2 = x2
    Requests = {s1, s2, s3, x1, x2}
    Exclusive = {x1, x2}
INVARIANTS
    TypeOK
    MutualExclusion
    ReleaseFindsEntry
    QueueInv
PROPERTIES
    ImplementsFifoLock
    EveryWaiterGranted
