\* Two transactions that deadlock, with rejected requests.
SPECIFICATION FairSpec
CONSTANTS
    c1 = c1
    c2 = c2
    A = A
    B = B
    Clients = {c1, c2}
    Locks = {A, B}
    Trace <- CrossingTrace
    MayReject = TRUE
INVARIANTS
    CommitHoldsAll
    LocksAccounted
    TraversalSafe
PROPERTIES
    EveryAttemptEnds
