\* Two clients, two locks.  c1 has a think queue and sends its ACQUIREs in
\* batches of two, c2 sends them one by one and releases at once.
SPECIFICATION FairSpec
CONSTANTS
    c1 = c1
    c2 = c2
    A = A
    B = B
    Clients = {c1, c2}
    Locks = {A, B}
    Trace <- SharedLocks
    Batch <- Batches
    Thinking = {c1}
INVARIANTS
    BusyExact
    HeldForAReason
PROPERTIES
    EveryRequestEnds
