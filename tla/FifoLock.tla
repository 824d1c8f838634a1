------------------------------ MODULE FifoLock ------------------------------
(***************************************************************************)
(* What NetLock promises of one lock, wherever it is managed: a            *)
(* reader/writer lock granted in arrival order, except that a request may  *)
(* overtake requests it does not conflict with.                            *)
(***************************************************************************)
EXTENDS Integers, Sequences, FiniteSets

CONSTANTS Requests, Exclusive

VARIABLES
    holders,  \* requests that have been granted the lock and not released it
    waiting   \* requests that have arrived and were not granted, oldest first

fifoVars == << holders, waiting >>

Conflict(r, s) == r \in Exclusive \/ s \in Exclusive
Waiters == {waiting[i] : i \in DOMAIN waiting}

Init == holders = {} /\ waiting = << >>

\* No request of the set S conflicts with r.
Clear(r, S) == \A s \in S \ {r} : ~ Conflict(r, s)

Oldest(n) == {waiting[i] : i \in 1 .. n}

\* A new request arrives and waits, ...
Arrive(r) ==
    /\ r \notin holders \cup Waiters
    /\ waiting' = Append(waiting, r)
    /\ UNCHANGED holders

\* ... or is granted, if it conflicts with nobody before it.
ArriveGranted(r) ==
    /\ r \notin holders \cup Waiters
    /\ Clear(r, holders \cup Waiters)
    /\ holders' = holders \cup {r}
    /\ UNCHANGED waiting

\* The n oldest waiting requests join the holders H: none of them conflicts
\* with H or with another of the n.
Promote(n, H) ==
    /\ \A r \in Oldest(n) : Clear(r, H \cup Oldest(n))
    /\ holders' = H \cup Oldest(n)
    /\ waiting' = SubSeq(waiting, n + 1, Len(waiting))

\* Waiting requests are granted, one or several at a time.
Grant(n) == n > 0 /\ Promote(n, holders)

\* A holder releases; its release may at once grant waiting requests.
Release(r, n) == r \in holders /\ Promote(n, holders \ {r})

Next ==
    \/ \E r \in Requests : Arrive(r) \/ ArriveGranted(r)
    \/ \E n \in 0 .. Len(waiting) : Grant(n) \/ \E r \in holders : Release(r, n)

Spec == Init /\ [][Next]_fifoVars

\* No two holders conflict: whatever implements this lock excludes.
Excludes == \A r, s \in holders : r # s => ~ Conflict(r, s)
=============================================================================
