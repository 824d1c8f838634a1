----------------------------- MODULE LockServer -----------------------------
(***************************************************************************)
(* One lock that the switch is not responsible for: the lock server        *)
(* processes its requests itself (the PRIMARY_BACKUP role of server.c),    *)
(* with a linked-list queue and the counters num_ex and num_sh.  One lcore *)
(* serves a lock and handles its packets one by one, so a step is the      *)
(* arrival and the processing of one packet.                               *)
(***************************************************************************)
EXTENDS Integers, Sequences, FiniteSets

CONSTANTS
    Requests,   \* lock requests: <<client, txn>> pairs of the code
    Exclusive   \* those whose mode is EXCLUSIVE_LOCK; others are SHARED_LOCK

ASSUME RequestsAssumption == /\ IsFiniteSet(Requests)
                             /\ Exclusive \subseteq Requests

VARIABLES
    queue,   \* lockqueues[lock_id]
    num_ex,  \* num_ex[lock_id]
    num_sh,  \* num_sh[lock_id]
    status   \* what the client knows of each request

vars == << queue, num_ex, num_sh, status >>

IsExclusive(r) == r \in Exclusive

TypeOK ==
    /\ queue \in Seq(Requests)
    /\ num_ex \in Nat
    /\ num_sh \in Nat
    /\ status \in [Requests -> {"idle", "waiting", "granted"}]

Init ==
    /\ queue = << >>
    /\ num_ex = 0
    /\ num_sh = 0
    /\ status = [r \in Requests |-> "idle"]

\* GRANT_LOCK_FROM_SERVER to every request of R.
StatusGranting(R) == [r \in Requests |-> IF r \in R THEN "granted" ELSE status[r]]

-----------------------------------------------------------------------------
\* Slip: a request that is granted at once is not queued.
AcquireSharedUnqueued(r) ==
    /\ status[r] = "idle" /\ ~ IsExclusive(r)
    /\ queue' = IF num_ex = 0 THEN queue ELSE Append(queue, r)
    /\ num_sh' = num_sh + 1
    /\ status' = [status EXCEPT ![r] = IF num_ex = 0 THEN "granted" ELSE "waiting"]
    /\ UNCHANGED num_ex

\* A shared request is granted unless an exclusive one is queued before it.
AcquireShared(r) ==
    /\ status[r] = "idle" /\ ~ IsExclusive(r)
    /\ queue' = Append(queue, r)
    /\ num_sh' = num_sh + 1
    /\ status' = [status EXCEPT ![r] = IF num_ex = 0 THEN "granted" ELSE "waiting"]
    /\ UNCHANGED num_ex

\* Slip: a writer is granted past readers.
AcquireExclusivePastReaders(r) ==
    /\ status[r] = "idle" /\ IsExclusive(r)
    /\ queue' = Append(queue, r)
    /\ num_ex' = num_ex + 1
    /\ status' = [status EXCEPT ![r] = IF num_ex = 0 THEN "granted" ELSE "waiting"]
    /\ UNCHANGED num_sh

\* An exclusive request is granted if no request at all is queued before it.
AcquireExclusive(r) ==
    /\ status[r] = "idle" /\ IsExclusive(r)
    /\ queue' = Append(queue, r)
    /\ num_ex' = num_ex + 1
    /\ status' = [status EXCEPT ![r] =
                    IF num_ex = 0 /\ num_sh = 0 THEN "granted" ELSE "waiting"]
    /\ UNCHANGED num_sh

\* Slips: all the readers of the queue, only its first one.
AllShared(q) == {q[i] : i \in {j \in DOMAIN q : ~ IsExclusive(q[j])}}
FirstShared(q) == {q[i] : i \in {j \in DOMAIN q : j = 1 /\ ~ IsExclusive(q[j])}}

\* The requests at the front of q that can share the lock.
LeadingShared(q) ==
    {q[i] : i \in {j \in DOMAIN q : \A k \in 1 .. j : ~ IsExclusive(q[k])}}

StartsExclusive(q) == q # << >> /\ IsExclusive(q[1])

\* Slips: the last reader does not let a writer in; the wrong counter goes down.
ReleaseSharedSilently(r) ==
    /\ status[r] = "granted"
    /\ queue # << >> /\ ~ IsExclusive(Head(queue))
    /\ queue' = Tail(queue)
    /\ num_sh' = num_sh - 1
    /\ status' = [status EXCEPT ![r] = "idle"]
    /\ UNCHANGED num_ex

ReleaseExclusiveMiscounted(r) ==
    /\ status[r] = "granted"
    /\ queue # << >> /\ IsExclusive(Head(queue))
    /\ queue' = Tail(queue)
    /\ num_sh' = num_sh - 1
    /\ status' = [StatusGranting(LeadingShared(Tail(queue))) EXCEPT ![r] = "idle"]
    /\ UNCHANGED num_ex

\* The RELEASE of r dequeues the head of the queue, whoever released.  The
\* mode of the dequeued entry decides which counter goes down and who is next.
ReleaseShared(r) ==
    /\ status[r] = "granted"
    /\ queue # << >> /\ ~ IsExclusive(Head(queue))
    /\ queue' = Tail(queue)
    /\ num_sh' = num_sh - 1
    /\ status' = [StatusGranting(IF StartsExclusive(Tail(queue))
                                 THEN {Head(Tail(queue))} ELSE {})
                    EXCEPT ![r] = "idle"]
    /\ UNCHANGED num_ex

ReleaseExclusive(r) ==
    /\ status[r] = "granted"
    /\ queue # << >> /\ IsExclusive(Head(queue))
    /\ queue' = Tail(queue)
    /\ num_ex' = num_ex - 1
    /\ status' = [StatusGranting(IF StartsExclusive(Tail(queue))
                                 THEN {Head(Tail(queue))}
                                 ELSE LeadingShared(Tail(queue)))
                    EXCEPT ![r] = "idle"]
    /\ UNCHANGED num_sh

Acquire(r) == AcquireShared(r) \/ AcquireExclusive(r)
Release(r) == ReleaseShared(r) \/ ReleaseExclusive(r)

Next == \E r \in Requests : Acquire(r) \/ Release(r)

Spec == Init /\ [][Next]_vars

\* A client that was granted the lock releases it in the end.
FairSpec == Spec /\ \A r \in Requests : WF_vars(Release(r))

-----------------------------------------------------------------------------
Held == {r \in Requests : status[r] = "granted"}
Holders == Cardinality(Held)

ExclusiveEntries(q) == {i \in DOMAIN q : IsExclusive(q[i])}
SharedEntries(q)    == DOMAIN q \ ExclusiveEntries(q)

\* Readers/writer exclusion among the clients that were sent a grant.
MutualExclusion ==
    \A r, s \in Held : r # s => ~ IsExclusive(r) /\ ~ IsExclusive(s)

\* The counters that decide about an arriving request count the queue they
\* stand for, although a release dequeues an entry that need not be its own.
CountersExact ==
    /\ num_ex = Cardinality(ExclusiveEntries(queue))
    /\ num_sh = Cardinality(SharedEntries(queue))

\* A RELEASE never meets an empty queue: dequeue() would leave "mode" unset
\* and the code would branch on it.
ReleaseFindsEntry == Held # {} => queue # << >>

\* The queue is the holders' entries, then the waiting requests in order: as
\* many entries as there are holders lead it, all shared or just one; then
\* every waiting request has one entry.
HoldersLead ==
    /\ Holders <= Len(queue)
    /\ Holders = 1 \/ \A i \in 1 .. Holders : ~ IsExclusive(queue[i])
    /\ \A r \in Held : IF IsExclusive(r)
                       THEN Holders = 1 /\ queue[1] = r
                       ELSE ~ IsExclusive(queue[1])

WaitersFollow ==
    /\ \A i \in Holders + 1 .. Len(queue) : status[queue[i]] = "waiting"
    /\ \A i, j \in Holders + 1 .. Len(queue) : queue[i] = queue[j] => i = j
    /\ \A r \in Requests :
          status[r] = "waiting" => \E i \in Holders + 1 .. Len(queue) : queue[i] = r

\* Nobody waits who could be granted: what keeps the first waiting request
\* waiting is that it is exclusive, or that the holder is.
NobodyWaitsInVain ==
    Holders < Len(queue) =>
        /\ Holders > 0
        /\ IsExclusive(queue[1]) \/ IsExclusive(queue[Holders + 1])

QueueInv == CountersExact /\ HoldersLead /\ WaitersFollow /\ NobodyWaitsInVain

\* A request that waits is granted in the end.
EveryWaiterGranted ==
    \A r \in Requests : status[r] = "waiting" ~> status[r] = "granted"
=============================================================================
