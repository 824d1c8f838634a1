---------------------------- MODULE MicroClient ----------------------------
(***************************************************************************)
(* The micro-benchmark client (client.c, exclusive locks, SYNCHRONOUS      *)
(* mode): a client requests the locks of its trace one after the other,    *)
(* skips a lock it is busy with, and releases a lock when it is granted or *)
(* when the think queue is drained.                                        *)
(*                                                                         *)
(* TX and RX lcore share only busy[][]; each has its own NIC queue, so a   *)
(* RELEASE and the next ACQUIRE of the same lock may overtake each other.  *)
(***************************************************************************)
EXTENDS Integers, Sequences, FiniteSets

CONSTANTS
    Clients, Locks,
    Trace,     \* of each client: a sequence of locks, repeated
    Batch,     \* locks_each_txn[cid][0]: last_txn stays 0 in these benchmarks
    Thinking   \* the clients started with think_time > 0

LocksOf(c) == {Trace[c][i] : i \in DOMAIN Trace[c]}

\* A batch is no longer than a trace has locks: it would never fill up, as a
\* lock whose ACQUIRE is in the batch is busy.
ASSUME TraceAssumption ==
    /\ Thinking \subseteq Clients
    /\ \A c \in Clients : Trace[c] \in Seq(Locks) /\ Batch[c] \in 1 .. Cardinality(LocksOf(c))

VARIABLES
    idx,         \* TX lcore: the trace entry it looks at next
    tx_mbufs,    \* TX lcore: ACQUIREs not yet sent
    busy,        \* the locks whose busy flag is set
    thinkqueue,  \* RX lcore: locks granted and not released
    rx_mbufs,    \* RX lcore: RELEASEs not yet sent
    acquires, releases,  \* of each client and lock, how many are on their way
    grants,              \* of each client, those on their way
    holder, waiting      \* the locks, granted in order of arrival

rxVars   == << thinkqueue, rx_mbufs >>
netVars  == << acquires, releases, grants >>
lockVars == << holder, waiting >>
vars     == << idx, tx_mbufs, busy, rxVars, netVars, lockVars >>

Init ==
    /\ idx = [c \in Clients |-> 1]
    /\ busy = [c \in Clients |-> {}]
    /\ tx_mbufs = [c \in Clients |-> << >>]
    /\ thinkqueue = [c \in Clients |-> << >>]
    /\ rx_mbufs = [c \in Clients |-> << >>]
    /\ acquires = [c \in Clients |-> [l \in Locks |-> 0]]
    /\ releases = [c \in Clients |-> [l \in Locks |-> 0]]
    /\ grants = [c \in Clients |-> {}]
    /\ holder = [l \in Locks |-> {}]
    /\ waiting = [l \in Locks |-> << >>]

-----------------------------------------------------------------------------
Wrapped(c) == IF idx[c] > Len(Trace[c]) THEN 1 ELSE idx[c]
Entry(c)   == Trace[c][Wrapped(c)]
Moves(c)   == idx' = [idx EXCEPT ![c] = Wrapped(c) + 1]

TxSkip(c) ==
    /\ Entry(c) \in busy[c]
    /\ Moves(c)
    /\ UNCHANGED << tx_mbufs, busy, rxVars, netVars, lockVars >>

Occurrences(seq, x) == Cardinality({i \in DOMAIN seq : seq[i] = x})

\* A burst of packets joins those on their way.
Sent(flight, c, batch) ==
    [flight EXCEPT ![c] = [l \in Locks |-> @[l] + Occurrences(batch, l)]]

\* Slip: the lock is not marked busy.
TxAcquireIdle(c) ==
    LET queue == Append(tx_mbufs[c], Entry(c))
        full  == Len(queue) = Batch[c]
    IN  /\ Entry(c) \notin busy[c]
        /\ acquires' = Sent(acquires, c, IF full THEN queue ELSE << >>)
        /\ tx_mbufs' = [tx_mbufs EXCEPT ![c] = IF full THEN << >> ELSE queue]
        /\ acquires[c][Entry(c)] < 2
        /\ Moves(c)
        /\ UNCHANGED << busy, rxVars, releases, grants, lockVars >>

\* acquire_enqueue_pkt sends a full batch.
TxAcquire(c) ==
    LET queue == Append(tx_mbufs[c], Entry(c))
        full  == Len(queue) = Batch[c]
    IN  /\ Entry(c) \notin busy[c]
        /\ busy' = [busy EXCEPT ![c] = @ \cup {Entry(c)}]
        /\ acquires' = Sent(acquires, c, IF full THEN queue ELSE << >>)
        /\ tx_mbufs' = [tx_mbufs EXCEPT ![c] = IF full THEN << >> ELSE queue]
        /\ Moves(c)
        /\ UNCHANGED << rxVars, releases, grants, lockVars >>

\* Slip: the lock stays busy.
RxReleaseBusy(c, l) ==
    /\ c \notin Thinking
    /\ l \in grants[c]
    /\ rx_mbufs' = [rx_mbufs EXCEPT ![c] = Append(@, l)]
    /\ grants' = [grants EXCEPT ![c] = @ \ {l}]
    /\ UNCHANGED << idx, tx_mbufs, busy, thinkqueue, acquires, releases, lockVars >>

\* A grant is answered by a RELEASE at once ...
RxRelease(c, l) ==
    /\ c \notin Thinking
    /\ l \in grants[c]
    /\ rx_mbufs' = [rx_mbufs EXCEPT ![c] = Append(@, l)]
    /\ busy' = [busy EXCEPT ![c] = @ \ {l}]
    /\ grants' = [grants EXCEPT ![c] = @ \ {l}]
    /\ UNCHANGED << idx, tx_mbufs, thinkqueue, acquires, releases, lockVars >>

\* ... or when think_time has passed since the think queue was drained last,
\* together with all the others.
RxThink(c, l) ==
    /\ c \in Thinking
    /\ l \in grants[c]
    /\ thinkqueue' = [thinkqueue EXCEPT ![c] = Append(@, l)]
    /\ grants' = [grants EXCEPT ![c] = @ \ {l}]
    /\ UNCHANGED << idx, tx_mbufs, busy, rx_mbufs, acquires, releases, lockVars >>

\* Slip: the loop over the think queue stops after one node.
RxDrainOne(c) ==
    /\ thinkqueue[c] # << >>
    /\ rx_mbufs' = [rx_mbufs EXCEPT ![c] = @ \o << Head(thinkqueue[c]) >>]
    /\ busy' = [busy EXCEPT ![c] = @ \ {Head(thinkqueue[c])}]
    /\ thinkqueue' = [thinkqueue EXCEPT ![c] = << >>]
    /\ UNCHANGED << idx, tx_mbufs, netVars, lockVars >>

RxDrainThinkQueue(c) ==
    /\ thinkqueue[c] # << >>
    /\ rx_mbufs' = [rx_mbufs EXCEPT ![c] = @ \o thinkqueue[c]]
    /\ busy' = [busy EXCEPT ![c] = @ \ {thinkqueue[c][i] : i \in DOMAIN thinkqueue[c]}]
    /\ thinkqueue' = [thinkqueue EXCEPT ![c] = << >>]
    /\ UNCHANGED << idx, tx_mbufs, netVars, lockVars >>

\* The RX lcore's packets leave every drain_tsc, or when the buffer is full.
RxBurst(c) ==
    /\ rx_mbufs[c] # << >>
    /\ releases' = Sent(releases, c, rx_mbufs[c])
    /\ rx_mbufs' = [rx_mbufs EXCEPT ![c] = << >>]
    /\ UNCHANGED << idx, tx_mbufs, busy, thinkqueue, acquires, grants, lockVars >>

-----------------------------------------------------------------------------
LockAcquire(c, l) ==
    /\ acquires[c][l] > 0
    /\ waiting' = [waiting EXCEPT ![l] = Append(@, c)]
    /\ acquires' = [acquires EXCEPT ![c][l] = @ - 1]
    /\ UNCHANGED << idx, tx_mbufs, busy, rxVars, releases, grants, holder >>

LockRelease(c, l) ==
    /\ releases[c][l] > 0
    /\ holder' = [holder EXCEPT ![l] = @ \ {c}]
    /\ releases' = [releases EXCEPT ![c][l] = @ - 1]
    /\ UNCHANGED << idx, tx_mbufs, busy, rxVars, acquires, grants, waiting >>

LockGrant(l) ==
    /\ waiting[l] # << >> /\ holder[l] = {}
    /\ LET c == Head(waiting[l])
       IN  /\ holder' = [holder EXCEPT ![l] = {c}]
           /\ grants' = [grants EXCEPT ![c] = @ \cup {l}]
    /\ waiting' = [waiting EXCEPT ![l] = Tail(@)]
    /\ UNCHANGED << idx, tx_mbufs, busy, rxVars, acquires, releases >>

-----------------------------------------------------------------------------
Tx(c) == TxSkip(c) \/ TxAcquire(c)

Next ==
    \/ \E c \in Clients : Tx(c) \/ RxDrainThinkQueue(c) \/ RxBurst(c)
    \/ \E c \in Clients, l \in Locks :
           RxRelease(c, l) \/ RxThink(c, l) \/ LockAcquire(c, l) \/ LockRelease(c, l)
    \/ \E l \in Locks : LockGrant(l)

Spec == Init /\ [][Next]_vars

\* The lcores poll, timers expire, packets arrive, locks are granted.
Fairness ==
    /\ \A c \in Clients :
          /\ WF_vars(Tx(c)) /\ WF_vars(RxDrainThinkQueue(c)) /\ WF_vars(RxBurst(c))
          /\ \A l \in Locks :
                /\ WF_vars(RxRelease(c, l)) /\ WF_vars(RxThink(c, l))
                /\ WF_vars(LockAcquire(c, l)) /\ WF_vars(LockRelease(c, l))
    /\ \A l \in Locks : WF_vars(LockGrant(l))

FairSpec == Spec /\ Fairness

-----------------------------------------------------------------------------
\* A client has one request of a lock under way, from the ACQUIRE put into the
\* batch to the RELEASE put into the buffer, if it is busy with the lock, and
\* none otherwise: the flag the two lcores write without a lock is exact, and
\* no grant meets a client that does not wait for it.
BusyExact ==
    \A c \in Clients, l \in Locks :
        Occurrences(tx_mbufs[c], l) + acquires[c][l]
            + Occurrences(waiting[l], c) + Cardinality(grants[c] \cap {l})
            + Occurrences(thinkqueue[c], l) = IF l \in busy[c] THEN 1 ELSE 0

\* Although ACQUIREs and RELEASEs overtake each other, a lock is only held
\* while its holder is busy with it or its RELEASE is on the way.
HeldForAReason ==
    \A l \in Locks : \A c \in holder[l] :
        l \in grants[c] \/ Occurrences(thinkqueue[c], l) > 0
            \/ Occurrences(rx_mbufs[c], l) + releases[c][l] = 1

\* Every ACQUIRE is sent, granted and released in the end, batches included.
EveryRequestEnds ==
    \A c \in Clients, l \in Locks : l \in busy[c] ~> l \notin busy[c]
=============================================================================
