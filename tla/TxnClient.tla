----------------------------- MODULE TxnClient -----------------------------
(***************************************************************************)
(* The transaction client (client.c, the TPC-C benchmarks): it takes all   *)
(* the locks of a transaction, releases them, and goes on to the next one. *)
(* Nobody orders the locks, so transactions deadlock; a client that waits  *)
(* too long gives back what it was granted, waits for the rest, and runs   *)
(* the transaction again.                                                  *)
(*                                                                         *)
(* Each client has one TX lcore that sends and one RX lcore that receives: *)
(* udp.srcPort is a function of the transaction in every grant, so RSS     *)
(* gives all grants of a transaction to one RX queue.  The two share       *)
(* txn_queues and txn_r and nothing orders them but the order of their     *)
(* accesses.  Between clients and locks packets of one client and one lock *)
(* stay in order; grants may arrive in any order.  The locks do what       *)
(* FifoLock promises.  Failures of the switch are left out: failure_act is *)
(* FAILURE_NORMAL throughout.                                              *)
(***************************************************************************)
EXTENDS Integers, Sequences, FiniteSets

CONSTANTS
    Clients,
    Locks,
    Trace,      \* of each client: a sequence of [txn, lock, exclusive], repeated
    MayReject   \* whether the switch may send ACQUIREs back (REJECT_LOCK_ACQUIRE)

TraceEntry == [txn : Nat \ {0}, lock : Locks, exclusive : BOOLEAN]

\* get_traces() keeps one entry for a lock and a transaction; the entries of a
\* transaction follow each other, and no transaction follows itself.
ASSUME TraceAssumption ==
    \A c \in Clients :
        /\ Trace[c] \in Seq(TraceEntry)
        /\ Trace[c] # << >> /\ Trace[c][1].txn # Trace[c][Len(Trace[c])].txn
        /\ \A i, j \in DOMAIN Trace[c] :
              i < j /\ Trace[c][i].txn = Trace[c][j].txn =>
                  /\ Trace[c][i].lock # Trace[c][j].lock
                  /\ \A k \in i .. j : Trace[c][k].txn = Trace[c][i].txn

VARIABLES
    \* TX lcore
    idx,          \* the trace entry it looks at next
    last_txn,     \* the transaction of the entry it sent last, 0 before that
    last_txn_idx, \* the first entry of that transaction
    txn_s,        \* how many nodes of the transaction's queue were released
    deadlocked,   \* the transaction has given locks back
    tx_mbufs,     \* packets put into the TX queue and not sent
    \* RX lcore
    received,     \* the grant that was queued and not yet counted, if any
    \* both
    txn_queues,   \* the grants received, per transaction
    txn_r,        \* how many of them were counted
    \* network and locks
    toLock,       \* packets from a client to a lock
    rejected,     \* ACQUIREs on their way back
    grants,       \* grants on their way to a client
    holders, waiting

txVars   == << idx, last_txn, last_txn_idx, txn_s, deadlocked, tx_mbufs >>
rxVars   == << received, txn_queues, txn_r >>
lockVars == << holders, waiting >>
vars     == << txVars, rxVars, toLock, rejected, grants, lockVars >>

Txns(c) == {0} \cup {Trace[c][i].txn : i \in DOMAIN Trace[c]}

LocksEachTxn(c, t) == Cardinality({i \in DOMAIN Trace[c] : Trace[c][i].txn = t})

Node(c)    == [txn : Txns(c), lock : Locks, exclusive : BOOLEAN]
Request    == [client : Clients, txn : Nat, exclusive : BOOLEAN]
Message(c) == [op : {"acquire", "release"}, entry : Node(c)]

PerTxn(v) == [c \in Clients |-> [t \in Txns(c) |-> v]]

Init ==
    /\ idx = [c \in Clients |-> 1]
    /\ last_txn = [c \in Clients |-> 0]
    /\ last_txn_idx = [c \in Clients |-> 1]
    /\ txn_s = PerTxn(0)
    /\ deadlocked = PerTxn(FALSE)
    /\ tx_mbufs = [c \in Clients |-> << >>]
    /\ received = [c \in Clients |-> << >>]
    /\ txn_queues = PerTxn(<< >>)
    /\ txn_r = PerTxn(0)
    /\ toLock = [c \in Clients |-> [l \in Locks |-> << >>]]
    /\ rejected = [c \in Clients |-> {}]
    /\ grants = [c \in Clients |-> {}]
    /\ holders = [l \in Locks |-> {}]
    /\ waiting = [l \in Locks |-> << >>]

-----------------------------------------------------------------------------
(* TX lcore: an action is one iteration of np_client_tx_write_loop for a   *)
(* client; iterations that change nothing are left out.                    *)

Wrapped(c) == IF idx[c] > Len(Trace[c]) THEN 1 ELSE idx[c]
Entry(c)   == Trace[c][Wrapped(c)]

\* All the transaction's ACQUIREs have been handed over; its grants have been
\* counted, or not yet.
AllSent(c)  == Entry(c).txn # last_txn[c]
Complete(c) == /\ AllSent(c)
               /\ txn_r[c][last_txn[c]] = LocksEachTxn(c, last_txn[c])
Waiting(c)  == /\ AllSent(c)
               /\ txn_r[c][last_txn[c]] < LocksEachTxn(c, last_txn[c])

\* Those of the packets that go to a lock, in their order (a SelectSeq by
\* position, which the proofs can expand).
SentTo(packets, l) ==
    LET P == {i \in DOMAIN packets : packets[i].entry.lock = l}
        Nth(n) == CHOOSE i \in P : Cardinality({j \in P : j <= i}) = n
    IN  [n \in 1 .. Cardinality(P) |-> packets[Nth(n)]]

\* send_pkt_burst: toLock[c] when these packets are on their way.
Burst(c, packets) == [l \in Locks |-> toLock[c][l] \o SentTo(packets, l)]

\* acquire_enqueue_pkt, the burst "before" having been sent: the ACQUIREs of
\* a transaction leave together.
EnqueueAcquire(c, before, mbufs) ==
    LET queue == Append(mbufs, [op |-> "acquire", entry |-> Entry(c)])
        full  == Len(queue) = LocksEachTxn(c, Entry(c).txn)
    IN  /\ toLock' = [toLock EXCEPT ![c] =
                          Burst(c, before \o IF full THEN queue ELSE << >>)]
        /\ tx_mbufs' = [tx_mbufs EXCEPT ![c] = IF full THEN << >> ELSE queue]

\* Slip: releases start over from the first node.
ToReleaseAgain(c) ==
    LET t == last_txn[c]
        nodes == SubSeq(txn_queues[c][t], 1, txn_r[c][t])
    IN  [i \in DOMAIN nodes |-> [op |-> "release", entry |-> nodes[i]]]

\* RELEASEs of the nodes that were counted and not released, oldest first.
ToRelease(c) ==
    LET t == last_txn[c]
        nodes == SubSeq(txn_queues[c][t], txn_s[c][t] + 1, txn_r[c][t])
    IN  [i \in DOMAIN nodes |-> [op |-> "release", entry |-> nodes[i]]]

\* One more ACQUIRE of the transaction.
TxAcquire(c) ==
    /\ ~ AllSent(c)
    /\ EnqueueAcquire(c, << >>, tx_mbufs[c])
    /\ txn_s' = [txn_s EXCEPT ![c][last_txn[c]] = 0]
    /\ idx' = [idx EXCEPT ![c] = Wrapped(c) + 1]
    /\ UNCHANGED << last_txn, last_txn_idx, deadlocked, rxVars,
                    rejected, grants, lockVars >>

\* Every lock was granted and none given back: the transaction's work is done
\* (usleep of think_time), the locks are released, and the first ACQUIRE of
\* the next transaction follows.
TxCommit(c) ==
    LET t == last_txn[c]
    IN  /\ Complete(c)
        /\ ~ deadlocked[c][t]
        /\ EnqueueAcquire(c, tx_mbufs[c] \o ToRelease(c), << >>)
        /\ txn_r' = [txn_r EXCEPT ![c][t] = 0]
        /\ txn_queues' = [txn_queues EXCEPT ![c][t] = << >>]
        /\ txn_s' = [txn_s EXCEPT ![c][t] = 0, ![c][Entry(c).txn] = 0]
        /\ deadlocked' = [deadlocked EXCEPT ![c][Entry(c).txn] = FALSE]
        /\ last_txn' = [last_txn EXCEPT ![c] = Entry(c).txn]
        /\ last_txn_idx' = [last_txn_idx EXCEPT ![c] = Wrapped(c)]
        /\ idx' = [idx EXCEPT ![c] = Wrapped(c) + 1]
        /\ UNCHANGED << received, rejected, grants, lockVars >>

\* Every lock was granted, but some had been given back before: the others
\* are released and the transaction starts again.
TxRetry(c) ==
    LET t == last_txn[c]
    IN  /\ Complete(c)
        /\ deadlocked[c][t]
        /\ toLock' = [toLock EXCEPT ![c] = Burst(c, tx_mbufs[c] \o ToRelease(c))]
        /\ tx_mbufs' = [tx_mbufs EXCEPT ![c] = << >>]
        /\ txn_r' = [txn_r EXCEPT ![c][t] = 0]
        /\ txn_queues' = [txn_queues EXCEPT ![c][t] = << >>]
        /\ txn_s' = [txn_s EXCEPT ![c][t] = 0]
        /\ deadlocked' = [deadlocked EXCEPT ![c][t] = FALSE]
        /\ idx' = [idx EXCEPT ![c] = last_txn_idx[c]]
        /\ UNCHANGED << last_txn, last_txn_idx, received, rejected, grants, lockVars >>

\* Slips: the expiry is not remembered; nothing is given back.
TxExpireForgotten(c) ==
    LET t == last_txn[c]
    IN  /\ Waiting(c)
        /\ toLock' = [toLock EXCEPT ![c] = Burst(c, tx_mbufs[c] \o ToRelease(c))]
        /\ tx_mbufs' = [tx_mbufs EXCEPT ![c] = << >>]
        /\ txn_s' = [txn_s EXCEPT ![c][t] = txn_r[c][t]]
        /\ UNCHANGED << idx, last_txn, last_txn_idx, deadlocked, rxVars, rejected,
                        grants, lockVars >>
TxExpireKeeping(c) ==
    /\ Waiting(c)
    /\ deadlocked' = [deadlocked EXCEPT ![c][last_txn[c]] = TRUE]
    /\ UNCHANGED << idx, last_txn, last_txn_idx, txn_s, tx_mbufs, toLock, rxVars,
                    rejected, grants, lockVars >>

\* The transaction has waited for expire_time: it gives back what it has.
\* (More grants than locks, the third case of the code, do not happen: see
\* TraversalSafe.)
TxExpire(c) ==
    LET t == last_txn[c]
    IN  /\ Waiting(c)
        /\ deadlocked' = [deadlocked EXCEPT ![c][t] = TRUE]
        /\ toLock' = [toLock EXCEPT ![c] = Burst(c, tx_mbufs[c] \o ToRelease(c))]
        /\ tx_mbufs' = [tx_mbufs EXCEPT ![c] = << >>]
        /\ txn_s' = [txn_s EXCEPT ![c][t] = txn_r[c][t]]
        /\ UNCHANGED << idx, last_txn, last_txn_idx, rxVars, rejected, grants, lockVars >>

-----------------------------------------------------------------------------
(* RX lcore: a grant is queued, then counted; a rejected ACQUIRE is sent   *)
(* again.                                                                  *)

\* Slip: the grant is counted before it is queued.
RxEnqueueLate(c) ==
    \E g \in grants[c] :
        /\ received[c] = << >>
        /\ txn_r' = [txn_r EXCEPT ![c][g.txn] = @ + 1]
        /\ received' = [received EXCEPT ![c] = << g >>]
        /\ grants' = [grants EXCEPT ![c] = @ \ {g}]
        /\ UNCHANGED << txVars, txn_queues, toLock, rejected, lockVars >>

RxEnqueue(c) ==
    \E g \in grants[c] :
        /\ received[c] = << >>
        /\ txn_queues' = [txn_queues EXCEPT ![c][g.txn] = Append(@, g)]
        /\ received' = [received EXCEPT ![c] = << g >>]
        /\ grants' = [grants EXCEPT ![c] = @ \ {g}]
        /\ UNCHANGED << txVars, txn_r, toLock, rejected, lockVars >>

RxCount(c) ==
    /\ received[c] # << >>
    /\ txn_r' = [txn_r EXCEPT ![c][Head(received[c]).txn] = @ + 1]
    /\ received' = [received EXCEPT ![c] = << >>]
    /\ UNCHANGED << txVars, txn_queues, toLock, rejected, grants, lockVars >>

RxResend(c) ==
    \E e \in rejected[c] :
        /\ toLock' = [toLock EXCEPT ![c] = Burst(c, << [op |-> "acquire", entry |-> e] >>)]
        /\ rejected' = [rejected EXCEPT ![c] = @ \ {e}]
        /\ UNCHANGED << txVars, rxVars, grants, lockVars >>

-----------------------------------------------------------------------------
(* Locks.                                                                  *)

RequestOf(c, e) == [client |-> c, txn |-> e.txn, exclusive |-> e.exclusive]

Arrives(op, c, l) == toLock[c][l] # << >> /\ Head(toLock[c][l]).op = op

Taken(c, l) == toLock' = [toLock EXCEPT ![c][l] = Tail(@)]

LockAcquire(c, l) ==
    /\ Arrives("acquire", c, l)
    /\ waiting' = [waiting EXCEPT ![l] =
                       Append(@, RequestOf(c, Head(toLock[c][l]).entry))]
    /\ Taken(c, l)
    /\ UNCHANGED << txVars, rxVars, rejected, grants, holders >>

LockReject(c, l) ==
    /\ MayReject
    /\ Arrives("acquire", c, l)
    /\ rejected' = [rejected EXCEPT ![c] = @ \cup {Head(toLock[c][l]).entry}]
    /\ Taken(c, l)
    /\ UNCHANGED << txVars, rxVars, grants, lockVars >>

LockRelease(c, l) ==
    /\ Arrives("release", c, l)
    /\ holders' = [holders EXCEPT ![l] =
                       @ \ {RequestOf(c, Head(toLock[c][l]).entry)}]
    /\ Taken(c, l)
    /\ UNCHANGED << txVars, rxVars, rejected, grants, waiting >>

\* The oldest waiting request is granted as soon as it conflicts with nobody.
LockGrant(l) ==
    /\ waiting[l] # << >>
    /\ LET r == Head(waiting[l])
       IN  /\ \A h \in holders[l] : ~ h.exclusive /\ ~ r.exclusive
           /\ holders' = [holders EXCEPT ![l] = @ \cup {r}]
           /\ grants' = [grants EXCEPT ![r.client] =
                  @ \cup {[txn |-> r.txn, lock |-> l, exclusive |-> r.exclusive]}]
    /\ waiting' = [waiting EXCEPT ![l] = Tail(@)]
    /\ UNCHANGED << txVars, rxVars, toLock, rejected >>

-----------------------------------------------------------------------------
Tx(c) == TxAcquire(c) \/ TxCommit(c) \/ TxRetry(c) \/ TxExpire(c)
Rx(c) == RxEnqueue(c) \/ RxCount(c) \/ RxResend(c)

Next ==
    \/ \E c \in Clients : Tx(c) \/ Rx(c)
    \/ \E c \in Clients, l \in Locks :
           LockAcquire(c, l) \/ LockReject(c, l) \/ LockRelease(c, l)
    \/ \E l \in Locks : LockGrant(l)

Spec == Init /\ [][Next]_vars

\* The lcores poll for ever, time passes, packets arrive and locks are granted;
\* an ACQUIRE is not rejected for ever, as the tenants' counters are reset.
Fairness ==
    /\ \A c \in Clients :
          /\ WF_vars(Tx(c)) /\ WF_vars(RxEnqueue(c)) /\ WF_vars(RxCount(c))
          /\ WF_vars(RxResend(c))
          /\ \A l \in Locks : SF_vars(LockAcquire(c, l)) /\ WF_vars(LockRelease(c, l))
    /\ \A l \in Locks : WF_vars(LockGrant(l))

FairSpec == Spec /\ Fairness

-----------------------------------------------------------------------------
Holds(c, e) == RequestOf(c, e) \in holders[e.lock]

Entries(c, t) == {Trace[c][i] : i \in {j \in DOMAIN Trace[c] : Trace[c][j].txn = t}}

\* A transaction does its work holding all its locks: when the TX lcore finds
\* every grant counted and no expiry remembered, none of the locks has been
\* given back, or is about to be by a RELEASE still on its way (two-phase
\* locking, client.c:481-496 and 583-603).
CommitHoldsAll ==
    \A c \in Clients :
        Complete(c) /\ ~ deadlocked[c][last_txn[c]] =>
            \A e \in Entries(c, last_txn[c]) :
                Holds(c, e) /\ ~ Arrives("release", c, e.lock)

\* What the client still has to do about a lock it was granted: receive the
\* grant, release the node, or wait for its RELEASE to arrive.
UnreleasedNodes(c, e) ==
    {i \in DOMAIN txn_queues[c][e.txn] :
        i > txn_s[c][e.txn] /\ txn_queues[c][e.txn][i] = e}
ReleasesSent(c, e) ==
    {i \in DOMAIN toLock[c][e.lock] :
        toLock[c][e.lock][i] = [op |-> "release", entry |-> e]}
Owed(c, e) ==
    Cardinality(grants[c] \cap {e}) + Cardinality(UnreleasedNodes(c, e))
        + Cardinality(ReleasesSent(c, e))

\* No lock is leaked and none released twice, however grants, expiries and
\* retries interleave: a client holds a lock exactly as long as it has that
\* one thing to do about it (txn_s against the nodes released, 541-577).
LocksAccounted ==
    \A c \in Clients : \A t \in Txns(c) : \A e \in Entries(c, t) :
        Owed(c, e) = IF Holds(c, e) THEN 1 ELSE 0

\* The TX lcore walks a list the RX lcore appends to: it never runs off its
\* end ("ptr NULL step1.1!" ... "step2.2!") and never counts more grants than
\* it asked for ("SOMETHING MUST BE WRONG!").
TraversalSafe ==
    \A c \in Clients : \A t \in Txns(c) :
        /\ txn_s[c][t] <= txn_r[c][t]
        /\ txn_r[c][t] <= Len(txn_queues[c][t])
        /\ txn_r[c][t] <= LocksEachTxn(c, t)

\* Deadlocks are resolved: a transaction that waits for locks has been granted
\* all of them in the end, at once or one after the other.
EveryAttemptEnds == \A c \in Clients : Waiting(c) ~> Complete(c)
=============================================================================
