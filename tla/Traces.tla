------------------------------- MODULE Traces -------------------------------
(***************************************************************************)
(* How a client reads its trace (get_traces of new_order.h): row by row,   *)
(* dropping releases and second accesses of a transaction to an object,    *)
(* and counting the locks of each transaction.  TxnClient waits for as     *)
(* many grants as are counted here.                                        *)
(*                                                                         *)
(* The rows are any rows: "rows" remembers them.                           *)
(***************************************************************************)
EXTENDS Integers, Sequences, FiniteSets

CONSTANTS
    TxnIds, Objects,
    Lock(_),       \* batch_map: the lock an object belongs to
    UpgradeModes,  \* task_id = 'g', locks are batched: the stronger mode is kept
    MaxRows        \* a bound on the length of the trace

VARIABLES
    rows,            \* the rows read, [txn, action, object, type]
    entries,         \* the arrays txn_id, target_obj_idx, lock_type
    locks_each_txn

traceVars == << rows, entries, locks_each_txn >>

SharedTypes    == {1, 7, 8}
ExclusiveTypes == {2, 9}

Row == [txn : TxnIds, action : {"acquire", "release"}, object : Objects,
        type : SharedTypes \cup ExclusiveTypes]

TracesInit ==
    /\ rows = << >>
    /\ entries = << >>
    /\ locks_each_txn = [t \in TxnIds |-> 0]

\* Slip: only the last entry is looked at.
SameLockLast(r) ==
    {i \in DOMAIN entries : i = Len(entries) /\ entries[i].txn = r.txn
                                /\ entries[i].lock = Lock(r.object)}

\* The entries for the same lock in the run of entries of the same transaction
\* at the end of the arrays.
SameLock(r) ==
    {i \in DOMAIN entries :
        /\ entries[i].lock = Lock(r.object)
        /\ \A j \in i .. Len(entries) : entries[j].txn = r.txn}

IsExclusive(r) == r.type \in ExclusiveTypes

\* Slip: the mode of the first access is kept.
UpgradedNever(r) == entries

\* A further access to a lock the transaction has; with batches it may need
\* the lock in a stronger mode.
Upgraded(r) ==
    [i \in DOMAIN entries |->
        IF i \in SameLock(r) /\ UpgradeModes /\ IsExclusive(r)
        THEN [entries[i] EXCEPT !.exclusive = TRUE]
        ELSE entries[i]]

SkipRelease(r) ==
    /\ r.action = "release"
    /\ UNCHANGED << entries, locks_each_txn >>

\* Slip: a row is counted although its lock is taken already.
SkipKnownCounted(r) ==
    /\ r.action = "acquire"
    /\ SameLock(r) # {}
    /\ entries' = Upgraded(r)
    /\ locks_each_txn' = [locks_each_txn EXCEPT ![r.txn] = @ + 1]

SkipKnown(r) ==
    /\ r.action = "acquire"
    /\ SameLock(r) # {}
    /\ entries' = Upgraded(r)
    /\ UNCHANGED locks_each_txn

Keep(r) ==
    /\ r.action = "acquire"
    /\ SameLock(r) = {}
    /\ entries' = Append(entries, [txn |-> r.txn, lock |-> Lock(r.object),
                                   exclusive |-> IsExclusive(r)])
    /\ locks_each_txn' = [locks_each_txn EXCEPT ![r.txn] = @ + 1]

ReadRow(r) == SkipRelease(r) \/ SkipKnown(r) \/ Keep(r)

\* The rows of a transaction follow each other in the file.
Contiguous(s) ==
    \A i, j \in DOMAIN s : i < j /\ s[i].txn = s[j].txn =>
        \A k \in i .. j : s[k].txn = s[i].txn

TracesNext ==
    \E r \in Row :
        /\ Len(rows) < MaxRows
        /\ Contiguous(Append(rows, r))
        /\ rows' = Append(rows, r)
        /\ ReadRow(r)

TracesSpec == TracesInit /\ [][TracesNext]_traceVars

-----------------------------------------------------------------------------
EntriesOf(t) == {i \in DOMAIN entries : entries[i].txn = t}

\* What TxnClient assumes of a trace: the entries of a transaction follow each
\* other, name each lock once, and are as many as the client waits for.
TraceForClient ==
    /\ Contiguous(entries)
    /\ \A i, j \in DOMAIN entries :
          i # j /\ entries[i].txn = entries[j].txn => entries[i].lock # entries[j].lock
    /\ \A t \in TxnIds : locks_each_txn[t] = Cardinality(EntriesOf(t))

\* Every access of a transaction is covered by a lock it takes, and by an
\* exclusive one if the access is exclusive; without batches only the first
\* access to an object decides about the mode.
AccessesCovered ==
    \A k \in DOMAIN rows : rows[k].action = "acquire" =>
        \E i \in EntriesOf(rows[k].txn) :
            /\ entries[i].lock = Lock(rows[k].object)
            /\ UpgradeModes /\ IsExclusive(rows[k]) => entries[i].exclusive
=============================================================================
