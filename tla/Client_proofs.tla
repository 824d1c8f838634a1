--------------------------- MODULE Client_proofs ---------------------------
(***************************************************************************)
(* Proofs about the client of the TPC-C benchmarks, for any clients, locks *)
(* and traces: what it makes of a trace (Traces), and how it runs the      *)
(* transactions of one (TxnClient).                                        *)
(*                                                                         *)
(* A trace: entries come from rows, in the order of the rows, and the rows *)
(* of a transaction follow each other, so its entries are a run at the end *)
(* of the arrays while it is read.  There every lock it has is found.      *)
(*                                                                         *)
(* The transactions: for each lock a client has one request at most, at    *)
(* one place between the TX queue and the list of grants, and behind an    *)
(* ACQUIRE nothing was sent.  So no answer comes from an earlier attempt,  *)
(* and nodes are of different locks: as many as the transaction has are    *)
(* all of them.  What a client holds is owed: its RELEASE is on its way,   *)
(* its grant is, or it is a node not yet released.                         *)
(*                                                                         *)
(* From the same invariant: transactions at work are isolated, and what    *)
(* the clients do to a lock is what FifoLock allows.                       *)
(***************************************************************************)
EXTENDS TxnClient, Traces, Counting

-----------------------------------------------------------------------------
(* Reading a trace.                                                        *)

LocksTaken == {Lock(o) : o \in Objects}

AnEntry == [txn : TxnIds, lock : LocksTaken, exclusive : BOOLEAN]

ArraysOK ==
    /\ rows \in Seq(Row)
    /\ entries \in Seq(AnEntry)
    /\ locks_each_txn \in [TxnIds -> Nat]

\* Entries come from rows, in the order of the rows.
FromRows ==
    \A i \in DOMAIN entries : \E a \in DOMAIN rows : rows[a].txn = entries[i].txn

InOrder ==
    \A i, j \in DOMAIN entries :
        i < j /\ entries[i].txn # entries[j].txn =>
            \E a, b \in DOMAIN rows :
                a < b /\ rows[a].txn = entries[i].txn /\ rows[b].txn = entries[j].txn

OncePerTxn ==
    \A i, j \in DOMAIN entries :
        i # j /\ entries[i].txn = entries[j].txn => entries[i].lock # entries[j].lock

Counted == \A t \in TxnIds : locks_each_txn[t] = Cardinality(EntriesOf(t))

TracesInv ==
    /\ ArraysOK
    /\ FromRows /\ InOrder
    /\ Contiguous(entries) /\ OncePerTxn /\ Counted
    /\ AccessesCovered

-----------------------------------------------------------------------------
\* Nothing read yet.
LEMMA NoneRead == TracesInit => TracesInv
<1> SUFFICES ASSUME TracesInit  PROVE TracesInv
  OBVIOUS
<1>1. ArraysOK
  BY DEF TracesInit, ArraysOK
<1>2. DOMAIN rows = {} /\ DOMAIN entries = {} /\ Len(entries) = 0
  BY DEF TracesInit
<1>3. FromRows /\ InOrder /\ Contiguous(entries) /\ OncePerTxn /\ AccessesCovered
  BY <1>2 DEF FromRows, InOrder, Contiguous, OncePerTxn, AccessesCovered
<1>4. Counted
  <2> SUFFICES ASSUME NEW t \in TxnIds  PROVE locks_each_txn[t] = Cardinality(EntriesOf(t))
    BY DEF Counted
  <2>1. EntriesOf(t) = {}
    BY <1>2 DEF EntriesOf
  <2> QED  BY <2>1, FS_EmptySet DEF TracesInit
<1> QED  BY <1>1, <1>3, <1>4 DEF TracesInv

\* One more row.
LEMMA RowAppended ==
  ASSUME ArraysOK, NEW r \in Row, rows' = Append(rows, r)
  PROVE  /\ rows' \in Seq(Row) /\ Len(rows') = Len(rows) + 1 /\ Len(rows) \in Nat
         /\ DOMAIN rows = 1 .. Len(rows) /\ DOMAIN rows' = 1 .. Len(rows) + 1
         /\ \A a \in DOMAIN rows : rows'[a] = rows[a]
         /\ rows'[Len(rows) + 1] = r
<1>1. rows \in Seq(Row)
  BY DEF ArraysOK
<1> QED  BY <1>1, AppendProperties, LenProperties

\* While the entries keep their transaction and lock and gain no member, only
\* modes matter.
LEMMA SameEntries ==
  ASSUME TracesInv, NEW r \in Row, rows' = Append(rows, r),
         entries' \in Seq(AnEntry), DOMAIN entries' = DOMAIN entries,
         \A i \in DOMAIN entries : /\ entries'[i].txn = entries[i].txn
                                   /\ entries'[i].lock = entries[i].lock,
         locks_each_txn' = locks_each_txn
  PROVE  /\ ArraysOK' /\ FromRows' /\ InOrder'
         /\ Contiguous(entries)' /\ OncePerTxn' /\ Counted'
<1>1. /\ ArraysOK /\ FromRows /\ InOrder /\ Contiguous(entries) /\ OncePerTxn /\ Counted
  BY DEF TracesInv
<1>2. /\ rows' \in Seq(Row) /\ DOMAIN rows \subseteq DOMAIN rows'
      /\ \A a \in DOMAIN rows : rows'[a] = rows[a]
  BY <1>1, RowAppended
<1>3. ArraysOK'
  BY <1>1, <1>2 DEF ArraysOK
<1>4. FromRows'
  BY <1>1, <1>2 DEF FromRows
<1>5. InOrder'
  <2> SUFFICES ASSUME NEW i \in DOMAIN entries, NEW j \in DOMAIN entries, i < j,
                      entries[i].txn # entries[j].txn
               PROVE  \E a, b \in DOMAIN rows' :
                         a < b /\ rows'[a].txn = entries'[i].txn
                               /\ rows'[b].txn = entries'[j].txn
    BY DEF InOrder
  <2>1. PICK a, b \in DOMAIN rows :
             a < b /\ rows[a].txn = entries[i].txn /\ rows[b].txn = entries[j].txn
    BY <1>1 DEF InOrder
  <2> QED  BY <2>1, <1>2
<1>6. Contiguous(entries)'
  <2>1. entries \in Seq(AnEntry)
    BY <1>1 DEF ArraysOK
  <2>2. \A i, j \in DOMAIN entries : i .. j \subseteq DOMAIN entries
    BY <2>1, LenProperties
  <2> QED  BY <1>1, <2>2 DEF Contiguous
<1>7. OncePerTxn'
  BY <1>1 DEF OncePerTxn
<1>8. Counted'
  <2> SUFFICES ASSUME NEW t \in TxnIds
               PROVE  locks_each_txn'[t] = Cardinality(EntriesOf(t)')
    BY DEF Counted
  <2>1. EntriesOf(t)' = EntriesOf(t)
    BY DEF EntriesOf
  <2> QED  BY <1>1, <2>1 DEF Counted
<1> QED  BY <1>3, <1>4, <1>5, <1>6, <1>7, <1>8

\* A release is dropped.
LEMMA ReleaseDropped ==
  ASSUME TracesInv, NEW r \in Row, rows' = Append(rows, r), SkipRelease(r)
  PROVE  TracesInv'
<1>1. entries' = entries /\ locks_each_txn' = locks_each_txn /\ r.action = "release"
  BY DEF SkipRelease
<1>2. ArraysOK /\ AccessesCovered /\ entries \in Seq(AnEntry)
  BY DEF TracesInv, ArraysOK
<1>3. /\ ArraysOK' /\ FromRows' /\ InOrder'
      /\ Contiguous(entries)' /\ OncePerTxn' /\ Counted'
  BY <1>1, <1>2, SameEntries
<1>4. AccessesCovered'
  <2> SUFFICES ASSUME NEW k \in DOMAIN rows', rows'[k].action = "acquire"
               PROVE  \E i \in DOMAIN entries' :
                         /\ entries'[i].txn = rows'[k].txn
                         /\ entries'[i].lock = Lock(rows'[k].object)
                         /\ UpgradeModes /\ IsExclusive(rows'[k]) => entries'[i].exclusive
    BY DEF AccessesCovered, EntriesOf
  <2>1. k \in DOMAIN rows /\ rows'[k] = rows[k]
    BY <1>1, <1>2, RowAppended
  <2> QED  BY <1>1, <1>2, <2>1 DEF AccessesCovered, EntriesOf
<1> QED  BY <1>3, <1>4 DEF TracesInv

\* Another access under a lock that is taken.
LEMMA AccessCovered ==
  ASSUME TracesInv, NEW r \in Row, rows' = Append(rows, r), SkipKnown(r)
  PROVE  TracesInv'
<1>1. /\ entries' = Upgraded(r) /\ locks_each_txn' = locks_each_txn
      /\ SameLock(r) # {}
  BY DEF SkipKnown
<1>2. ArraysOK /\ AccessesCovered /\ entries \in Seq(AnEntry)
  BY DEF TracesInv, ArraysOK
<1>3. DOMAIN entries' = DOMAIN entries /\ DOMAIN entries = 1 .. Len(entries) /\ Len(entries) \in Nat
  BY <1>1, <1>2, LenProperties DEF Upgraded
<1>4. ASSUME NEW i \in DOMAIN entries
      PROVE  /\ entries[i] \in AnEntry /\ entries'[i] \in AnEntry
             /\ entries'[i].txn = entries[i].txn
             /\ entries'[i].lock = entries[i].lock
             /\ entries[i].exclusive => entries'[i].exclusive
             /\ i \in SameLock(r) /\ UpgradeModes /\ IsExclusive(r) => entries'[i].exclusive
  <2>1. entries[i] \in AnEntry
    BY <1>2, <1>3, ElementOfSeq
  <2>2. entries'[i] = IF i \in SameLock(r) /\ UpgradeModes /\ IsExclusive(r)
                      THEN [entries[i] EXCEPT !.exclusive = TRUE]
                      ELSE entries[i]
    BY <1>1 DEF Upgraded
  <2> QED  BY <2>1, <2>2 DEF AnEntry
<1>5. entries' \in Seq(AnEntry)
  <2>1. entries' \in [1 .. Len(entries) -> AnEntry]
    BY <1>1, <1>3, <1>4 DEF Upgraded
  <2> QED  BY <2>1, <1>3, SeqDef
<1>6. /\ ArraysOK' /\ FromRows' /\ InOrder'
      /\ Contiguous(entries)' /\ OncePerTxn' /\ Counted'
  BY <1>1, <1>3, <1>4, <1>5, SameEntries
<1>7. AccessesCovered'
  <2> SUFFICES ASSUME NEW k \in DOMAIN rows', rows'[k].action = "acquire"
               PROVE  \E i \in DOMAIN entries' :
                         /\ entries'[i].txn = rows'[k].txn
                         /\ entries'[i].lock = Lock(rows'[k].object)
                         /\ UpgradeModes /\ IsExclusive(rows'[k]) => entries'[i].exclusive
    BY DEF AccessesCovered, EntriesOf
  <2>1. CASE k \in DOMAIN rows
    <3>1. rows'[k] = rows[k]
      BY <2>1, <1>2, RowAppended
    <3>2. PICK i \in DOMAIN entries :
                 /\ entries[i].txn = rows[k].txn
                 /\ entries[i].lock = Lock(rows[k].object)
                 /\ UpgradeModes /\ IsExclusive(rows[k]) => entries[i].exclusive
      BY <1>2, <2>1, <3>1 DEF AccessesCovered, EntriesOf
    <3> QED  BY <3>1, <3>2, <1>3, <1>4
  <2>2. CASE k \notin DOMAIN rows
    <3>1. rows'[k] = r
      BY <2>2, <1>2, RowAppended
    <3>2. PICK i \in SameLock(r) : TRUE
      BY <1>1
    <3>3. i \in DOMAIN entries /\ entries[i].lock = Lock(r.object) /\ entries[i].txn = r.txn
      BY <3>2, <1>3 DEF SameLock
    <3> QED  BY <3>1, <3>2, <3>3, <1>3, <1>4
  <2> QED  BY <2>1, <2>2
<1> QED  BY <1>6, <1>7 DEF TracesInv

\* A new entry.
LEMMA EntryKept ==
  ASSUME TracesInv, NEW r \in Row, rows' = Append(rows, r),
         Contiguous(Append(rows, r)), Keep(r)
  PROVE  TracesInv'
<1> DEFINE e == [txn |-> r.txn, lock |-> Lock(r.object), exclusive |-> IsExclusive(r)]
           n == Len(entries) + 1
<1>1. /\ entries' = Append(entries, e) /\ SameLock(r) = {}
      /\ locks_each_txn' = [locks_each_txn EXCEPT ![r.txn] = @ + 1]
      /\ r.txn \in TxnIds /\ r.object \in Objects
  BY DEF Keep, Row
<1>2. /\ ArraysOK /\ AccessesCovered /\ entries \in Seq(AnEntry) /\ FromRows /\ InOrder
      /\ Contiguous(entries) /\ OncePerTxn /\ Counted /\ locks_each_txn \in [TxnIds -> Nat]
  BY DEF TracesInv, ArraysOK
<1>3. /\ e \in AnEntry /\ e.txn = r.txn /\ e.lock = Lock(r.object)
      /\ e.exclusive = IsExclusive(r)
  BY <1>1 DEF AnEntry, LocksTaken, IsExclusive
<1> HIDE DEF e
<1>4. /\ Len(entries) \in Nat /\ DOMAIN entries = 1 .. Len(entries)
      /\ entries' \in Seq(AnEntry) /\ DOMAIN entries' = 1 .. n
      /\ \A i \in 1 .. Len(entries) : entries'[i] = entries[i]
      /\ entries'[n] = e
  BY <1>1, <1>2, <1>3, AppendProperties, LenProperties
<1>5. /\ rows' \in Seq(Row) /\ Len(rows) \in Nat
      /\ DOMAIN rows = 1 .. Len(rows) /\ DOMAIN rows' = 1 .. Len(rows) + 1
      /\ \A a \in DOMAIN rows : rows'[a] = rows[a]
      /\ rows'[Len(rows) + 1] = r
  BY <1>2, RowAppended
<1>6. ArraysOK'
  BY <1>1, <1>2, <1>4, <1>5 DEF ArraysOK
<1>7. FromRows'
  <2> SUFFICES ASSUME NEW i \in 1 .. n
               PROVE  \E a \in DOMAIN rows' : rows'[a].txn = entries'[i].txn
    BY <1>4 DEF FromRows
  <2>1. CASE i = n
    BY <2>1, <1>3, <1>4, <1>5
  <2>2. CASE i \in DOMAIN entries
    <3>1. PICK a \in DOMAIN rows : rows[a].txn = entries[i].txn
      BY <2>2, <1>2 DEF FromRows
    <3> QED  BY <2>2, <3>1, <1>4, <1>5
  <2> QED  BY <2>1, <2>2, <1>4
<1>8. InOrder'
  <2> DEFINE From(i, j) == \E a, b \in DOMAIN rows' :
                              a < b /\ rows'[a].txn = entries'[i].txn
                                    /\ rows'[b].txn = entries'[j].txn
  <2>1. ASSUME NEW i \in 1 .. n, NEW j \in 1 .. n, i < j, j < n,
               entries'[i].txn # entries'[j].txn
        PROVE  From(i, j)
    <3>1. /\ i \in DOMAIN entries /\ entries'[i] = entries[i]
          /\ j \in DOMAIN entries /\ entries'[j] = entries[j]
      BY <2>1, <1>4
    <3>2. PICK a, b \in DOMAIN rows :
               a < b /\ rows[a].txn = entries[i].txn /\ rows[b].txn = entries[j].txn
      BY <1>2, <2>1, <3>1 DEF InOrder
    <3>3. /\ a \in DOMAIN rows' /\ rows'[a] = rows[a]
          /\ b \in DOMAIN rows' /\ rows'[b] = rows[b]
      BY <1>5
    <3> QED  BY ONLY <3>1, <3>2, <3>3
  <2>2. ASSUME NEW i \in 1 .. n, i < n
        PROVE  From(i, n)
    <3>1. i \in DOMAIN entries /\ entries'[i] = entries[i]
      BY <2>2, <1>4
    <3>2. PICK a \in DOMAIN rows : rows[a].txn = entries[i].txn
      BY <3>1, <1>2 DEF FromRows
    <3> DEFINE m == Len(rows) + 1
    <3>3. a \in DOMAIN rows' /\ rows'[a] = rows[a] /\ a < m
      BY <1>5
    <3>4. m \in DOMAIN rows' /\ rows'[m] = r /\ r.txn = entries'[n].txn
      BY <1>3, <1>4, <1>5
    <3> HIDE DEF m
    <3> QED  BY ONLY <3>1, <3>2, <3>3, <3>4
  <2> HIDE DEF From
  <2>3. ASSUME NEW i \in 1 .. n, NEW j \in 1 .. n, i < j, entries'[i].txn # entries'[j].txn
        PROVE  From(i, j)
    <3>1. n \in Nat
      BY <1>4
    <3>2. CASE j < n
      BY <2>1, <2>3, <3>2
    <3>3. CASE j = n
      BY <2>2, <2>3, <3>3
    <3> HIDE DEF n
    <3> QED  BY ONLY <3>1, <3>2, <3>3, j \in 1 .. n
  <2>4. DOMAIN entries' = 1 .. n
    BY <1>4
  <2> QED  BY ONLY <2>3, <2>4 DEF InOrder, From
<1>9. ASSUME NEW i \in DOMAIN entries, entries[i].txn = r.txn,
             NEW k \in i .. Len(entries)
      PROVE  entries[k].txn = r.txn
  <2> SUFFICES ASSUME entries[k].txn # r.txn  PROVE FALSE
    OBVIOUS
  <2>1. k \in DOMAIN entries /\ i < k
    BY <1>4, <1>9
  <2>2. PICK a, b \in DOMAIN rows :
             a < b /\ rows[a].txn = entries[i].txn /\ rows[b].txn = entries[k].txn
    BY <1>2, <1>9, <2>1 DEF InOrder
  <2> DEFINE m == Len(rows) + 1
  <2>3. /\ a \in DOMAIN rows' /\ m \in DOMAIN rows' /\ a < m /\ b \in a .. m
        /\ rows'[a].txn = rows'[m].txn
    BY <1>5, <1>9, <2>2
  <2>4. Contiguous(rows')
    OBVIOUS
  <2>5. rows'[b].txn = rows'[a].txn
    BY <2>3, <2>4 DEF Contiguous
  <2> QED  BY <2>2, <2>5, <1>5, <1>9
<1>10. Contiguous(entries)'
  <2> SUFFICES ASSUME NEW i \in 1 .. n, NEW j \in 1 .. n, i < j,
                      entries'[i].txn = entries'[j].txn, NEW k \in i .. j
               PROVE  entries'[k].txn = entries'[i].txn
    BY <1>4 DEF Contiguous
  <2>1. CASE j < n
    <3>1. i \in DOMAIN entries /\ j \in DOMAIN entries /\ k \in DOMAIN entries
      BY <2>1, <1>4
    <3> QED  BY <1>2, <1>4, <3>1 DEF Contiguous
  <2>2. CASE j = n /\ k < n
    <3>1. i \in DOMAIN entries /\ k \in i .. Len(entries) /\ entries[i].txn = r.txn
      BY <2>2, <1>3, <1>4
    <3>2. entries[k].txn = r.txn
      BY <3>1, <1>9
    <3> QED  BY <2>2, <3>1, <3>2, <1>4
  <2>3. CASE j = n /\ k = n
    BY <2>3
  <2>4. j <= n /\ k <= j /\ n \in Nat /\ j \in Nat /\ k \in Int
    BY <1>4
  <2> QED  BY ONLY <2>1, <2>2, <2>3, <2>4
<1>11. ASSUME NEW i \in DOMAIN entries, entries[i].txn = r.txn
       PROVE  entries[i].lock # Lock(r.object)
  BY <1>1, <1>4, <1>9, <1>11 DEF SameLock
<1>12. OncePerTxn'
  <2> SUFFICES ASSUME NEW i \in 1 .. n, NEW j \in 1 .. n, i < j,
                      entries'[i].txn = entries'[j].txn
               PROVE  entries'[i].lock # entries'[j].lock
    BY <1>4 DEF OncePerTxn
  <2>1. CASE j < n
    <3>1. i \in DOMAIN entries /\ j \in DOMAIN entries /\ i # j
      BY <2>1, <1>4
    <3> QED  BY <3>1, <1>2, <1>4 DEF OncePerTxn
  <2>2. CASE j = n
    BY <2>2, <1>3, <1>4, <1>11
  <2> QED  BY <2>1, <2>2, <1>4
<1>13. Counted'
  <2> SUFFICES ASSUME NEW t \in TxnIds
               PROVE  locks_each_txn'[t] = Cardinality(EntriesOf(t)')
    BY DEF Counted
  <2> DEFINE S == {x \in AnEntry : x.txn = t}
  <2>1. /\ EntriesOf(t) = Positions(entries, S)
        /\ EntriesOf(t)' = Positions(entries', S)
    <3>1. \A i \in DOMAIN entries : entries[i] \in AnEntry
      BY <1>2, <1>4, ElementOfSeq
    <3>2. \A i \in DOMAIN entries' : entries'[i] \in AnEntry
      BY <1>3, <1>4, <3>1
    <3> QED  BY <3>1, <3>2 DEF EntriesOf, Positions
  <2>2. Cardinality(Positions(entries', S)) =
           Cardinality(Positions(entries, S)) + (IF e \in S THEN 1 ELSE 0)
    BY <1>1, <1>2, <1>3, AppendPositions
  <2>3. e \in S <=> r.txn = t
    BY <1>3
  <2> HIDE DEF S
  <2>4. locks_each_txn[t] = Cardinality(EntriesOf(t)) /\ locks_each_txn[t] \in Nat
    BY <1>2 DEF Counted
  <2>5. locks_each_txn'[t] = locks_each_txn[t] + IF r.txn = t THEN 1 ELSE 0
    BY <1>1, <1>2, <2>4
  <2> QED  BY <2>1, <2>2, <2>3, <2>4, <2>5
<1>14. AccessesCovered'
  <2> SUFFICES ASSUME NEW k \in DOMAIN rows', rows'[k].action = "acquire"
               PROVE  \E i \in DOMAIN entries' :
                         /\ entries'[i].txn = rows'[k].txn
                         /\ entries'[i].lock = Lock(rows'[k].object)
                         /\ UpgradeModes /\ IsExclusive(rows'[k]) => entries'[i].exclusive
    BY DEF AccessesCovered, EntriesOf
  <2>1. CASE k \in DOMAIN rows
    <3>1. rows'[k] = rows[k]
      BY <2>1, <1>5
    <3>2. PICK i \in DOMAIN entries :
                 /\ entries[i].txn = rows[k].txn
                 /\ entries[i].lock = Lock(rows[k].object)
                 /\ UpgradeModes /\ IsExclusive(rows[k]) => entries[i].exclusive
      BY <1>2, <2>1, <3>1 DEF AccessesCovered, EntriesOf
    <3> QED  BY <3>1, <3>2, <1>4
  <2>2. CASE k \notin DOMAIN rows
    <3>1. rows'[k] = r /\ n \in DOMAIN entries'
      BY <2>2, <1>4, <1>5
    <3> QED  BY <3>1, <1>3, <1>4
  <2> QED  BY <2>1, <2>2
<1> QED  BY <1>6, <1>7, <1>8, <1>10, <1>12, <1>13, <1>14 DEF TracesInv

\* Every row read.
LEMMA RowsRead == TracesInv /\ [TracesNext]_traceVars => TracesInv'
<1> SUFFICES ASSUME TracesInv, [TracesNext]_traceVars  PROVE TracesInv'
  OBVIOUS
<1>1. CASE TracesNext
  <2>1. PICK r \in Row : /\ Contiguous(Append(rows, r))
                         /\ rows' = Append(rows, r)
                         /\ ReadRow(r)
    BY <1>1 DEF TracesNext
  <2>2. CASE SkipRelease(r)
    BY <2>1, <2>2, ReleaseDropped
  <2>3. CASE SkipKnown(r)
    BY <2>1, <2>3, AccessCovered
  <2>4. CASE Keep(r)
    BY <2>1, <2>4, EntryKept
  <2> QED  BY <2>1, <2>2, <2>3, <2>4 DEF ReadRow
<1>2. CASE UNCHANGED traceVars
  <2>1. UNCHANGED << rows, entries, locks_each_txn >>
    BY <1>2 DEF traceVars
  <2>2. /\ ArraysOK' /\ FromRows' /\ InOrder' /\ OncePerTxn'
    BY <2>1 DEF TracesInv, ArraysOK, FromRows, InOrder, OncePerTxn
  <2>3. Contiguous(entries)'
    BY <2>1 DEF TracesInv, Contiguous
  <2>4. Counted'
    BY <2>1 DEF TracesInv, Counted, EntriesOf
  <2>5. AccessesCovered'
    BY <2>1 DEF TracesInv, AccessesCovered, EntriesOf
  <2> QED  BY <2>2, <2>3, <2>4, <2>5 DEF TracesInv
<1> QED  BY <1>1, <1>2

LEMMA TracesAlways == TracesSpec => []TracesInv
BY NoneRead, RowsRead, PTL DEF TracesSpec

\* A trace that was read is what TxnClient relies on: the entries of a
\* transaction follow each other and name each lock once, and the client waits
\* for as many grants as there are entries (new_order.h:164-204).
THEOREM TracesAreForClients == TracesSpec => []TraceForClient
<1>1. TracesInv => TraceForClient
  BY DEF TracesInv, TraceForClient, OncePerTxn, Counted
<1> QED  BY <1>1, TracesAlways, PTL

\* No access goes without a lock, and with batches none that writes goes
\* without an exclusive one (new_order.h:166-170).
THEOREM NoAccessUncovered == TracesSpec => []AccessesCovered
<1>1. TracesInv => AccessesCovered
  BY DEF TracesInv
<1> QED  BY <1>1, TracesAlways, PTL

-----------------------------------------------------------------------------
(* Packets of a burst to one lock.                                         *)

\* None of them, ...
LEMMA SentToNone ==
  ASSUME NEW packets, NEW l, \A i \in DOMAIN packets : packets[i].entry.lock # l
  PROVE  SentTo(packets, l) = << >>
<1>1. {i \in DOMAIN packets : packets[i].entry.lock = l} = {}
  OBVIOUS
<1> DEFINE s == SentTo(packets, l)
<1>2. DOMAIN s = 1 .. 0 /\ 1 .. 0 = {}
  <2>1. DOMAIN s = 1 .. Cardinality({i \in DOMAIN packets : packets[i].entry.lock = l})
    BY DEF SentTo
  <2> HIDE DEF s
  <2>2. DOMAIN s = 1 .. Cardinality({})
    BY <1>1, <2>1
  <2>3. Cardinality({}) = 0
    BY FS_EmptySet
  <2> QED  BY <2>2, <2>3
<1>3. s = [n \in DOMAIN s |-> s[n]]
  BY DEF SentTo
<1> HIDE DEF s
<1>4. s \in [1 .. 0 -> {}]
  BY <1>2, <1>3
<1>5. s \in Seq({})
  BY <1>4, SeqDef
<1>6. Len(s) \notin Nat \ {0}
  BY <1>2, <1>5, LenProperties
<1>7. s = << >>
  BY <1>5, <1>6, EmptySeq
<1> QED  BY <1>7 DEF s

\* ... one, ...
LEMMA SentToOne ==
  ASSUME NEW T, NEW packets \in Seq(T), NEW l, NEW i \in DOMAIN packets,
         \A k \in DOMAIN packets : packets[k].entry.lock = l <=> k = i
  PROVE  SentTo(packets, l) = << packets[i] >>
<1> DEFINE P == {k \in DOMAIN packets : packets[k].entry.lock = l}
           Nth(n) == CHOOSE k \in P : Cardinality({j \in P : j <= k}) = n
<1>1. P = {i} /\ i \in Nat
  BY LenProperties
<1>2. Cardinality(P) = 1
  BY <1>1, FS_Singleton
<1>3. {j \in P : j <= i} = {i}
  BY <1>1
<1>4. Nth(1) \in P
  <2>1. Cardinality({j \in P : j <= i}) = 1
    BY <1>3, FS_Singleton
  <2> QED  BY <1>1, <2>1
<1>5. SentTo(packets, l) = [n \in 1 .. Cardinality(P) |-> packets[Nth(n)]]
  BY DEF SentTo
<1> HIDE DEF P, Nth
<1>6. Nth(1) = i
  BY <1>1, <1>4
<1>7. \A n \in 1 .. 1 : n = 1
  OBVIOUS
<1>8. SentTo(packets, l) = [n \in 1 .. 1 |-> packets[i]]
  BY <1>2, <1>5, <1>6, <1>7
<1> QED  BY <1>8

\* ... or two.
LEMMA SentToTwo ==
  ASSUME NEW T, NEW packets \in Seq(T), NEW l,
         NEW i \in DOMAIN packets, NEW m \in DOMAIN packets, i < m,
         \A k \in DOMAIN packets : packets[k].entry.lock = l <=> k \in {i, m}
  PROVE  SentTo(packets, l) = << packets[i], packets[m] >>
<1> DEFINE P == {k \in DOMAIN packets : packets[k].entry.lock = l}
           Upto(k) == Cardinality({j \in P : j <= k})
           Nth(n) == CHOOSE k \in P : Upto(k) = n
<1>1. P = {i, m} /\ i \in Nat /\ m \in Nat
  BY LenProperties
<1>2. SentTo(packets, l) = [n \in 1 .. Cardinality(P) |-> packets[Nth(n)]]
  BY DEF SentTo
<1>3. \A n : \A k \in P : Upto(k) = n => Nth(n) \in P /\ Upto(Nth(n)) = n
  OBVIOUS
<1>4. Upto(i) = 1
  <2>1. {j \in P : j <= i} = {i}
    BY <1>1
  <2> QED  BY <2>1, FS_Singleton
<1>5. Upto(m) = Cardinality(P)
  <2>1. {j \in P : j <= m} = P
    BY <1>1
  <2> QED  BY <2>1
<1> HIDE DEF P, Upto, Nth
<1>6. Cardinality(P) = 2
  <2>1. IsFiniteSet({i}) /\ Cardinality({i}) = 1
    BY FS_Singleton
  <2>2. P = {i} \cup {m} /\ m \notin {i}
    BY <1>1
  <2>3. Cardinality({i} \cup {m}) =
           IF m \in {i} THEN Cardinality({i}) ELSE Cardinality({i}) + 1
    BY ONLY <2>1, FS_AddElement
  <2>4. Cardinality(P) = Cardinality({i}) + 1
    BY <2>2, <2>3
  <2> QED  BY ONLY <2>1, <2>4
<1>7. Nth(1) = i /\ Nth(2) = m
  BY <1>1, <1>3, <1>4, <1>5, <1>6
<1>8. \A n \in 1 .. 2 : n = 1 \/ n = 2
  OBVIOUS
<1>9. SentTo(packets, l) = [n \in 1 .. 2 |-> IF n = 1 THEN packets[i] ELSE packets[m]]
  BY <1>2, <1>6, <1>7, <1>8
<1> QED  BY <1>9

-----------------------------------------------------------------------------
(* Traces.                                                                 *)

\* What the assumption says of a client's trace.
LEMMA TraceFacts ==
  ASSUME NEW c \in Clients
  PROVE  /\ Len(Trace[c]) \in Nat \ {0} /\ DOMAIN Trace[c] = 1 .. Len(Trace[c])
         /\ \A k \in 1 .. Len(Trace[c]) : Trace[c][k] \in TraceEntry
         /\ Trace[c][1].txn # Trace[c][Len(Trace[c])].txn
         /\ \A i, j \in 1 .. Len(Trace[c]) :
               i < j /\ Trace[c][i].txn = Trace[c][j].txn =>
                   /\ Trace[c][i].lock # Trace[c][j].lock
                   /\ \A k \in i .. j : Trace[c][k].txn = Trace[c][i].txn
<1>1. Trace[c] \in Seq(TraceEntry) /\ Trace[c] # << >>
  BY TraceAssumption
<1>2. Len(Trace[c]) \in Nat \ {0} /\ DOMAIN Trace[c] = 1 .. Len(Trace[c])
  BY <1>1, LenProperties, EmptySeq
<1>3. \A k \in 1 .. Len(Trace[c]) : Trace[c][k] \in TraceEntry
  BY <1>1, ElementOfSeq
<1>4. /\ Trace[c][1].txn # Trace[c][Len(Trace[c])].txn
      /\ \A i, j \in DOMAIN Trace[c] :
            i < j /\ Trace[c][i].txn = Trace[c][j].txn =>
                /\ Trace[c][i].lock # Trace[c][j].lock
                /\ \A k \in i .. j : Trace[c][k].txn = Trace[c][i].txn
  BY ONLY c \in Clients, TraceAssumption
<1> QED  BY ONLY <1>2, <1>3, <1>4

EntryOf(r, l) == [txn |-> r.txn, lock |-> l, exclusive |-> r.exclusive]

\* An entry, as a node and as a request.
LEMMA EntryFacts ==
  ASSUME NEW c \in Clients, NEW t, NEW e \in Entries(c, t)
  PROVE  /\ e \in Node(c) /\ e \in TraceEntry
         /\ e.txn = t /\ t \in Nat \ {0} /\ t \in Txns(c)
         /\ e.lock \in Locks
         /\ RequestOf(c, e) \in Request /\ RequestOf(c, e).client = c
         /\ RequestOf(c, e).txn = t
         /\ EntryOf(RequestOf(c, e), e.lock) = e
<1>1. PICK k \in DOMAIN Trace[c] : Trace[c][k].txn = t /\ e = Trace[c][k]
  BY DEF Entries
<1>2. e \in TraceEntry /\ e.txn = t
  BY <1>1, TraceFacts
<1>3. t \in Txns(c)
  BY <1>1 DEF Txns
<1>4. e \in Node(c)
  BY <1>2, <1>3 DEF Node, TraceEntry
<1> QED  BY <1>2, <1>3, <1>4 DEF TraceEntry, RequestOf, Request, EntryOf

\* A transaction has one entry for a lock.
LEMMA SameEntry ==
  ASSUME NEW c \in Clients, NEW t, NEW e \in Entries(c, t), NEW f \in Entries(c, t),
         e.lock = f.lock
  PROVE  e = f
<1>1. PICK i \in DOMAIN Trace[c] : Trace[c][i].txn = t /\ e = Trace[c][i]
  BY DEF Entries
<1>2. PICK j \in DOMAIN Trace[c] : Trace[c][j].txn = t /\ f = Trace[c][j]
  BY DEF Entries
<1>3. i \in Nat /\ j \in Nat
  BY TraceFacts
<1>4. ~ i < j /\ ~ j < i
  BY <1>1, <1>2, TraceFacts
<1> QED  BY <1>1, <1>2, <1>3, <1>4

\* Entries f to w are the transaction's first ones.
Run(c, t, f, w) ==
    /\ f <= w
    /\ \A k \in 1 .. f - 1 : Trace[c][k].txn # t
    /\ \A k \in f .. w : Trace[c][k].txn = t

Following(c, w) == IF w + 1 > Len(Trace[c]) THEN 1 ELSE w + 1

\* They are all of the transaction exactly if the next entry is of another one.
LEMMA LastOfTransaction ==
  ASSUME NEW c \in Clients, NEW t, NEW f \in DOMAIN Trace[c], NEW w \in DOMAIN Trace[c],
         Run(c, t, f, w)
  PROVE  w - f + 1 = LocksEachTxn(c, t) <=> Trace[c][Following(c, w)].txn # t
<1> DEFINE N == Len(Trace[c])
           S == {k \in DOMAIN Trace[c] : Trace[c][k].txn = t}
           next == Following(c, w)
<1>0. /\ f <= w
      /\ \A k \in 1 .. f - 1 : Trace[c][k].txn # t
      /\ \A k \in f .. w : Trace[c][k].txn = t
      /\ next = IF w + 1 > N THEN 1 ELSE w + 1
  BY DEF Run, Following
<1> HIDE DEF next
<1>1. /\ N \in Nat \ {0} /\ DOMAIN Trace[c] = 1 .. N /\ f \in 1 .. N /\ w \in 1 .. N
      /\ Trace[c][1].txn # Trace[c][N].txn
  BY TraceFacts
<1>2. f .. w \subseteq S /\ S \subseteq f .. N
  BY <1>0, <1>1
<1>3. IsFiniteSet(S)
  <2>1. f \in Int /\ N \in Int
    BY <1>0, <1>1
  <2>2. IsFiniteSet(f .. N)
    BY <2>1, FS_Interval
  <2> QED  BY <1>2, <2>2, FS_Subset
<1>4. IsFiniteSet(f .. w) /\ Cardinality(f .. w) = w - f + 1
  <2>1. f \in Int /\ w \in Int
    BY <1>0, <1>1
  <2> QED  BY <1>0, <2>1, FS_Interval
<1>5. CASE Trace[c][next].txn # t
  <2>1. S = f .. w
    <3> SUFFICES ASSUME NEW k \in S, k > w  PROVE FALSE
      BY <1>0, <1>1, <1>2
    <3>1. w + 1 \in 1 .. N /\ next = w + 1 /\ k \in 1 .. N /\ w + 1 \in f .. k /\ f < k
      BY <1>0, <1>1
    <3>2. Trace[c][f].txn = Trace[c][k].txn /\ Trace[c][f].txn = t
      BY <1>0, <1>1
    <3>3. \A g, h \in 1 .. N : g < h /\ Trace[c][g].txn = Trace[c][h].txn =>
             \A m \in g .. h : Trace[c][m].txn = Trace[c][g].txn
      BY ONLY c \in Clients, TraceFacts
    <3>4. Trace[c][w + 1].txn = Trace[c][f].txn
      BY ONLY <1>1, <3>1, <3>2, <3>3
    <3> QED  BY ONLY <1>5, <3>1, <3>2, <3>4
  <2> QED  BY <1>4, <1>5, <2>1 DEF LocksEachTxn, next
<1>6. CASE Trace[c][next].txn = t
  <2>1. w + 1 \in 1 .. N /\ next = w + 1
    <3> SUFFICES ASSUME w = N  PROVE FALSE
      BY <1>0, <1>1
    <3>1. next = 1 /\ Trace[c][w].txn = t
      BY <1>0, <1>1
    <3> QED  BY <1>0, <1>1, <1>6, <3>1
  <2>2. f .. w + 1 \subseteq S
    BY <1>0, <1>1, <1>6, <2>1
  <2>3. Cardinality(f .. w + 1) = w - f + 2
    <3>1. f \in Int /\ w + 1 \in Int /\ ~ f > w + 1 /\ (w + 1) - f + 1 = w - f + 2
      <4>1. f \in Nat /\ w \in Nat /\ f <= w
        BY <1>0, <1>1
      <4> QED  BY ONLY <4>1
    <3> QED  BY <3>1, FS_Interval
  <2>4. Cardinality(f .. w + 1) <= Cardinality(S) /\ Cardinality(S) \in Nat
    BY <1>3, <2>2, FS_Subset, FS_CardinalityType
  <2>5. LocksEachTxn(c, t) = Cardinality(S)
    BY DEF LocksEachTxn
  <2> HIDE DEF S
  <2>6. w - f + 1 # LocksEachTxn(c, t)
    BY <1>0, <1>1, <2>3, <2>4, <2>5
  <2> QED  BY <1>6, <2>6 DEF next
<1> QED  BY <1>5, <1>6 DEF next

\* Distinct entries of a transaction are no more than it has locks, and if they
\* are as many, all of them.
LEMMA NodesBounded ==
  ASSUME NEW c \in Clients, NEW t, NEW T, NEW q \in Seq(T),
         \A i \in 1 .. Len(q) : q[i] \in Entries(c, t),
         \A i, j \in 1 .. Len(q) : q[i].lock = q[j].lock => i = j
  PROVE  /\ Len(q) <= LocksEachTxn(c, t) /\ LocksEachTxn(c, t) \in Nat
         /\ Len(q) = LocksEachTxn(c, t) =>
               \A e \in Entries(c, t) : \E i \in 1 .. Len(q) : q[i] = e
<1> DEFINE n == Len(q)
           S == {k \in DOMAIN Trace[c] : Trace[c][k].txn = t}
           g == [i \in 1 .. n |-> CHOOSE k \in S : q[i] = Trace[c][k]]
<1>1. \A i \in 1 .. n : g[i] \in S /\ q[i] = Trace[c][g[i]]
  <2> SUFFICES ASSUME NEW i \in 1 .. n  PROVE \E k \in S : q[i] = Trace[c][k]
    OBVIOUS
  <2> QED  BY DEF Entries
<1>2. IsFiniteSet(S) /\ Cardinality(S) \in Nat
  <2>1. IsFiniteSet(DOMAIN Trace[c])
    BY TraceFacts, FS_Interval
  <2> QED  BY <2>1, FS_Subset, FS_CardinalityType
<1>3. DOMAIN g = 1 .. n
  OBVIOUS
<1>4. g \in [1 .. n -> S]
  BY <1>1
<1>5. LocksEachTxn(c, t) = Cardinality(S)
  BY DEF LocksEachTxn
<1>6. \A e \in Entries(c, t) : \E k \in S : e = Trace[c][k]
  BY DEF Entries
<1>7. \A i, j \in 1 .. n : q[i].lock = q[j].lock => i = j
  OBVIOUS
<1>0. n \in Nat
  BY LenProperties
<1> HIDE DEF g, S, n
<1>8. g \in Injection(1 .. n, S)
  <2>1. ASSUME NEW i \in 1 .. n, NEW j \in 1 .. n, g[i] = g[j]  PROVE i = j
    <3>1. q[i] = Trace[c][g[i]] /\ q[j] = Trace[c][g[j]]
      BY <1>1
    <3>2. q[i].lock = q[j].lock
      BY <2>1, <3>1
    <3> QED  BY <1>7, <3>2
  <2> QED  BY <1>4, <2>1, Fun_IsInj
<1>9. Cardinality(1 .. n) = n /\ IsFiniteSet(1 .. n)
  <2>1. 1 \in Int /\ n \in Int
    BY <1>0
  <2> QED  BY <1>0, <2>1, FS_Interval
<1>10. /\ Cardinality(1 .. n) <= Cardinality(S)
       /\ Cardinality(1 .. n) = Cardinality(S) => g \in Surjection(1 .. n, S)
  BY <1>2, <1>8, FS_Injection
<1>11. ASSUME g \in Surjection(1 .. n, S), NEW e \in Entries(c, t)
       PROVE  \E i \in 1 .. n : q[i] = e
  <2>1. PICK k \in S : e = Trace[c][k]
    BY <1>6
  <2>2. PICK i \in 1 .. n : g[i] = k
    BY <1>11 DEF Surjection
  <2> QED  BY <1>1, <2>1, <2>2
<1>12. n = Len(q)
  BY DEF n
<1> QED  BY <1>2, <1>5, <1>9, <1>10, <1>11, <1>12

-----------------------------------------------------------------------------
(* The invariant.                                                          *)

Rel(e) == [op |-> "release", entry |-> e]
Acq(e) == [op |-> "acquire", entry |-> e]

\* The ACQUIREs for entries f to w.
Acquires(c, f, w) == [i \in 1 .. w - f + 1 |-> Acq(Trace[c][f + i - 1])]

\* An entry of the attempt that is under way: all its ACQUIREs were handed over.
InPlay(c, e) == AllSent(c) /\ e \in Entries(c, last_txn[c])

ClientTypes(c) ==
    /\ idx[c] \in 1 .. Len(Trace[c]) + 1
    /\ last_txn_idx[c] \in 1 .. Len(Trace[c])
    /\ last_txn[c] \in Txns(c)
    /\ txn_s[c] \in [Txns(c) -> Nat]
    /\ deadlocked[c] \in [Txns(c) -> BOOLEAN]
    /\ received[c] = << >> \/ \E e \in Node(c) : received[c] = << e >>
    /\ txn_queues[c] \in [Txns(c) -> Seq(Node(c))]
    /\ txn_r[c] \in [Txns(c) -> Nat]
    /\ DOMAIN toLock[c] = Locks

TypeOK ==
    /\ DOMAIN idx = Clients /\ DOMAIN last_txn = Clients
    /\ DOMAIN last_txn_idx = Clients /\ DOMAIN txn_s = Clients
    /\ DOMAIN deadlocked = Clients /\ DOMAIN tx_mbufs = Clients
    /\ DOMAIN received = Clients /\ DOMAIN txn_queues = Clients
    /\ DOMAIN txn_r = Clients /\ DOMAIN toLock = Clients
    /\ DOMAIN rejected = Clients /\ DOMAIN grants = Clients
    /\ holders \in [Locks -> SUBSET Request]
    /\ waiting \in [Locks -> Seq(Request)]
    /\ \A c \in Clients : ClientTypes(c)

\* Where the TX lcore is in its trace, and what it has not sent yet.
Place(c) ==
    /\ last_txn[c] = 0 => idx[c] = 1 /\ last_txn_idx[c] = 1
    /\ last_txn[c] # 0 =>
          /\ last_txn_idx[c] <= idx[c]
          /\ \A k \in 1 .. last_txn_idx[c] - 1 : Trace[c][k].txn # last_txn[c]
          /\ Trace[c][last_txn_idx[c]].txn = last_txn[c]
          /\ \A k \in last_txn_idx[c] .. idx[c] - 1 : Trace[c][k].txn = last_txn[c]
    /\ tx_mbufs[c] = IF AllSent(c) THEN << >>
                     ELSE Acquires(c, last_txn_idx[c], idx[c] - 1)

\* Every node is counted but the one just received; none released is uncounted.
Counts(c) ==
    \A t \in Txns(c) :
        /\ txn_s[c][t] <= txn_r[c][t]
        /\ Len(txn_queues[c][t]) = txn_r[c][t] +
              (IF received[c] # << >> /\ Head(received[c]).txn = t THEN 1 ELSE 0)
        /\ ~ deadlocked[c][t] => txn_s[c][t] = 0

\* A RELEASE of something held, an ACQUIRE of the attempt, or one after the other.
OnTheWay(c, l) ==
    \/ toLock[c][l] = << >>
    \/ \E o \in Node(c) : /\ o.lock = l /\ Holds(c, o)
                          /\ toLock[c][l] = << Rel(o) >>
    \/ \E e \in Node(c) : /\ e.lock = l /\ InPlay(c, e)
                          /\ toLock[c][l] = << Acq(e) >>
    \/ \E o, e \in Node(c) : /\ o.lock = l /\ Holds(c, o)
                             /\ e.lock = l /\ InPlay(c, e)
                             /\ toLock[c][l] = << Rel(o), Acq(e) >>

\* Where the client's request for a lock may be: on its way, on its way back,
\* waiting, granted, or a node of the transaction's queue.
Asking(c, l)   == \E i \in DOMAIN toLock[c][l] : toLock[c][l][i].op = "acquire"
SentBack(c, l) == \E e \in rejected[c] : e.lock = l
InLine(c, l)   == \E i \in DOMAIN waiting[l] : waiting[l][i].client = c
Granted(c, l)  == \E e \in grants[c] : e.lock = l
Noted(c, l)    ==
    \E t \in Txns(c) : \E i \in DOMAIN txn_queues[c][t] : txn_queues[c][t][i].lock = l

\* It is at one of these places at most.
AtOnePlace(c, l) ==
    /\ Asking(c, l) => ~ SentBack(c, l) /\ ~ InLine(c, l) /\ ~ Granted(c, l) /\ ~ Noted(c, l)
    /\ SentBack(c, l) => ~ InLine(c, l) /\ ~ Granted(c, l) /\ ~ Noted(c, l)
    /\ InLine(c, l) => ~ Granted(c, l) /\ ~ Noted(c, l)
    /\ Granted(c, l) => ~ Noted(c, l)

\* Behind the ACQUIRE nothing was sent.
NothingBehind(c, l) ==
    SentBack(c, l) \/ InLine(c, l) \/ Granted(c, l) => toLock[c][l] = << >>

Rejects(c) == \A e \in rejected[c] : InPlay(c, e)

Grants(c) == \A e \in grants[c] : InPlay(c, e) /\ Holds(c, e)

\* Nodes are locks of the attempt, each once; what was not released is held and
\* nothing is on its way to it.
Nodes(c) ==
    \A t \in Txns(c) : \A i \in DOMAIN txn_queues[c][t] :
        LET e == txn_queues[c][t][i]
        IN  /\ InPlay(c, e) /\ e.txn = t
            /\ i > txn_s[c][t] => Holds(c, e) /\ toLock[c][e.lock] = << >>
            /\ \A j \in DOMAIN txn_queues[c][t] :
                  txn_queues[c][t][j].lock = e.lock => j = i

\* A client waits once for a lock, for its attempt.
Line(l) ==
    \A i \in DOMAIN waiting[l] :
        /\ InPlay(waiting[l][i].client, EntryOf(waiting[l][i], l))
        /\ \A j \in DOMAIN waiting[l] : waiting[l][j].client = waiting[l][i].client => j = i

\* What the client still has to do about a lock it holds.
ReleaseSent(c, e) == toLock[c][e.lock] # << >> /\ toLock[c][e.lock][1] = Rel(e)
Unreleased(c, e) ==
    /\ e.txn \in Txns(c)
    /\ \E i \in DOMAIN txn_queues[c][e.txn] :
          i > txn_s[c][e.txn] /\ txn_queues[c][e.txn][i] = e
ToDo(c, e) == ReleaseSent(c, e) \/ e \in grants[c] \/ Unreleased(c, e)

Owing(l) == \A h \in holders[l] : ToDo(h.client, EntryOf(h, l))

ClientInv(c) ==
    /\ Place(c) /\ Counts(c)
    /\ Rejects(c) /\ Grants(c) /\ Nodes(c)
    /\ \A l \in Locks : OnTheWay(c, l) /\ AtOnePlace(c, l) /\ NothingBehind(c, l)

TxnInv ==
    /\ TypeOK
    /\ \A c \in Clients : ClientInv(c)
    /\ \A l \in Locks : Line(l) /\ Owing(l)

-----------------------------------------------------------------------------
(* Short queues.                                                           *)

\* Queues of no, one and two packets.
LEMMA ShortQueues ==
  ASSUME NEW a, NEW b
  PROVE  /\ << a >> # << >> /\ << a, b >> # << >>
         /\ Head(<< a >>) = a /\ Head(<< a, b >>) = a
         /\ Tail(<< a >>) = << >> /\ Tail(<< a, b >>) = << b >>
         /\ << >> \o << >> = << >> /\ << a >> \o << >> = << a >> /\ << >> \o << a >> = << a >>
         /\ << a >> \o << b >> = << a, b >>
         /\ << a, b >> \o << >> = << a, b >> /\ << >> \o << a, b >> = << a, b >>
         /\ DOMAIN << >> = {} /\ DOMAIN << a >> = {1} /\ DOMAIN << a, b >> = {1, 2}
<1> DEFINE T == {a, b}
<1>1. << a >> \in Seq(T) /\ << b >> \in Seq(T) /\ << a, b >> \in Seq(T) /\ << >> \in Seq(T)
  OBVIOUS
<1>2. Len(<< a >>) = 1 /\ Len(<< b >>) = 1 /\ Len(<< a, b >>) = 2 /\ Len(<< >>) = 0
  OBVIOUS
<1>3. << a >> # << >> /\ << a, b >> # << >>
  OBVIOUS
<1>4. Head(<< a >>) = a /\ Head(<< a, b >>) = a
  OBVIOUS
<1>5. Tail(<< a >>) = << >> /\ Tail(<< a, b >>) = << b >>
  OBVIOUS
<1>6. /\ << >> \o << >> = << >> /\ << a >> \o << >> = << a >> /\ << >> \o << a >> = << a >>
      /\ << a, b >> \o << >> = << a, b >> /\ << >> \o << a, b >> = << a, b >>
  BY <1>1, ConcatEmptySeq
<1>7. << a >> \o << b >> = << a, b >>
  <2> DEFINE s == << a >> \o << b >>
             t == << a, b >>
  <2>1. /\ s \in Seq(T) /\ Len(s) = 1 + 1
        /\ \A i \in 1 .. 1 + 1 : s[i] = IF i <= 1 THEN << a >>[i] ELSE << b >>[i - 1]
    BY <1>1, <1>2, ConcatProperties
  <2>2. t[1] = a /\ t[2] = b /\ << a >>[1] = a /\ << b >>[1] = b
    OBVIOUS
  <2>3. Len(t) = 2 /\ t \in Seq(T)
    BY <1>1, <1>2
  <2> HIDE DEF s, t, T
  <2>4. s[1] = a
    BY <2>1, <2>2
  <2>5. s[2] = b
    <3>1. s[2] = << b >>[2 - 1]
      BY <2>1
    <3> QED  BY <2>2, <3>1
  <2>6. Len(s) = 2 /\ s \in Seq(T)
    BY <2>1
  <2>7. \A i \in 1 .. 2 : i = 1 \/ i = 2
    OBVIOUS
  <2>8. s = t
    BY <2>2, <2>3, <2>4, <2>5, <2>6, <2>7, SeqEqual
  <2> QED  BY <2>8 DEF s, t
<1>8. DOMAIN << >> = {} /\ DOMAIN << a >> = {1} /\ DOMAIN << a, b >> = {1, 2}
  OBVIOUS
<1> QED  BY <1>3, <1>4, <1>5, <1>6, <1>7, <1>8

\* The ACQUIREs of one entry more.
LEMMA OneMoreAcquire ==
  ASSUME NEW c \in Clients, NEW f \in Nat \ {0}, NEW w \in Nat, f <= w
  PROVE  /\ Acquires(c, f, f - 1) = << >>
         /\ Append(Acquires(c, f, w - 1), Acq(Trace[c][w])) = Acquires(c, f, w)
         /\ Len(Acquires(c, f, w)) = w - f + 1
<1> DEFINE T == {Acq(Trace[c][k]) : k \in f .. w}
           n == w - f
<1>1. n \in Nat /\ (w - 1) - f + 1 = n /\ w - f + 1 = n + 1 /\ (f - 1) - f + 1 = 0
  OBVIOUS
<1>2. \A i \in 1 .. n + 1 : f + i - 1 \in f .. w /\ (i = n + 1 => f + i - 1 = w)
  OBVIOUS
<1> DEFINE a == [i \in 1 .. n |-> Acq(Trace[c][f + i - 1])]
           b == [i \in 1 .. n + 1 |-> Acq(Trace[c][f + i - 1])]
           z == [i \in 1 .. 0 |-> Acq(Trace[c][f + i - 1])]
<1>3. Acquires(c, f, w - 1) = a /\ Acquires(c, f, w) = b /\ Acquires(c, f, f - 1) = z
  BY <1>1 DEF Acquires
<1>4. a \in [1 .. n -> T] /\ b \in [1 .. n + 1 -> T] /\ z \in [1 .. 0 -> T]
  BY <1>1, <1>2
<1>5. a \in Seq(T) /\ b \in Seq(T) /\ z \in Seq(T)
  <2>1. n + 1 \in Nat /\ 0 \in Nat
    BY <1>1
  <2> HIDE DEF a, b, z, T
  <2> QED  BY <1>1, <1>4, <2>1, SeqDef
<1>6. DOMAIN a = 1 .. n /\ DOMAIN b = 1 .. n + 1 /\ DOMAIN z = {}
  OBVIOUS
<1>7. \A i \in 1 .. n : b[i] = a[i]
  BY <1>1
<1>8. b[n + 1] = Acq(Trace[c][w]) /\ Acq(Trace[c][w]) \in T
  <2>1. n + 1 \in 1 .. n + 1 /\ f + (n + 1) - 1 = w /\ w \in f .. w
    BY <1>1
  <2> HIDE DEF n
  <2> QED  BY ONLY <2>1
<1> HIDE DEF a, b, z, T
<1>9. Len(a) = n /\ Len(b) = n + 1 /\ Len(z) = 0
  <2>1. Len(a) \in Nat /\ DOMAIN a = 1 .. Len(a) /\ Len(b) \in Nat /\ DOMAIN b = 1 .. Len(b)
        /\ Len(z) \in Nat /\ DOMAIN z = 1 .. Len(z)
    BY <1>5, LenProperties
  <2> QED  BY <1>1, <1>6, <2>1
<1>10. z = << >>
  BY <1>5, <1>9, EmptySeq
<1>11. Append(a, Acq(Trace[c][w])) = b
  <2> DEFINE d == Append(a, Acq(Trace[c][w]))
  <2>1. /\ d \in Seq(T) /\ Len(d) = n + 1
        /\ \A i \in 1 .. n : d[i] = a[i]
        /\ d[n + 1] = Acq(Trace[c][w])
    BY <1>5, <1>8, <1>9, AppendProperties
  <2> HIDE DEF d
  <2>2. \A i \in 1 .. n + 1 : d[i] = b[i]
    BY <1>1, <1>7, <1>8, <2>1
  <2>3. d = b
    BY <1>5, <1>9, <2>1, <2>2, SeqEqual
  <2> QED  BY <2>3 DEF d
<1> QED  BY <1>1, <1>3, <1>9, <1>10, <1>11

-----------------------------------------------------------------------------
(* What the invariant says.                                                *)

\* The pieces at a client.
LEMMA AtClient ==
  ASSUME TxnInv, NEW c \in Clients
  PROVE  /\ ClientTypes(c) /\ Place(c) /\ Counts(c)
         /\ Rejects(c) /\ Grants(c) /\ Nodes(c)
         /\ \A l \in Locks : /\ OnTheWay(c, l) /\ AtOnePlace(c, l) /\ NothingBehind(c, l)
                             /\ Line(l) /\ Owing(l)
BY DEF TxnInv, TypeOK, ClientInv

\* The queue of a transaction.
LEMMA NodeFacts ==
  ASSUME TxnInv, NEW c \in Clients, NEW t \in Txns(c)
  PROVE  LET q == txn_queues[c][t]
         IN  /\ q \in Seq(Node(c)) /\ Len(q) \in Nat /\ DOMAIN q = 1 .. Len(q)
             /\ txn_r[c][t] \in Nat /\ txn_s[c][t] \in Nat
             /\ txn_s[c][t] <= txn_r[c][t] /\ txn_r[c][t] <= Len(q)
             /\ Len(q) <= txn_r[c][t] + 1
             /\ Len(q) = txn_r[c][t] \/ (received[c] # << >> /\ Head(received[c]).txn = t)
             /\ Len(q) # 0 => AllSent(c) /\ t = last_txn[c]
             /\ Len(q) <= LocksEachTxn(c, t) /\ LocksEachTxn(c, t) \in Nat
             /\ Len(q) = LocksEachTxn(c, t) =>
                   \A e \in Entries(c, t) : \E i \in 1 .. Len(q) : q[i] = e
<1> DEFINE q == txn_queues[c][t]
<1>1. ClientTypes(c) /\ Counts(c) /\ Nodes(c)
  BY AtClient
<1>2. q \in Seq(Node(c)) /\ txn_r[c][t] \in Nat /\ txn_s[c][t] \in Nat
  BY <1>1 DEF ClientTypes
<1>3. Len(q) \in Nat /\ DOMAIN q = 1 .. Len(q)
  BY <1>2, LenProperties
<1>4. /\ txn_s[c][t] <= txn_r[c][t]
      /\ Len(q) = txn_r[c][t] +
            (IF received[c] # << >> /\ Head(received[c]).txn = t THEN 1 ELSE 0)
  BY <1>1 DEF Counts
<1>5. \A i \in 1 .. Len(q) :
         /\ AllSent(c) /\ q[i] \in Entries(c, last_txn[c]) /\ q[i].txn = t
         /\ \A j \in 1 .. Len(q) : q[j].lock = q[i].lock => j = i
  BY <1>1, <1>3 DEF Nodes, InPlay
<1>6. ASSUME Len(q) # 0  PROVE AllSent(c) /\ t = last_txn[c]
  <2>1. 1 \in 1 .. Len(q)
    BY <1>3, <1>6
  <2> QED  BY <1>5, <2>1, EntryFacts
<1>7. \A i \in 1 .. Len(q) : q[i] \in Entries(c, t)
  <2> SUFFICES ASSUME NEW i \in 1 .. Len(q)  PROVE q[i] \in Entries(c, t)
    OBVIOUS
  <2>1. Len(q) # 0
    BY <1>3
  <2> QED  BY <1>5, <1>6, <2>1
<1>8. \A i, j \in 1 .. Len(q) : q[i].lock = q[j].lock => i = j
  BY <1>5
<1> HIDE DEF q
<1>9. /\ Len(q) <= LocksEachTxn(c, t) /\ LocksEachTxn(c, t) \in Nat
      /\ Len(q) = LocksEachTxn(c, t) =>
            \A e \in Entries(c, t) : \E i \in 1 .. Len(q) : q[i] = e
  <2>1. c \in Clients
    OBVIOUS
  <2> QED  BY ONLY <1>2, <1>3, <1>7, <1>8, <2>1, NodesBounded
<1>10. txn_r[c][t] <= Len(q) /\ Len(q) <= txn_r[c][t] + 1
       /\ (Len(q) = txn_r[c][t] \/ (received[c] # << >> /\ Head(received[c]).txn = t))
  BY <1>2, <1>4
<1>11. q = txn_queues[c][t]
  BY DEF q
<1> QED  BY <1>2, <1>3, <1>4, <1>6, <1>9, <1>10, <1>11

\* A grant just received is of the attempt, and not counted.
LEMMA ReceivedFacts ==
  ASSUME TxnInv, NEW c \in Clients, received[c] # << >>
  PROVE  /\ Head(received[c]).txn = last_txn[c]
         /\ AllSent(c)
         /\ last_txn[c] \in Txns(c)
         /\ Len(txn_queues[c][last_txn[c]]) = txn_r[c][last_txn[c]] + 1
         /\ \E e \in Node(c) : received[c] = << e >>
<1>1. ClientTypes(c) /\ Counts(c)
  BY AtClient
<1>2. PICK e \in Node(c) : received[c] = << e >>
  BY <1>1 DEF ClientTypes
<1>3. Head(received[c]) = e /\ e.txn \in Txns(c)
  BY <1>2, ShortQueues DEF Node
<1>4. Len(txn_queues[c][e.txn]) = txn_r[c][e.txn] + 1
  BY <1>1, <1>3 DEF Counts
<1>5. Len(txn_queues[c][e.txn]) # 0
  BY <1>3, <1>4, NodeFacts
<1>6. AllSent(c) /\ e.txn = last_txn[c]
  BY <1>3, <1>5, NodeFacts
<1> QED  BY <1>2, <1>3, <1>4, <1>6

\* Whatever the client has asked for is of the attempt.
LEMMA AskedInPlay ==
  ASSUME TxnInv, NEW c \in Clients, NEW l \in Locks,
         Asking(c, l) \/ SentBack(c, l) \/ InLine(c, l) \/ Granted(c, l) \/ Noted(c, l)
  PROVE  \E e \in Entries(c, last_txn[c]) : AllSent(c) /\ e.lock = l
<1>1. /\ OnTheWay(c, l) /\ Rejects(c) /\ Grants(c) /\ Nodes(c) /\ Line(l)
  BY AtClient
<1>2. CASE Asking(c, l)
  <2>1. PICK i \in DOMAIN toLock[c][l] : toLock[c][l][i].op = "acquire"
    BY <1>2 DEF Asking
  <2>2. \E e : InPlay(c, e) /\ e.lock = l
    <3>1. CASE toLock[c][l] = << >>
      BY <2>1, <3>1, ShortQueues
    <3>2. ASSUME NEW o \in Node(c), toLock[c][l] = << Rel(o) >>  PROVE FALSE
      <4>1. i = 1 /\ toLock[c][l][1] = Rel(o)
        BY <2>1, <3>2, ShortQueues
      <4> QED  BY <2>1, <4>1 DEF Rel
    <3> QED  BY <1>1, <3>1, <3>2 DEF OnTheWay
  <2> QED  BY <2>2 DEF InPlay
<1>3. CASE SentBack(c, l)
  BY <1>1, <1>3 DEF SentBack, Rejects, InPlay
<1>4. CASE InLine(c, l)
  <2>1. PICK i \in DOMAIN waiting[l] : waiting[l][i].client = c
    BY <1>4 DEF InLine
  <2>2. InPlay(c, EntryOf(waiting[l][i], l)) /\ EntryOf(waiting[l][i], l).lock = l
    BY <1>1, <2>1 DEF Line, EntryOf
  <2> QED  BY <2>2 DEF InPlay
<1>5. CASE Granted(c, l)
  BY <1>1, <1>5 DEF Granted, Grants, InPlay
<1>6. CASE Noted(c, l)
  BY <1>1, <1>6 DEF Noted, Nodes, InPlay
<1> QED  BY <1>2, <1>3, <1>4, <1>5, <1>6

\* Without an ACQUIRE, there is at most one RELEASE on the way.
LEMMA OnlyRelease ==
  ASSUME TxnInv, NEW c \in Clients, NEW l \in Locks, ~ Asking(c, l)
  PROVE  \/ toLock[c][l] = << >>
         \/ \E o \in Node(c) : o.lock = l /\ Holds(c, o) /\ toLock[c][l] = << Rel(o) >>
<1>1. OnTheWay(c, l)
  BY AtClient
<1>2. ASSUME NEW e, toLock[c][l] = << Acq(e) >>  PROVE FALSE
  <2>1. 1 \in DOMAIN toLock[c][l] /\ toLock[c][l][1] = Acq(e)
    BY <1>2, ShortQueues
  <2> QED  BY <2>1 DEF Asking, Acq
<1>3. ASSUME NEW o, NEW e, toLock[c][l] = << Rel(o), Acq(e) >>  PROVE FALSE
  <2>1. 2 \in DOMAIN toLock[c][l] /\ toLock[c][l][2] = Acq(e)
    BY <1>3, ShortQueues
  <2> QED  BY <2>1 DEF Asking, Acq
<1> QED  BY <1>1, <1>2, <1>3 DEF OnTheWay

\* Before all ACQUIREs were handed over nothing is asked for.
LEMMA NotAllSent ==
  ASSUME TxnInv, NEW c \in Clients, ~ AllSent(c)
  PROVE  /\ \A l \in Locks : /\ ~ Asking(c, l) /\ ~ SentBack(c, l) /\ ~ InLine(c, l)
                             /\ ~ Granted(c, l) /\ ~ Noted(c, l)
         /\ \A t \in Txns(c) : Len(txn_queues[c][t]) = 0
         /\ received[c] = << >>
         /\ rejected[c] = {} /\ grants[c] = {}
<1>1. Rejects(c) /\ Grants(c)
  BY AtClient
<1>2. \A l \in Locks : /\ ~ Asking(c, l) /\ ~ SentBack(c, l) /\ ~ InLine(c, l)
                       /\ ~ Granted(c, l) /\ ~ Noted(c, l)
  BY AskedInPlay
<1>3. \A t \in Txns(c) : Len(txn_queues[c][t]) = 0
  BY NodeFacts
<1>4. received[c] = << >>
  BY ReceivedFacts
<1>5. rejected[c] = {} /\ grants[c] = {}
  BY <1>1 DEF Rejects, Grants, InPlay
<1> QED  BY <1>2, <1>3, <1>4, <1>5

\* When every grant was counted all the attempt's locks are nodes, and nothing
\* else is asked for.
LEMMA CompleteFacts ==
  ASSUME TxnInv, NEW c \in Clients, Complete(c)
  PROVE  /\ \A l \in Locks : /\ ~ Asking(c, l) /\ ~ SentBack(c, l) /\ ~ InLine(c, l)
                             /\ ~ Granted(c, l)
         /\ \A e \in Entries(c, last_txn[c]) :
               \E i \in DOMAIN txn_queues[c][last_txn[c]] :
                   txn_queues[c][last_txn[c]][i] = e
         /\ Len(txn_queues[c][last_txn[c]]) = txn_r[c][last_txn[c]]
         /\ \A t \in Txns(c) : t # last_txn[c] => Len(txn_queues[c][t]) = 0
         /\ received[c] = << >>
         /\ rejected[c] = {} /\ grants[c] = {}
         /\ last_txn[c] \in Txns(c)
<1> DEFINE u == last_txn[c]
           q == txn_queues[c][u]
<1>1. ClientTypes(c) /\ Rejects(c) /\ Grants(c) /\ u \in Txns(c)
  BY AtClient DEF ClientTypes
<1>2. txn_r[c][u] = LocksEachTxn(c, u)
  BY DEF Complete
<1>3. /\ Len(q) = txn_r[c][u] /\ DOMAIN q = 1 .. Len(q)
      /\ \A e \in Entries(c, u) : \E i \in 1 .. Len(q) : q[i] = e
  <2>1. /\ Len(q) \in Nat /\ txn_r[c][u] \in Nat /\ txn_r[c][u] <= Len(q)
        /\ Len(q) <= LocksEachTxn(c, u)
        /\ DOMAIN q = 1 .. Len(q)
        /\ Len(q) = LocksEachTxn(c, u) =>
              \A e \in Entries(c, u) : \E i \in 1 .. Len(q) : q[i] = e
    BY <1>1, NodeFacts
  <2> HIDE DEF q
  <2>2. Len(q) = txn_r[c][u]
    BY <1>2, <2>1
  <2> QED  BY <1>2, <2>1, <2>2
<1>4. received[c] = << >>
  <2> SUFFICES ASSUME received[c] # << >>  PROVE FALSE
    OBVIOUS
  <2>1. Len(q) = txn_r[c][u] + 1 /\ txn_r[c][u] \in Nat
    BY <1>1, ReceivedFacts, NodeFacts
  <2> HIDE DEF q
  <2> QED  BY <1>3, <2>1
<1>5. ASSUME NEW l \in Locks, NEW e \in Entries(c, u), e.lock = l
      PROVE  Noted(c, l)
  <2>1. PICK i \in 1 .. Len(q) : q[i] = e
    BY <1>3
  <2>2. i \in DOMAIN txn_queues[c][u] /\ txn_queues[c][u][i].lock = l
    BY <1>3, <1>5, <2>1
  <2> QED  BY <1>1, <2>2 DEF Noted
<1>6. ASSUME NEW l \in Locks
      PROVE  /\ ~ Asking(c, l) /\ ~ SentBack(c, l) /\ ~ InLine(c, l) /\ ~ Granted(c, l)
  <2>1. AtOnePlace(c, l)
    BY AtClient
  <2> SUFFICES ASSUME Asking(c, l) \/ SentBack(c, l) \/ InLine(c, l) \/ Granted(c, l)
               PROVE  FALSE
    OBVIOUS
  <2>2. \E e \in Entries(c, u) : e.lock = l
    BY AskedInPlay
  <2>3. Noted(c, l)
    BY <1>5, <2>2
  <2> QED  BY <2>1, <2>3 DEF AtOnePlace
<1>7. rejected[c] = {}
  <2> SUFFICES ASSUME NEW e \in rejected[c]  PROVE FALSE
    OBVIOUS
  <2>1. e \in Entries(c, u)
    BY <1>1 DEF Rejects, InPlay
  <2>2. e.lock \in Locks
    BY <2>1, EntryFacts
  <2> QED  BY <1>6, <2>2 DEF SentBack
<1>8. grants[c] = {}
  <2> SUFFICES ASSUME NEW e \in grants[c]  PROVE FALSE
    OBVIOUS
  <2>1. e \in Entries(c, u)
    BY <1>1 DEF Grants, InPlay
  <2>2. e.lock \in Locks
    BY <2>1, EntryFacts
  <2> QED  BY <1>6, <2>2 DEF Granted
<1>9. \A t \in Txns(c) : t # u => Len(txn_queues[c][t]) = 0
  BY NodeFacts
<1> QED  BY <1>1, <1>3, <1>4, <1>6, <1>7, <1>8, <1>9

-----------------------------------------------------------------------------
(* The properties follow.                                                  *)

\* All grants counted, all nodes held: a node is of the attempt, each once.
LEMMA InvCommit == TxnInv => CommitHoldsAll
<1> SUFFICES ASSUME TxnInv, NEW c \in Clients, Complete(c), ~ deadlocked[c][last_txn[c]],
                    NEW e \in Entries(c, last_txn[c])
             PROVE  Holds(c, e) /\ ~ Arrives("release", c, e.lock)
  BY DEF CommitHoldsAll
<1> DEFINE u == last_txn[c]
           q == txn_queues[c][u]
<1>1. u \in Txns(c) /\ \E i \in DOMAIN q : q[i] = e
  BY CompleteFacts
<1>2. PICK i \in DOMAIN q : q[i] = e
  BY <1>1
<1>3. txn_s[c][u] = 0 /\ DOMAIN q = 1 .. Len(q) /\ Len(q) \in Nat
  BY <1>1, AtClient, NodeFacts DEF Counts
<1>4. i > txn_s[c][u]
  BY <1>2, <1>3
<1>5. Nodes(c)
  BY AtClient
<1>6. Holds(c, e) /\ toLock[c][e.lock] = << >>
  BY <1>1, <1>2, <1>4, <1>5 DEF Nodes
<1> QED  BY <1>6 DEF Arrives

\* The list is as long as the counters say, up to the grant just received.
LEMMA InvTraversal == TxnInv => TraversalSafe
<1> SUFFICES ASSUME TxnInv, NEW c \in Clients, NEW t \in Txns(c)
             PROVE  /\ txn_s[c][t] <= txn_r[c][t]
                    /\ txn_r[c][t] <= Len(txn_queues[c][t])
                    /\ txn_r[c][t] <= LocksEachTxn(c, t)
  BY DEF TraversalSafe
<1> DEFINE n == Len(txn_queues[c][t])
<1>1. /\ txn_s[c][t] <= txn_r[c][t] /\ txn_r[c][t] \in Nat /\ n \in Nat
      /\ txn_r[c][t] <= n /\ n <= LocksEachTxn(c, t) /\ LocksEachTxn(c, t) \in Nat
  BY NodeFacts
<1> HIDE DEF n
<1>2. txn_r[c][t] <= LocksEachTxn(c, t)
  BY <1>1
<1> QED  BY <1>1, <1>2 DEF n

\* What is owed is on its way, or a node, or granted.
LEMMA InvAccounted == TxnInv => LocksAccounted
<1> SUFFICES ASSUME TxnInv, NEW c \in Clients, NEW t \in Txns(c), NEW e \in Entries(c, t)
             PROVE  Owed(c, e) = IF Holds(c, e) THEN 1 ELSE 0
  BY DEF LocksAccounted
<1> DEFINE l == e.lock
           G == grants[c] \cap {e}
           U == UnreleasedNodes(c, e)
           R == ReleasesSent(c, e)
<1>1. /\ l \in Locks /\ e.txn = t /\ RequestOf(c, e).client = c
      /\ EntryOf(RequestOf(c, e), l) = e
  BY EntryFacts
<1>2. /\ OnTheWay(c, l) /\ AtOnePlace(c, l) /\ NothingBehind(c, l)
      /\ Grants(c) /\ Nodes(c) /\ Owing(l)
  BY <1>1, AtClient
<1>3. e \in grants[c] => Holds(c, e) /\ Granted(c, l) /\ toLock[c][l] = << >>
  BY <1>2 DEF Grants, Granted, NothingBehind
<1>4. G = IF e \in grants[c] THEN {e} ELSE {}
  OBVIOUS
<1>5. ASSUME NEW i \in U
      PROVE  /\ Noted(c, l) /\ Holds(c, e) /\ toLock[c][l] = << >> /\ U = {i}
             /\ Unreleased(c, e)
  <2>1. /\ i \in DOMAIN txn_queues[c][t] /\ i > txn_s[c][t] /\ txn_queues[c][t][i] = e
    BY <1>1 DEF UnreleasedNodes
  <2>2. Noted(c, l)
    BY <2>1 DEF Noted
  <2>3. /\ Holds(c, e) /\ toLock[c][l] = << >>
        /\ \A j \in DOMAIN txn_queues[c][t] : txn_queues[c][t][j].lock = e.lock => j = i
    BY <1>2, <2>1 DEF Nodes
  <2>4. U = {i}
    BY <1>1, <2>1, <2>3 DEF UnreleasedNodes
  <2>5. Unreleased(c, e)
    BY <1>1, <2>1 DEF Unreleased
  <2> QED  BY <2>2, <2>3, <2>4, <2>5
<1>6. R = IF ReleaseSent(c, e) THEN {1} ELSE {}
  <2>1. Rel(e) = [op |-> "release", entry |-> e]
    BY DEF Rel
  <2>2. R = {i \in DOMAIN toLock[c][l] : toLock[c][l][i] = Rel(e)}
    BY <2>1 DEF ReleasesSent
  <2>3. ASSUME NEW f  PROVE Acq(f) # Rel(e)
    BY DEF Acq, Rel
  <2>4. CASE toLock[c][l] = << >>
    BY <2>2, <2>4, ShortQueues DEF ReleaseSent
  <2>5. ASSUME NEW o, toLock[c][l] = << Rel(o) >>
        PROVE  R = IF ReleaseSent(c, e) THEN {1} ELSE {}
    <3>1. DOMAIN toLock[c][l] = {1} /\ toLock[c][l] # << >>
      BY <2>5, ShortQueues
    <3> QED  BY <2>2, <3>1 DEF ReleaseSent
  <2>6. ASSUME NEW f, toLock[c][l] = << Acq(f) >>
        PROVE  R = IF ReleaseSent(c, e) THEN {1} ELSE {}
    <3>1. DOMAIN toLock[c][l] = {1} /\ toLock[c][l] # << >>
      BY <2>6, ShortQueues
    <3> QED  BY <2>2, <3>1 DEF ReleaseSent
  <2>7. ASSUME NEW o, NEW f, toLock[c][l] = << Rel(o), Acq(f) >>
        PROVE  R = IF ReleaseSent(c, e) THEN {1} ELSE {}
    <3>1. DOMAIN toLock[c][l] = {1, 2} /\ toLock[c][l] # << >>
      BY <2>7, ShortQueues
    <3>2. toLock[c][l][2] # Rel(e)
      BY <2>3, <2>7
    <3> QED  BY <2>2, <3>1, <3>2 DEF ReleaseSent
  <2> QED  BY <1>2, <2>4, <2>5, <2>6, <2>7 DEF OnTheWay
<1>7. ReleaseSent(c, e) => Holds(c, e) /\ toLock[c][l] # << >>
  <2> SUFFICES ASSUME ReleaseSent(c, e)  PROVE Holds(c, e) /\ toLock[c][l] # << >>
    OBVIOUS
  <2>1. toLock[c][l] # << >> /\ toLock[c][l][1] = Rel(e)
    BY DEF ReleaseSent
  <2>2. ASSUME NEW f, toLock[c][l] = << Acq(f) >>  PROVE FALSE
    <3>1. Rel(e) = Acq(f)
      BY <2>1, <2>2
    <3> QED  BY <3>1 DEF Rel, Acq
  <2>3. ASSUME NEW o, toLock[c][l] = << Rel(o) >> \/ \E f : toLock[c][l] = << Rel(o), Acq(f) >>
        PROVE  o = e
    <3>1. Rel(o) = Rel(e)
      BY <2>1, <2>3
    <3> QED  BY <3>1 DEF Rel
  <2>4. Holds(c, e)
    BY <1>2, <2>1, <2>2, <2>3 DEF OnTheWay
  <2> QED  BY <2>1, <2>4
<1>8. Holds(c, e) => ToDo(c, e)
  <2> SUFFICES ASSUME Holds(c, e)  PROVE ToDo(c, e)
    OBVIOUS
  <2>1. RequestOf(c, e) \in holders[l]
    BY DEF Holds
  <2> QED  BY <1>1, <1>2, <2>1 DEF Owing
<1>9. Unreleased(c, e) => U # {}
  BY <1>1 DEF Unreleased, UnreleasedNodes
<1>10. /\ Cardinality({}) = 0 /\ \A x : Cardinality({x}) = 1
  BY FS_EmptySet, FS_Singleton
<1>11. Owed(c, e) = Cardinality(G) + Cardinality(U) + Cardinality(R)
  BY DEF Owed
<1>12. Granted(c, l) => ~ Noted(c, l)
  BY <1>2 DEF AtOnePlace
<1> HIDE DEF G, U, R, l
<1>13. CASE e \in grants[c]
  <2>1. U = {} /\ G = {e} /\ R = {}
    BY <1>3, <1>4, <1>5, <1>6, <1>7, <1>12, <1>13
  <2>2. Cardinality(G) = 1 /\ Cardinality(U) = 0 /\ Cardinality(R) = 0
    BY <1>10, <2>1
  <2> QED  BY <1>3, <1>11, <1>13, <2>2
<1>14. CASE e \notin grants[c] /\ U # {}
  <2>1. PICK i \in U : TRUE
    BY <1>14
  <2>2. U = {i} /\ G = {} /\ R = {} /\ Holds(c, e)
    BY <1>4, <1>5, <1>6, <1>7, <1>14, <2>1
  <2>3. Cardinality(G) = 0 /\ Cardinality(U) = 1 /\ Cardinality(R) = 0
    BY <1>10, <2>2
  <2> QED  BY <1>11, <2>2, <2>3
<1>15. CASE e \notin grants[c] /\ U = {} /\ ReleaseSent(c, e)
  <2>1. U = {} /\ G = {} /\ R = {1} /\ Holds(c, e)
    BY <1>4, <1>6, <1>7, <1>15
  <2>2. Cardinality(G) = 0 /\ Cardinality(U) = 0 /\ Cardinality(R) = 1
    BY <1>10, <2>1
  <2> QED  BY <1>11, <2>1, <2>2
<1>16. CASE e \notin grants[c] /\ U = {} /\ ~ ReleaseSent(c, e)
  <2>1. U = {} /\ G = {} /\ R = {} /\ ~ Holds(c, e)
    BY <1>4, <1>6, <1>8, <1>9, <1>16 DEF ToDo
  <2>2. Cardinality(G) = 0 /\ Cardinality(U) = 0 /\ Cardinality(R) = 0
    BY <1>10, <2>1
  <2> QED  BY <1>11, <2>1, <2>2
<1> QED  BY <1>13, <1>14, <1>15, <1>16

-----------------------------------------------------------------------------
(* What an action leaves alone.                                            *)

\* What is in play depends on where the TX lcore is only.
LEMMA PlayFrame ==
  ASSUME NEW c \in Clients, idx'[c] = idx[c], last_txn'[c] = last_txn[c]
  PROVE  /\ AllSent(c)' <=> AllSent(c)
         /\ \A e : InPlay(c, e)' <=> InPlay(c, e)
<1>1. AllSent(c)' <=> AllSent(c)
  BY DEF AllSent, Entry, Wrapped
<1>2. Entries(c, last_txn[c])' = Entries(c, last_txn[c])
  BY DEF Entries
<1> QED  BY <1>1, <1>2 DEF InPlay

\* A lock nothing happens to.
LEMMA LockFrame ==
  ASSUME TxnInv, NEW c \in Clients, NEW l \in Locks,
         toLock'[c][l] = toLock[c][l],
         \A e : InPlay(c, e) => InPlay(c, e)',
         \A e : e.lock = l /\ Holds(c, e) => Holds(c, e)',
         SentBack(c, l)' <=> SentBack(c, l), InLine(c, l)' <=> InLine(c, l),
         Granted(c, l)' <=> Granted(c, l), Noted(c, l)' <=> Noted(c, l)
  PROVE  OnTheWay(c, l)' /\ AtOnePlace(c, l)' /\ NothingBehind(c, l)'
<1>1. OnTheWay(c, l) /\ AtOnePlace(c, l) /\ NothingBehind(c, l)
  BY AtClient
<1>2. Node(c)' = Node(c) /\ \A e : Rel(e)' = Rel(e) /\ Acq(e)' = Acq(e)
  BY DEF Node, Rel, Acq, Txns
<1>3. OnTheWay(c, l)'
  BY <1>1, <1>2 DEF OnTheWay
<1>4. Asking(c, l)' <=> Asking(c, l)
  BY DEF Asking
<1>5. AtOnePlace(c, l)'
  BY <1>1, <1>4 DEF AtOnePlace
<1>6. NothingBehind(c, l)'
  BY <1>1 DEF NothingBehind
<1> QED  BY <1>3, <1>5, <1>6

\* Of a client's own variables, nothing.
SameClient(c) ==
    /\ idx'[c] = idx[c] /\ last_txn'[c] = last_txn[c] /\ last_txn_idx'[c] = last_txn_idx[c]
    /\ txn_s'[c] = txn_s[c] /\ deadlocked'[c] = deadlocked[c] /\ tx_mbufs'[c] = tx_mbufs[c]
    /\ received'[c] = received[c] /\ txn_queues'[c] = txn_queues[c] /\ txn_r'[c] = txn_r[c]
    /\ toLock'[c] = toLock[c] /\ rejected'[c] = rejected[c] /\ grants'[c] = grants[c]

\* A client nothing happens to.
LEMMA ClientFrame ==
  ASSUME TxnInv, NEW c \in Clients, SameClient(c),
         \A e : Holds(c, e) => Holds(c, e)',
         \A l \in Locks : InLine(c, l)' <=> InLine(c, l)
  PROVE  /\ ClientInv(c)' /\ ClientTypes(c)'
         /\ \A e : InPlay(c, e)' <=> InPlay(c, e)
         /\ \A e : ToDo(c, e) => ToDo(c, e)'
<1>1. /\ ClientTypes(c) /\ Place(c) /\ Counts(c) /\ Rejects(c) /\ Grants(c) /\ Nodes(c)
  BY AtClient
<1>2. /\ AllSent(c)' <=> AllSent(c)
      /\ \A e : InPlay(c, e)' <=> InPlay(c, e)
  BY PlayFrame DEF SameClient
<1>3. ClientTypes(c)'
  BY <1>1 DEF ClientTypes, SameClient
<1>4. Place(c)'
  BY <1>1, <1>2 DEF Place, SameClient, Acquires, Acq
<1>5. Counts(c)'
  BY <1>1 DEF Counts, SameClient
<1>6. Rejects(c)' /\ Grants(c)'
  BY <1>1, <1>2 DEF Rejects, Grants, SameClient
<1>7. Nodes(c)'
  BY <1>1, <1>2 DEF Nodes, SameClient
<1>8. ASSUME NEW l \in Locks
      PROVE  OnTheWay(c, l)' /\ AtOnePlace(c, l)' /\ NothingBehind(c, l)'
  <2>1. /\ toLock'[c][l] = toLock[c][l]
        /\ SentBack(c, l)' <=> SentBack(c, l)
        /\ Granted(c, l)' <=> Granted(c, l)
        /\ Noted(c, l)' <=> Noted(c, l)
    BY DEF SameClient, SentBack, Granted, Noted
  <2> QED  BY <1>2, <2>1, LockFrame
<1>9. \A e : ToDo(c, e) => ToDo(c, e)'
  BY DEF SameClient, ToDo, ReleaseSent, Unreleased, Rel
<1> QED  BY <1>2, <1>3, <1>4, <1>5, <1>6, <1>7, <1>8, <1>9 DEF ClientInv

\* An attempt that goes on keeps its place in every line.
LEMMA LineFrame ==
  ASSUME TxnInv, NEW l \in Locks, waiting' = waiting,
         \A d \in Clients : \A e : e.lock = l /\ InPlay(d, e) /\ InLine(d, l) => InPlay(d, e)'
  PROVE  Line(l)'
<1>1. Line(l)
  BY DEF TxnInv
<1>2. waiting[l] \in Seq(Request)
  BY DEF TxnInv, TypeOK
<1>3. \A i \in DOMAIN waiting[l] : waiting[l][i].client \in Clients
  <2>1. \A i \in DOMAIN waiting[l] : waiting[l][i] \in Request
    BY <1>2, ElementOfSeq, LenProperties
  <2> QED  BY <2>1 DEF Request
<1>4. \A i \in DOMAIN waiting[l] : /\ EntryOf(waiting[l][i], l).lock = l
                                   /\ InLine(waiting[l][i].client, l)
  BY DEF EntryOf, InLine
<1> QED  BY <1>1, <1>3, <1>4 DEF Line, EntryOf

\* What is owed stays owed.
LEMMA OwingFrame ==
  ASSUME TxnInv, NEW l \in Locks, holders'[l] \subseteq holders[l],
         \A d \in Clients : \A e : e.lock = l /\ ToDo(d, e) => ToDo(d, e)'
  PROVE  Owing(l)'
<1>1. Owing(l) /\ holders[l] \in SUBSET Request
  BY DEF TxnInv, TypeOK
<1>2. \A h \in holders[l] : h.client \in Clients
  BY <1>1 DEF Request
<1>3. \A h \in holders'[l] : EntryOf(h, l)' = EntryOf(h, l) /\ EntryOf(h, l).lock = l
  BY DEF EntryOf
<1> QED  BY <1>1, <1>2, <1>3 DEF Owing

-----------------------------------------------------------------------------
(* The start.                                                              *)

\* Nothing asked for, nothing held.
LEMMA TxnInit == Init => TxnInv
<1> SUFFICES ASSUME Init  PROVE TxnInv
  OBVIOUS
<1>1. \A c \in Clients : /\ Len(Trace[c]) \in Nat \ {0} /\ Trace[c][1].txn \in Nat \ {0}
                         /\ 0 \in Txns(c)
  BY TraceFacts DEF TraceEntry, Txns
<1>2. /\ \A S : << >> \in Seq(S)
      /\ Len(<< >>) = 0 /\ DOMAIN << >> = {}
  BY EmptySeq, ShortQueues
<1>3. ASSUME NEW c \in Clients
      PROVE  /\ idx[c] = 1 /\ last_txn[c] = 0 /\ last_txn_idx[c] = 1
             /\ txn_s[c] = [t \in Txns(c) |-> 0]
             /\ deadlocked[c] = [t \in Txns(c) |-> FALSE]
             /\ tx_mbufs[c] = << >> /\ received[c] = << >>
             /\ txn_queues[c] = [t \in Txns(c) |-> << >>]
             /\ txn_r[c] = [t \in Txns(c) |-> 0]
             /\ toLock[c] = [l \in Locks |-> << >>]
             /\ rejected[c] = {} /\ grants[c] = {}
  BY DEF Init, PerTxn
<1>4. ASSUME NEW c \in Clients  PROVE ClientTypes(c)
  <2>1. 1 \in 1 .. Len(Trace[c]) /\ 1 \in 1 .. Len(Trace[c]) + 1
    BY <1>1
  <2>2. /\ [t \in Txns(c) |-> 0] \in [Txns(c) -> Nat]
        /\ [t \in Txns(c) |-> FALSE] \in [Txns(c) -> BOOLEAN]
        /\ [t \in Txns(c) |-> << >>] \in [Txns(c) -> Seq(Node(c))]
    BY <1>2
  <2>3. DOMAIN toLock[c] = Locks
    BY <1>3
  <2> QED  BY <1>1, <1>3, <2>1, <2>2, <2>3 DEF ClientTypes
<1>5. TypeOK
  <2>1. /\ DOMAIN idx = Clients /\ DOMAIN last_txn = Clients
        /\ DOMAIN last_txn_idx = Clients /\ DOMAIN txn_s = Clients
        /\ DOMAIN deadlocked = Clients /\ DOMAIN tx_mbufs = Clients
        /\ DOMAIN received = Clients /\ DOMAIN txn_queues = Clients
        /\ DOMAIN txn_r = Clients /\ DOMAIN toLock = Clients
        /\ DOMAIN rejected = Clients /\ DOMAIN grants = Clients
    BY DEF Init, PerTxn
  <2>2. holders \in [Locks -> SUBSET Request] /\ waiting \in [Locks -> Seq(Request)]
    BY <1>2 DEF Init
  <2> QED  BY <1>4, <2>1, <2>2 DEF TypeOK
<1>6. ASSUME NEW c \in Clients  PROVE ClientInv(c)
  <2>1. AllSent(c)
    <3>1. Wrapped(c) = 1
      BY <1>1, <1>3 DEF Wrapped
    <3> QED  BY <1>1, <1>3, <3>1 DEF AllSent, Entry
  <2>2. Place(c)
    BY <1>3, <2>1 DEF Place
  <2>3. Counts(c)
    <3> SUFFICES ASSUME NEW t \in Txns(c)
                 PROVE  /\ txn_s[c][t] <= txn_r[c][t]
                        /\ Len(txn_queues[c][t]) = txn_r[c][t] + 0
                        /\ txn_s[c][t] = 0
      BY <1>3 DEF Counts
    <3>1. txn_s[c][t] = 0 /\ txn_r[c][t] = 0 /\ txn_queues[c][t] = << >>
      <4>1. /\ txn_s[c] = [x \in Txns(c) |-> 0] /\ txn_r[c] = [x \in Txns(c) |-> 0]
            /\ txn_queues[c] = [x \in Txns(c) |-> << >>]
        BY <1>3
      <4> QED  BY ONLY <4>1, t \in Txns(c), Zenon
    <3> QED  BY <1>2, <3>1
  <2>4. Rejects(c) /\ Grants(c)
    BY <1>3 DEF Rejects, Grants
  <2>5. ASSUME NEW t \in Txns(c)  PROVE DOMAIN txn_queues[c][t] = {}
    <3>1. txn_queues[c] = [x \in Txns(c) |-> << >>]
      BY <1>3
    <3>2. txn_queues[c][t] = << >>
      BY ONLY <3>1, t \in Txns(c), Zenon
    <3> QED  BY <1>2, <3>2
  <2>6. Nodes(c)
    BY <2>5 DEF Nodes
  <2>7. ASSUME NEW l \in Locks
        PROVE  OnTheWay(c, l) /\ AtOnePlace(c, l) /\ NothingBehind(c, l)
    <3>1. toLock[c][l] = << >> /\ DOMAIN waiting[l] = {} /\ DOMAIN toLock[c][l] = {}
      BY <1>3 DEF Init
    <3>2. /\ ~ Asking(c, l) /\ ~ SentBack(c, l) /\ ~ InLine(c, l)
          /\ ~ Granted(c, l) /\ ~ Noted(c, l)
      BY <1>3, <2>5, <3>1 DEF Asking, SentBack, InLine, Granted, Noted
    <3> QED  BY <3>1, <3>2 DEF OnTheWay, AtOnePlace, NothingBehind
  <2> QED  BY <2>2, <2>3, <2>4, <2>6, <2>7 DEF ClientInv
<1>7. ASSUME NEW l \in Locks  PROVE Line(l) /\ Owing(l)
  <2>1. DOMAIN waiting[l] = {} /\ holders[l] = {}
    BY DEF Init
  <2> QED  BY <2>1 DEF Line, Owing
<1> QED  BY <1>5, <1>6, <1>7 DEF TxnInv

-----------------------------------------------------------------------------
(* The RX lcore.                                                           *)

\* A grant is counted.
LEMMA CountStep ==
  ASSUME TxnInv, NEW c \in Clients, RxCount(c)
  PROVE  TxnInv'
<1> DEFINE u == last_txn[c]
<1>1. /\ received[c] # << >>
      /\ txn_r' = [txn_r EXCEPT ![c][Head(received[c]).txn] = @ + 1]
      /\ received' = [received EXCEPT ![c] = << >>]
      /\ UNCHANGED << idx, last_txn, last_txn_idx, txn_s, deadlocked, tx_mbufs, txn_queues >>
      /\ UNCHANGED << toLock, rejected, grants, holders, waiting >>
  BY DEF RxCount, txVars, lockVars
<1>2. /\ Head(received[c]).txn = u /\ u \in Txns(c)
      /\ Len(txn_queues[c][u]) = txn_r[c][u] + 1
  BY <1>1, ReceivedFacts
<1>3. /\ ClientTypes(c) /\ Place(c) /\ Counts(c) /\ Rejects(c) /\ Grants(c) /\ Nodes(c)
      /\ DOMAIN received = Clients /\ DOMAIN txn_r = Clients
  BY AtClient DEF TxnInv, TypeOK
<1>4. /\ received'[c] = << >> /\ DOMAIN received' = Clients /\ DOMAIN txn_r' = Clients
      /\ txn_r'[c] = [txn_r[c] EXCEPT ![u] = @ + 1]
      /\ \A d \in Clients : d # c => received'[d] = received[d] /\ txn_r'[d] = txn_r[d]
  BY <1>1, <1>2, <1>3
<1>5. \A d \in Clients : \A e : Holds(d, e)' <=> Holds(d, e)
  BY <1>1 DEF Holds, RequestOf
<1>6. \A d \in Clients, l \in Locks : InLine(d, l)' <=> InLine(d, l)
  BY <1>1 DEF InLine
<1>7. ASSUME NEW d \in Clients, d # c
      PROVE  /\ ClientInv(d)' /\ ClientTypes(d)'
             /\ \A e : InPlay(d, e)' <=> InPlay(d, e)
             /\ \A e : ToDo(d, e) => ToDo(d, e)'
  <2>1. SameClient(d)
    BY <1>1, <1>4, <1>7 DEF SameClient
  <2> QED  BY <1>5, <1>6, <2>1, ClientFrame
<1>8. /\ AllSent(c)' <=> AllSent(c)
      /\ \A e : InPlay(c, e)' <=> InPlay(c, e)
  BY <1>1, PlayFrame
<1>9. ClientTypes(c)'
  <2>1. txn_r'[c] \in [Txns(c) -> Nat]
    BY <1>2, <1>3, <1>4 DEF ClientTypes
  <2> QED  BY <1>1, <1>3, <1>4, <2>1 DEF ClientTypes
<1>10. ClientInv(c)'
  <2>1. Place(c)'
    BY <1>1, <1>3, <1>8 DEF Place, Acquires, Acq
  <2>2. Counts(c)'
    <3> SUFFICES ASSUME NEW t \in Txns(c)
                 PROVE  /\ txn_s[c][t] <= txn_r'[c][t]
                        /\ Len(txn_queues[c][t]) = txn_r'[c][t] + 0
                        /\ ~ deadlocked[c][t] => txn_s[c][t] = 0
      BY <1>1, <1>4 DEF Counts
    <3>1. /\ txn_s[c][t] <= txn_r[c][t]
          /\ ~ deadlocked[c][t] => txn_s[c][t] = 0
          /\ Len(txn_queues[c][t]) = txn_r[c][t] + IF u = t THEN 1 ELSE 0
          /\ txn_s[c][t] \in Nat /\ txn_r[c][t] \in Nat
      BY <1>1, <1>2, <1>3 DEF Counts, ClientTypes
    <3>2. txn_r'[c][t] = txn_r[c][t] + IF u = t THEN 1 ELSE 0
      BY <1>2, <1>3, <1>4, <3>1 DEF ClientTypes
    <3> QED  BY <3>1, <3>2
  <2>3. Rejects(c)' /\ Grants(c)'
    BY <1>1, <1>3, <1>5, <1>8 DEF Rejects, Grants
  <2>4. Nodes(c)'
    BY <1>1, <1>3, <1>5, <1>8 DEF Nodes
  <2>5. ASSUME NEW l \in Locks
        PROVE  OnTheWay(c, l)' /\ AtOnePlace(c, l)' /\ NothingBehind(c, l)'
    <3>1. /\ toLock'[c][l] = toLock[c][l]
          /\ SentBack(c, l)' <=> SentBack(c, l)
          /\ Granted(c, l)' <=> Granted(c, l)
          /\ Noted(c, l)' <=> Noted(c, l)
      BY <1>1 DEF SentBack, Granted, Noted
    <3> QED  BY <1>5, <1>6, <1>8, <3>1, LockFrame
  <2> QED  BY <2>1, <2>2, <2>3, <2>4, <2>5 DEF ClientInv
<1>11. \A e : ToDo(c, e) => ToDo(c, e)'
  BY <1>1 DEF ToDo, ReleaseSent, Unreleased, Rel
<1>12. TypeOK'
  BY <1>1, <1>4, <1>7, <1>9 DEF TxnInv, TypeOK
<1>13. ASSUME NEW l \in Locks  PROVE Line(l)' /\ Owing(l)'
  <2>1. Line(l)'
    BY <1>1, <1>7, <1>8, LineFrame
  <2>2. Owing(l)'
    BY <1>1, <1>7, <1>11, OwingFrame
  <2> QED  BY <2>1, <2>2
<1> QED  BY <1>7, <1>10, <1>12, <1>13 DEF TxnInv

-----------------------------------------------------------------------------
(* Steps at one lock.                                                      *)

\* Of the queues to the locks only that of c and l changes.
OnlyQueue(c, l) ==
    /\ DOMAIN toLock' = Clients /\ DOMAIN toLock'[c] = Locks
    /\ \A d \in Clients : d # c => toLock'[d] = toLock[d]
    /\ \A m \in Locks : m # l => toLock'[c][m] = toLock[c][m]

\* The TX lcore does not move, and the RX lcore counts nothing.
SamePlaces ==
    UNCHANGED << idx, last_txn, last_txn_idx, txn_s, deadlocked, tx_mbufs,
                 received, txn_queues, txn_r >>

\* Elsewhere the requests of clients are where they were.
SameElsewhere(c, l) ==
    /\ DOMAIN rejected' = Clients /\ DOMAIN grants' = Clients
    /\ \A d \in Clients : d # c =>
          /\ rejected'[d] = rejected[d] /\ grants'[d] = grants[d]
          /\ \A m \in Locks : InLine(d, m)' <=> InLine(d, m)
          /\ \A e : Holds(d, e) => Holds(d, e)'
    /\ \A m \in Locks : m # l =>
          /\ SentBack(c, m)' <=> SentBack(c, m)
          /\ InLine(c, m)' <=> InLine(c, m)
          /\ Granted(c, m)' <=> Granted(c, m)
    /\ \A e : e.lock # l /\ Holds(c, e) => Holds(c, e)'

\* What such a step leaves to be shown.
LEMMA LockStep ==
  ASSUME TxnInv, NEW c \in Clients, NEW l \in Locks,
         SamePlaces, OnlyQueue(c, l), SameElsewhere(c, l)
  PROVE  /\ \A d \in Clients : ClientTypes(d)' /\ \A e : InPlay(d, e)' <=> InPlay(d, e)
         /\ \A d \in Clients : d # c =>
               /\ ClientInv(d)'
               /\ \A e : ToDo(d, e) => ToDo(d, e)'
         /\ Place(c)' /\ Counts(c)'
         /\ \A m \in Locks : m # l =>
               OnTheWay(c, m)' /\ AtOnePlace(c, m)' /\ NothingBehind(c, m)'
         /\ holders' \in [Locks -> SUBSET Request] /\ waiting' \in [Locks -> Seq(Request)]
               => TypeOK'
<1>1. TypeOK /\ ClientTypes(c) /\ Place(c) /\ Counts(c)
  BY AtClient DEF TxnInv
<1>2. ASSUME NEW d \in Clients  PROVE AllSent(d)' <=> AllSent(d)
  BY PlayFrame DEF SamePlaces
<1>3. ASSUME NEW d \in Clients  PROVE \A e : InPlay(d, e)' <=> InPlay(d, e)
  BY PlayFrame DEF SamePlaces
<1>4. ASSUME NEW d \in Clients, d # c
      PROVE  /\ ClientInv(d)' /\ ClientTypes(d)'
             /\ \A e : ToDo(d, e) => ToDo(d, e)'
  <2>1. SameClient(d)
    BY <1>4 DEF SamePlaces, OnlyQueue, SameElsewhere, SameClient
  <2>2. /\ \A e : Holds(d, e) => Holds(d, e)'
        /\ \A m \in Locks : InLine(d, m)' <=> InLine(d, m)
    BY <1>4 DEF SameElsewhere
  <2> QED  BY <2>1, <2>2, ClientFrame
<1>5. ClientTypes(c)'
  BY <1>1 DEF ClientTypes, SamePlaces, OnlyQueue
<1>6. Place(c)'
  BY <1>1, <1>2 DEF Place, Acquires, Acq, SamePlaces
<1>7. Counts(c)'
  BY <1>1 DEF Counts, SamePlaces
<1>8. ASSUME NEW m \in Locks, m # l
      PROVE  OnTheWay(c, m)' /\ AtOnePlace(c, m)' /\ NothingBehind(c, m)'
  <2>1. /\ toLock'[c][m] = toLock[c][m]
        /\ SentBack(c, m)' <=> SentBack(c, m)
        /\ InLine(c, m)' <=> InLine(c, m)
        /\ Granted(c, m)' <=> Granted(c, m)
        /\ \A e : e.lock = m /\ Holds(c, e) => Holds(c, e)'
    BY <1>8 DEF OnlyQueue, SameElsewhere
  <2>2. Noted(c, m)' <=> Noted(c, m)
    BY DEF Noted, SamePlaces
  <2> QED  BY <1>3, <2>1, <2>2, LockFrame
<1>9. ASSUME holders' \in [Locks -> SUBSET Request], waiting' \in [Locks -> Seq(Request)]
      PROVE  TypeOK'
  BY <1>1, <1>4, <1>5, <1>9 DEF TypeOK, SamePlaces, OnlyQueue, SameElsewhere
<1> QED  BY <1>3, <1>4, <1>5, <1>6, <1>7, <1>8, <1>9

\* The first packet to a lock is taken.
LEMMA TakenQueue ==
  ASSUME TxnInv, NEW c \in Clients, NEW l \in Locks, Taken(c, l)
  PROVE  OnlyQueue(c, l) /\ toLock'[c][l] = Tail(toLock[c][l])
<1>1. DOMAIN toLock = Clients /\ DOMAIN toLock[c] = Locks
  BY AtClient DEF TxnInv, TypeOK, ClientTypes
<1>2. toLock' = [toLock EXCEPT ![c] = [toLock[c] EXCEPT ![l] = Tail(toLock[c][l])]]
  BY <1>1 DEF Taken
<1>3. toLock'[c] = [toLock[c] EXCEPT ![l] = Tail(toLock[c][l])]
  BY <1>1, <1>2
<1> QED  BY <1>1, <1>2, <1>3 DEF OnlyQueue

\* An ACQUIRE that arrives is the only packet on its way.
LEMMA AcquireArrives ==
  ASSUME TxnInv, NEW c \in Clients, NEW l \in Locks, Arrives("acquire", c, l)
  PROVE  /\ Asking(c, l) /\ Tail(toLock[c][l]) = << >>
         /\ toLock[c][l] = << Acq(Head(toLock[c][l]).entry) >>
         /\ Head(toLock[c][l]).entry \in Node(c)
         /\ InPlay(c, Head(toLock[c][l]).entry)
         /\ Head(toLock[c][l]).entry.lock = l
<1>1. toLock[c][l] # << >> /\ Head(toLock[c][l]).op = "acquire"
  BY DEF Arrives
<1>2. OnTheWay(c, l)
  BY AtClient
<1>3. ASSUME NEW o, toLock[c][l] = << Rel(o) >> \/ \E e : toLock[c][l] = << Rel(o), Acq(e) >>
      PROVE  FALSE
  <2>1. Head(toLock[c][l]) = Rel(o)
    BY <1>3, ShortQueues
  <2> QED  BY <1>1, <2>1 DEF Rel
<1>4. PICK e \in Node(c) : e.lock = l /\ InPlay(c, e) /\ toLock[c][l] = << Acq(e) >>
  BY <1>1, <1>2, <1>3 DEF OnTheWay
<1>5. Head(toLock[c][l]) = Acq(e) /\ Tail(toLock[c][l]) = << >> /\ 1 \in DOMAIN toLock[c][l]
      /\ toLock[c][l][1] = Acq(e)
  BY <1>4, ShortQueues
<1>6. Acq(e).entry = e /\ Acq(e).op = "acquire"
  BY DEF Acq
<1> QED  BY <1>4, <1>5, <1>6 DEF Asking

\* An ACQUIRE goes back from the switch.
LEMMA RejectStep ==
  ASSUME TxnInv, NEW c \in Clients, NEW l \in Locks, LockReject(c, l)
  PROVE  TxnInv'
<1> DEFINE e == Head(toLock[c][l]).entry
<1>1. /\ Arrives("acquire", c, l) /\ Taken(c, l)
      /\ rejected' = [rejected EXCEPT ![c] = @ \cup {e}]
      /\ SamePlaces /\ UNCHANGED << grants, holders, waiting >>
  BY DEF LockReject, txVars, rxVars, lockVars, SamePlaces
<1>2. /\ Asking(c, l) /\ Tail(toLock[c][l]) = << >> /\ toLock[c][l] = << Acq(e) >>
      /\ e \in Node(c) /\ InPlay(c, e) /\ e.lock = l
  BY <1>1, AcquireArrives
<1> HIDE DEF e
<1>3. OnlyQueue(c, l) /\ toLock'[c][l] = << >>
  BY <1>1, <1>2, TakenQueue
<1>4. /\ TypeOK /\ OnTheWay(c, l) /\ AtOnePlace(c, l) /\ NothingBehind(c, l)
      /\ Rejects(c) /\ Grants(c) /\ Nodes(c)
  BY AtClient DEF TxnInv
<1>5. /\ rejected'[c] = rejected[c] \cup {e} /\ DOMAIN rejected' = Clients
      /\ \A d \in Clients : d # c => rejected'[d] = rejected[d]
  BY <1>1, <1>4 DEF TypeOK
<1>6. /\ \A d \in Clients : \A m \in Locks : InLine(d, m)' <=> InLine(d, m)
      /\ \A d \in Clients : \A m \in Locks : Granted(d, m)' <=> Granted(d, m)
      /\ \A d \in Clients : \A m \in Locks : Noted(d, m)' <=> Noted(d, m)
      /\ \A d \in Clients : \A f : Holds(d, f)' <=> Holds(d, f)
  BY <1>1 DEF InLine, Granted, Noted, Holds, RequestOf, SamePlaces
<1>7. \A m \in Locks : SentBack(c, m)' <=> SentBack(c, m) \/ m = l
  BY <1>2, <1>5 DEF SentBack
<1>8. SameElsewhere(c, l)
  BY <1>1, <1>4, <1>5, <1>6, <1>7 DEF SameElsewhere, TypeOK
<1>9. /\ \A d \in Clients : ClientTypes(d)' /\ \A f : InPlay(d, f)' <=> InPlay(d, f)
      /\ \A d \in Clients : d # c => ClientInv(d)' /\ \A f : ToDo(d, f) => ToDo(d, f)'
      /\ Place(c)' /\ Counts(c)'
      /\ \A m \in Locks : m # l =>
            OnTheWay(c, m)' /\ AtOnePlace(c, m)' /\ NothingBehind(c, m)'
      /\ holders' \in [Locks -> SUBSET Request] /\ waiting' \in [Locks -> Seq(Request)]
            => TypeOK'
  BY <1>1, <1>3, <1>8, LockStep
<1>10. TypeOK'
  BY <1>1, <1>4, <1>9 DEF TypeOK
<1>11. OnTheWay(c, l)' /\ AtOnePlace(c, l)' /\ NothingBehind(c, l)'
  <2>1. ~ Asking(c, l)'
    BY <1>3, ShortQueues DEF Asking
  <2>2. ~ InLine(c, l)' /\ ~ Granted(c, l)' /\ ~ Noted(c, l)'
    BY <1>2, <1>4, <1>6 DEF AtOnePlace
  <2> QED  BY <1>3, <2>1, <2>2 DEF OnTheWay, AtOnePlace, NothingBehind
<1>12. Rejects(c)' /\ Grants(c)'
  BY <1>1, <1>2, <1>4, <1>5, <1>6, <1>9 DEF Rejects, Grants
<1>13. \A m \in Locks : toLock[c][m] = << >> => toLock'[c][m] = << >>
  BY <1>3 DEF OnlyQueue
<1>14. Nodes(c)'
  <2>1. \A t \in Txns(c) : \A i \in DOMAIN txn_queues[c][t] : txn_queues[c][t][i].lock \in Locks
    BY <1>4, EntryFacts DEF Nodes, InPlay
  <2> QED  BY <1>1, <1>4, <1>6, <1>9, <1>13, <2>1 DEF Nodes, SamePlaces
<1>15. \A f : f.lock \in Locks /\ ToDo(c, f) => ToDo(c, f)'
  <2> SUFFICES ASSUME NEW f, f.lock \in Locks, ToDo(c, f)  PROVE ToDo(c, f)'
    OBVIOUS
  <2>1. CASE ReleaseSent(c, f)
    <3>1. Rel(f) # Acq(e)
      BY DEF Rel, Acq
    <3>2. f.lock # l
      BY <1>2, <2>1, <3>1 DEF ReleaseSent
    <3>3. toLock'[c][f.lock] = toLock[c][f.lock]
      BY <1>3, <3>2 DEF OnlyQueue
    <3> QED  BY <2>1, <3>3 DEF ToDo, ReleaseSent, Rel
  <2>2. CASE f \in grants[c] \/ Unreleased(c, f)
    BY <1>1, <2>2 DEF ToDo, Unreleased, SamePlaces
  <2> QED  BY <2>1, <2>2 DEF ToDo
<1>16. ASSUME NEW m \in Locks  PROVE Line(m)' /\ Owing(m)'
  <2>1. Line(m)'
    BY <1>1, <1>9, LineFrame
  <2>2. \A d \in Clients : \A f : f.lock = m /\ ToDo(d, f) => ToDo(d, f)'
    BY <1>9, <1>15
  <2>3. Owing(m)'
    BY <1>1, <2>2, OwingFrame
  <2> QED  BY <2>1, <2>3
<1>17. ClientInv(c)'
  BY <1>9, <1>11, <1>12, <1>14 DEF ClientInv
<1> QED  BY <1>9, <1>10, <1>16, <1>17 DEF TxnInv

\* Who waits now waits for its attempt.
LEMMA LineStep ==
  ASSUME NEW m \in Locks,
         \A d \in Clients : \A f : InPlay(d, f)' <=> InPlay(d, f),
         \A i \in DOMAIN waiting'[m] :
            /\ waiting'[m][i].client \in Clients
            /\ InPlay(waiting'[m][i].client, EntryOf(waiting'[m][i], m))
            /\ \A j \in DOMAIN waiting'[m] :
                  waiting'[m][j].client = waiting'[m][i].client => j = i
  PROVE  Line(m)'
BY DEF Line, EntryOf

\* An ACQUIRE joins the line.
LEMMA AcquireStep ==
  ASSUME TxnInv, NEW c \in Clients, NEW l \in Locks, LockAcquire(c, l)
  PROVE  TxnInv'
<1> DEFINE e == Head(toLock[c][l]).entry
           r == RequestOf(c, e)
<1>1. /\ Arrives("acquire", c, l) /\ Taken(c, l)
      /\ waiting' = [waiting EXCEPT ![l] = Append(@, r)]
      /\ SamePlaces /\ UNCHANGED << grants, holders, rejected >>
  BY DEF LockAcquire, txVars, rxVars, SamePlaces
<1>2. /\ Asking(c, l) /\ Tail(toLock[c][l]) = << >> /\ toLock[c][l] = << Acq(e) >>
      /\ e \in Node(c) /\ InPlay(c, e) /\ e.lock = l
  BY <1>1, AcquireArrives
<1>3. r \in Request /\ r.client = c /\ EntryOf(r, l) = e
  <2>1. e \in Entries(c, last_txn[c])
    BY <1>2 DEF InPlay
  <2> QED  BY <1>2, <2>1, EntryFacts
<1> HIDE DEF e, r
<1>4. OnlyQueue(c, l) /\ toLock'[c][l] = << >>
  BY <1>1, <1>2, TakenQueue
<1>5. /\ TypeOK /\ OnTheWay(c, l) /\ AtOnePlace(c, l) /\ NothingBehind(c, l)
      /\ Rejects(c) /\ Grants(c) /\ Nodes(c) /\ Line(l)
  BY AtClient DEF TxnInv
<1>6. waiting[l] \in Seq(Request) /\ waiting \in [Locks -> Seq(Request)]
  BY <1>5 DEF TypeOK
<1>7. /\ waiting'[l] = Append(waiting[l], r)
      /\ \A m \in Locks : m # l => waiting'[m] = waiting[m]
      /\ waiting' \in [Locks -> Seq(Request)]
  <2>1. Append(waiting[l], r) \in Seq(Request)
    BY <1>3, <1>6, AppendProperties
  <2> QED  BY <1>1, <1>6, <2>1
<1>8. /\ DOMAIN waiting[l] = 1 .. Len(waiting[l]) /\ Len(waiting[l]) \in Nat
      /\ DOMAIN waiting'[l] = 1 .. Len(waiting[l]) + 1
      /\ \A i \in 1 .. Len(waiting[l]) : waiting'[l][i] = waiting[l][i]
      /\ waiting'[l][Len(waiting[l]) + 1] = r
  BY <1>3, <1>6, <1>7, AppendProperties, LenProperties
<1>9. \A d \in Clients : \A m \in Locks :
         InLine(d, m)' <=> InLine(d, m) \/ (d = c /\ m = l)
  <2> SUFFICES ASSUME NEW d \in Clients, NEW m \in Locks
               PROVE  InLine(d, m)' <=> InLine(d, m) \/ (d = c /\ m = l)
    OBVIOUS
  <2>1. CASE m # l
    BY <1>7, <2>1 DEF InLine
  <2>2. CASE m = l
    <3>1. InLine(d, l)' <=> \E i \in 1 .. Len(waiting[l]) + 1 : waiting'[l][i].client = d
      BY <1>8 DEF InLine
    <3>2. InLine(d, l) <=> \E i \in 1 .. Len(waiting[l]) : waiting[l][i].client = d
      BY <1>8 DEF InLine
    <3>3. InLine(d, l) => InLine(d, l)'
      BY <1>8, <3>1, <3>2
    <3>4. InLine(d, l)' => InLine(d, l) \/ d = c
      BY <1>3, <1>8, <3>1, <3>2
    <3>5. d = c => InLine(d, l)'
      BY <1>3, <1>8, <3>1
    <3> QED  BY <2>2, <3>3, <3>4, <3>5
  <2> QED  BY <2>1, <2>2
<1>10. /\ \A d \in Clients : \A m \in Locks : SentBack(d, m)' <=> SentBack(d, m)
       /\ \A d \in Clients : \A m \in Locks : Granted(d, m)' <=> Granted(d, m)
       /\ \A d \in Clients : \A m \in Locks : Noted(d, m)' <=> Noted(d, m)
       /\ \A d \in Clients : \A f : Holds(d, f)' <=> Holds(d, f)
  BY <1>1 DEF SentBack, Granted, Noted, Holds, RequestOf, SamePlaces
<1>11. SameElsewhere(c, l)
  BY <1>1, <1>5, <1>9, <1>10 DEF SameElsewhere, TypeOK
<1>12. /\ \A d \in Clients : ClientTypes(d)' /\ \A f : InPlay(d, f)' <=> InPlay(d, f)
       /\ \A d \in Clients : d # c => ClientInv(d)' /\ \A f : ToDo(d, f) => ToDo(d, f)'
       /\ Place(c)' /\ Counts(c)'
       /\ \A m \in Locks : m # l =>
             OnTheWay(c, m)' /\ AtOnePlace(c, m)' /\ NothingBehind(c, m)'
       /\ holders' \in [Locks -> SUBSET Request] /\ waiting' \in [Locks -> Seq(Request)]
             => TypeOK'
  BY <1>1, <1>4, <1>11, LockStep
<1>13. TypeOK'
  BY <1>1, <1>5, <1>7, <1>12 DEF TypeOK
<1>14. OnTheWay(c, l)' /\ AtOnePlace(c, l)' /\ NothingBehind(c, l)'
  <2>1. ~ Asking(c, l)'
    BY <1>4, ShortQueues DEF Asking
  <2>2. ~ SentBack(c, l)' /\ ~ Granted(c, l)' /\ ~ Noted(c, l)'
    BY <1>2, <1>5, <1>10 DEF AtOnePlace
  <2> QED  BY <1>4, <2>1, <2>2 DEF OnTheWay, AtOnePlace, NothingBehind
<1>15. Rejects(c)' /\ Grants(c)'
  BY <1>1, <1>5, <1>10, <1>12 DEF Rejects, Grants
<1>16. \A m \in Locks : toLock[c][m] = << >> => toLock'[c][m] = << >>
  BY <1>4 DEF OnlyQueue
<1>17. Nodes(c)'
  <2>1. \A t \in Txns(c) : \A i \in DOMAIN txn_queues[c][t] : txn_queues[c][t][i].lock \in Locks
    BY <1>5, EntryFacts DEF Nodes, InPlay
  <2> QED  BY <1>1, <1>5, <1>10, <1>12, <1>16, <2>1 DEF Nodes, SamePlaces
<1>18. \A f : f.lock \in Locks /\ ToDo(c, f) => ToDo(c, f)'
  <2> SUFFICES ASSUME NEW f, f.lock \in Locks, ToDo(c, f)  PROVE ToDo(c, f)'
    OBVIOUS
  <2>1. CASE ReleaseSent(c, f)
    <3>1. Rel(f) # Acq(e)
      BY DEF Rel, Acq
    <3>2. f.lock # l
      BY <1>2, <2>1, <3>1 DEF ReleaseSent
    <3>3. toLock'[c][f.lock] = toLock[c][f.lock]
      BY <1>4, <3>2 DEF OnlyQueue
    <3> QED  BY <2>1, <3>3 DEF ToDo, ReleaseSent, Rel
  <2>2. CASE f \in grants[c] \/ Unreleased(c, f)
    BY <1>1, <2>2 DEF ToDo, Unreleased, SamePlaces
  <2> QED  BY <2>1, <2>2 DEF ToDo
<1>19. ASSUME NEW m \in Locks  PROVE Owing(m)'
  <2>2. \A d \in Clients : \A f : f.lock = m /\ ToDo(d, f) => ToDo(d, f)'
    BY <1>12, <1>18
  <2> QED  BY <1>1, <2>2, OwingFrame
<1>20. ASSUME NEW m \in Locks  PROVE Line(m)'
  <2>0. Line(m) /\ waiting[m] \in Seq(Request)
    BY <1>6 DEF TxnInv
  <2>1. \A i \in DOMAIN waiting[m] : waiting[m][i].client \in Clients
    <3>1. \A i \in DOMAIN waiting[m] : waiting[m][i] \in Request
      BY <2>0, ElementOfSeq, LenProperties
    <3> QED  BY <3>1 DEF Request
  <2>2. CASE m # l
    BY <1>7, <1>12, <2>0, <2>1, <2>2 DEF Line, EntryOf
  <2>3. CASE m = l
    <3> SUFFICES ASSUME NEW i \in 1 .. Len(waiting[l]) + 1
                 PROVE  /\ waiting'[l][i].client \in Clients
                        /\ InPlay(waiting'[l][i].client, EntryOf(waiting'[l][i], l))
                        /\ \A j \in 1 .. Len(waiting[l]) + 1 :
                              waiting'[l][j].client = waiting'[l][i].client => j = i
      <4>1. \A d \in Clients : \A f : InPlay(d, f)' <=> InPlay(d, f)
        BY <1>12
      <4> QED  BY <1>8, <2>3, <4>1, LineStep
    <3>1. \A j \in 1 .. Len(waiting[l]) : waiting[l][j].client # c
      <4>1. ~ InLine(c, l)
        BY <1>2, <1>5 DEF AtOnePlace
      <4> QED  BY <1>8, <4>1 DEF InLine
    <3>2. CASE i \in 1 .. Len(waiting[l])
      <4>1. waiting'[l][i] = waiting[l][i] /\ i \in DOMAIN waiting[l]
        BY <1>8, <3>2
      <4>2. /\ waiting[l][i].client \in Clients
            /\ InPlay(waiting[l][i].client, EntryOf(waiting[l][i], l))
            /\ \A j \in 1 .. Len(waiting[l]) : waiting[l][j].client = waiting[l][i].client => j = i
        BY <1>5, <1>8, <2>1, <2>3, <4>1 DEF Line
      <4>4. ASSUME NEW j \in 1 .. Len(waiting[l]) + 1,
                   waiting'[l][j].client = waiting'[l][i].client
            PROVE  j = i
        <5>1. CASE j = Len(waiting[l]) + 1
          BY <1>3, <1>8, <3>1, <3>2, <4>1, <4>4, <5>1
        <5>2. CASE j \in 1 .. Len(waiting[l])
          BY <1>8, <4>1, <4>2, <4>4, <5>2
        <5> QED  BY <1>8, <5>1, <5>2
      <4> QED  BY <4>1, <4>2, <4>4
    <3>3. CASE i = Len(waiting[l]) + 1
      <4>1. waiting'[l][i] = r
        BY <1>8, <3>3
      <4>4. ASSUME NEW j \in 1 .. Len(waiting[l]) + 1,
                   waiting'[l][j].client = waiting'[l][i].client
            PROVE  j = i
        BY <1>3, <1>8, <3>1, <3>3, <4>1, <4>4
      <4> QED  BY <1>2, <1>3, <4>1, <4>4
    <3> QED  BY <1>8, <3>2, <3>3
  <2> QED  BY <2>2, <2>3
<1>21. ClientInv(c)'
  BY <1>12, <1>14, <1>15, <1>17 DEF ClientInv
<1> QED  BY <1>12, <1>13, <1>19, <1>20, <1>21 DEF TxnInv

\* A RELEASE that arrives is of something the client holds.
LEMMA ReleaseArrives ==
  ASSUME TxnInv, NEW c \in Clients, NEW l \in Locks, Arrives("release", c, l)
  PROVE  LET o == Head(toLock[c][l]).entry
         IN  /\ o \in Node(c) /\ o.lock = l /\ Holds(c, o)
             /\ toLock[c][l] # << >> /\ toLock[c][l][1] = Rel(o)
             /\ \/ toLock[c][l] = << Rel(o) >> /\ Tail(toLock[c][l]) = << >>
                \/ \E e \in Node(c) :
                      /\ e.lock = l /\ InPlay(c, e)
                      /\ toLock[c][l] = << Rel(o), Acq(e) >>
                      /\ Tail(toLock[c][l]) = << Acq(e) >>
<1>1. toLock[c][l] # << >> /\ Head(toLock[c][l]).op = "release"
  BY DEF Arrives
<1>2. OnTheWay(c, l)
  BY AtClient
<1>3. ASSUME NEW e, toLock[c][l] = << Acq(e) >>  PROVE FALSE
  <2>1. Head(toLock[c][l]) = Acq(e)
    BY <1>3, ShortQueues
  <2> QED  BY <1>1, <2>1 DEF Acq
<1>4. \A x : Rel(x).entry = x
  BY DEF Rel
<1>5. CASE \E x \in Node(c) : x.lock = l /\ Holds(c, x) /\ toLock[c][l] = << Rel(x) >>
  <2>1. PICK x \in Node(c) : x.lock = l /\ Holds(c, x) /\ toLock[c][l] = << Rel(x) >>
    BY <1>5
  <2>2. Head(toLock[c][l]) = Rel(x) /\ Tail(toLock[c][l]) = << >> /\ toLock[c][l][1] = Rel(x)
    BY <2>1, ShortQueues
  <2> QED  BY <1>1, <1>4, <2>1, <2>2
<1>6. CASE \E x, e \in Node(c) : /\ x.lock = l /\ Holds(c, x)
                                 /\ e.lock = l /\ InPlay(c, e)
                                 /\ toLock[c][l] = << Rel(x), Acq(e) >>
  <2>1. PICK x, e \in Node(c) : /\ x.lock = l /\ Holds(c, x)
                                /\ e.lock = l /\ InPlay(c, e)
                                /\ toLock[c][l] = << Rel(x), Acq(e) >>
    BY <1>6
  <2>2. Head(toLock[c][l]) = Rel(x) /\ Tail(toLock[c][l]) = << Acq(e) >>
        /\ toLock[c][l][1] = Rel(x)
    BY <2>1, ShortQueues
  <2> QED  BY <1>1, <1>4, <2>1, <2>2
<1> QED  BY <1>1, <1>2, <1>3, <1>5, <1>6 DEF OnTheWay

\* A RELEASE takes effect.
LEMMA ReleaseStep ==
  ASSUME TxnInv, NEW c \in Clients, NEW l \in Locks, LockRelease(c, l)
  PROVE  TxnInv'
<1> DEFINE o == Head(toLock[c][l]).entry
           r == RequestOf(c, o)
<1>1. /\ Arrives("release", c, l) /\ Taken(c, l)
      /\ holders' = [holders EXCEPT ![l] = @ \ {r}]
      /\ SamePlaces /\ UNCHANGED << grants, rejected, waiting >>
  BY DEF LockRelease, txVars, rxVars, SamePlaces
<1>2. /\ o \in Node(c) /\ o.lock = l /\ Holds(c, o)
      /\ toLock[c][l] # << >> /\ toLock[c][l][1] = Rel(o)
      /\ \/ toLock[c][l] = << Rel(o) >> /\ Tail(toLock[c][l]) = << >>
         \/ \E e \in Node(c) : /\ e.lock = l /\ InPlay(c, e)
                               /\ toLock[c][l] = << Rel(o), Acq(e) >>
                               /\ Tail(toLock[c][l]) = << Acq(e) >>
  BY <1>1, ReleaseArrives
<1>3. OnlyQueue(c, l) /\ toLock'[c][l] = Tail(toLock[c][l])
  BY <1>1, TakenQueue
<1>4. r.client = c /\ r = RequestOf(c, o)
  BY DEF RequestOf
<1> HIDE DEF o, r
<1>5. /\ TypeOK /\ OnTheWay(c, l) /\ AtOnePlace(c, l) /\ NothingBehind(c, l)
      /\ Rejects(c) /\ Grants(c) /\ Nodes(c)
  BY AtClient DEF TxnInv
<1>6. /\ holders'[l] = holders[l] \ {r}
      /\ \A m \in Locks : m # l => holders'[m] = holders[m]
      /\ holders' \in [Locks -> SUBSET Request] /\ DOMAIN holders' = Locks
      /\ holders \in [Locks -> SUBSET Request]
  BY <1>1, <1>5 DEF TypeOK
<1>7. /\ \A d \in Clients : d # c => \A f : Holds(d, f) => Holds(d, f)'
      /\ \A f : f.lock # l /\ Holds(c, f) => Holds(c, f)'
  <2>1. ASSUME NEW d \in Clients, NEW f, Holds(d, f), d # c \/ f.lock # l
        PROVE  Holds(d, f)'
    <3>1. RequestOf(d, f) \in holders[f.lock] /\ RequestOf(d, f).client = d
      BY <2>1 DEF Holds, RequestOf
    <3>2. RequestOf(d, f)' = RequestOf(d, f)
      BY DEF RequestOf
    <3>3. CASE f.lock = l
      BY <1>4, <1>6, <2>1, <3>1, <3>2, <3>3 DEF Holds
    <3>4. CASE f.lock # l
      <4>1. holders'[f.lock] = holders[f.lock]
        BY <1>1, <1>6, <3>4
      <4> QED  BY <3>1, <3>2, <4>1 DEF Holds
    <3> QED  BY <3>3, <3>4
  <2> QED  BY <2>1
<1>8. /\ \A d \in Clients : \A m \in Locks : InLine(d, m)' <=> InLine(d, m)
      /\ \A d \in Clients : \A m \in Locks : Granted(d, m)' <=> Granted(d, m)
      /\ \A d \in Clients : \A m \in Locks : Noted(d, m)' <=> Noted(d, m)
      /\ \A d \in Clients : \A m \in Locks : SentBack(d, m)' <=> SentBack(d, m)
  BY <1>1 DEF InLine, Granted, Noted, SentBack, SamePlaces
<1>9. SameElsewhere(c, l)
  BY <1>1, <1>5, <1>7, <1>8 DEF SameElsewhere, TypeOK
<1>10. /\ \A d \in Clients : ClientTypes(d)' /\ \A f : InPlay(d, f)' <=> InPlay(d, f)
       /\ \A d \in Clients : d # c => ClientInv(d)' /\ \A f : ToDo(d, f) => ToDo(d, f)'
       /\ Place(c)' /\ Counts(c)'
       /\ \A m \in Locks : m # l =>
             OnTheWay(c, m)' /\ AtOnePlace(c, m)' /\ NothingBehind(c, m)'
       /\ holders' \in [Locks -> SUBSET Request] /\ waiting' \in [Locks -> Seq(Request)]
             => TypeOK'
  BY <1>1, <1>3, <1>9, LockStep
<1>11. TypeOK'
  BY <1>1, <1>5, <1>6, <1>10 DEF TypeOK
\* Nothing else of the client is at this lock.
<1>12. ~ SentBack(c, l) /\ ~ InLine(c, l) /\ ~ Granted(c, l)
  BY <1>2, <1>5 DEF NothingBehind
<1>13. Asking(c, l)' => Asking(c, l)
  <2>1. CASE Tail(toLock[c][l]) = << >>
    BY <1>3, <2>1, ShortQueues DEF Asking
  <2>2. ASSUME NEW e, toLock[c][l] = << Rel(o), Acq(e) >>  PROVE Asking(c, l)
    <3>1. 2 \in DOMAIN toLock[c][l] /\ toLock[c][l][2] = Acq(e)
      BY <2>2, ShortQueues
    <3> QED  BY <3>1 DEF Asking, Acq
  <2> QED  BY <1>2, <2>1, <2>2
<1>14. OnTheWay(c, l)' /\ AtOnePlace(c, l)' /\ NothingBehind(c, l)'
  <2>1. Node(c)' = Node(c) /\ \A e : Acq(e)' = Acq(e)
    BY DEF Node, Acq, Txns
  <2>2. OnTheWay(c, l)'
    BY <1>2, <1>3, <1>10, <2>1 DEF OnTheWay
  <2> QED  BY <1>5, <1>8, <1>12, <1>13, <2>2 DEF AtOnePlace, NothingBehind
<1>15. Rejects(c)' /\ Grants(c)'
  BY <1>1, <1>5, <1>7, <1>10, <1>12 DEF Rejects, Grants, Granted
<1>16. Nodes(c)'
  <2>1. \A t \in Txns(c) : \A i \in DOMAIN txn_queues[c][t] : txn_queues[c][t][i].lock \in Locks
    BY <1>5, EntryFacts DEF Nodes, InPlay
  <2>2. ASSUME NEW t \in Txns(c), NEW i \in DOMAIN txn_queues[c][t], i > txn_s[c][t]
        PROVE  /\ Holds(c, txn_queues[c][t][i])'
               /\ toLock'[c][txn_queues[c][t][i].lock] = << >>
    <3>1. /\ Holds(c, txn_queues[c][t][i])
          /\ toLock[c][txn_queues[c][t][i].lock] = << >>
      BY <1>5, <2>2 DEF Nodes
    <3>2. txn_queues[c][t][i].lock # l
      BY <1>2, <3>1
    <3>3. txn_queues'[c][t][i] = txn_queues[c][t][i]
      BY <1>1 DEF SamePlaces
    <3> QED  BY <1>3, <1>7, <2>1, <3>1, <3>2, <3>3 DEF OnlyQueue
  <2> QED  BY <1>1, <1>5, <1>10, <2>2 DEF Nodes, SamePlaces
<1>17. ASSUME NEW m \in Locks  PROVE Line(m)'
  BY <1>1, <1>10, LineFrame
<1>18. ASSUME NEW m \in Locks  PROVE Owing(m)'
  <2> SUFFICES ASSUME NEW h \in holders'[m]  PROVE ToDo(h.client, EntryOf(h, m))'
    BY DEF Owing
  <2>1. h \in holders[m] /\ h \in Request
    BY <1>6
  <2>2. h.client \in Clients /\ ToDo(h.client, EntryOf(h, m)) /\ EntryOf(h, m).lock = m
        /\ EntryOf(h, m)' = EntryOf(h, m)
    BY <2>1 DEF TxnInv, Owing, Request, EntryOf
  <2>3. CASE h.client # c
    BY <1>10, <2>2, <2>3
  <2>4. CASE h.client = c /\ m # l
    <3>1. toLock'[c][m] = toLock[c][m]
      BY <1>3, <2>4 DEF OnlyQueue
    <3> QED  BY <1>1, <2>2, <2>4, <3>1 DEF ToDo, ReleaseSent, Unreleased, SamePlaces, Rel
  <2>5. CASE h.client = c /\ m = l
    <3> DEFINE f == EntryOf(h, l)
    <3>1. f.lock = l /\ ToDo(c, f) /\ RequestOf(c, f) = h
      BY <2>1, <2>2, <2>5 DEF EntryOf, RequestOf, Request
    <3> HIDE DEF f
    <3>2. ~ Unreleased(c, f)
      BY <1>2, <1>5, <3>1 DEF Unreleased, Nodes
    <3>3. f \notin grants[c]
      BY <1>12, <3>1 DEF Granted
    <3>4. Rel(f) = Rel(o)
      BY <1>2, <3>1, <3>2, <3>3 DEF ToDo, ReleaseSent
    <3>5. f = o
      BY <3>4 DEF Rel
    <3> QED  BY <1>4, <1>6, <2>5, <3>1, <3>5
  <2> QED  BY <2>3, <2>4, <2>5
<1>19. ClientInv(c)'
  BY <1>10, <1>14, <1>15, <1>16 DEF ClientInv
<1> QED  BY <1>10, <1>11, <1>17, <1>18, <1>19 DEF TxnInv

-----------------------------------------------------------------------------
(* A grant.                                                                *)

\* The first in line is granted its lock, request r of client c.
LEMMA GrantOf ==
  ASSUME TxnInv, NEW l \in Locks, LockGrant(l),
         NEW r, r = Head(waiting[l]), NEW c, c = r.client, NEW e, e = EntryOf(r, l)
  PROVE  TxnInv'
<1>1. /\ waiting[l] # << >>
      /\ holders' = [holders EXCEPT ![l] = @ \cup {r}]
      /\ grants' = [grants EXCEPT ![c] = @ \cup {e}]
      /\ waiting' = [waiting EXCEPT ![l] = Tail(@)]
      /\ SamePlaces /\ UNCHANGED << toLock, rejected >>
  BY DEF LockGrant, txVars, rxVars, SamePlaces, EntryOf
<1>2. TypeOK /\ Line(l) /\ waiting[l] \in Seq(Request)
  BY DEF TxnInv, TypeOK
<1>3. /\ r \in Request /\ r = waiting[l][1] /\ 1 \in DOMAIN waiting[l]
      /\ Len(waiting[l]) \in Nat /\ DOMAIN waiting[l] = 1 .. Len(waiting[l])
      /\ Tail(waiting[l]) \in Seq(Request)
      /\ DOMAIN Tail(waiting[l]) = 1 .. Len(waiting[l]) - 1
      /\ \A i \in 1 .. Len(waiting[l]) - 1 : Tail(waiting[l])[i] = waiting[l][i + 1]
  <2>1. Tail(waiting[l]) \in Seq(Request) /\ Len(Tail(waiting[l])) = Len(waiting[l]) - 1
        /\ \A i \in 1 .. Len(waiting[l]) - 1 : Tail(waiting[l])[i] = waiting[l][i + 1]
    BY <1>1, <1>2, HeadTailProperties
  <2>2. DOMAIN Tail(waiting[l]) = 1 .. Len(waiting[l]) - 1
    BY <2>1, LenProperties
  <2>3. r \in Request /\ r = waiting[l][1]
    BY <1>1, <1>2, HeadTailProperties
  <2>4. Len(waiting[l]) \in Nat /\ DOMAIN waiting[l] = 1 .. Len(waiting[l])
        /\ 1 \in DOMAIN waiting[l]
    BY <1>1, <1>2, EmptySeq, LenProperties
  <2> QED  BY <2>1, <2>2, <2>3, <2>4
<1>4. /\ c \in Clients /\ e.lock = l /\ RequestOf(c, e) = r
      /\ e = EntryOf(r, l) /\ c = r.client
  BY <1>3 DEF Request, EntryOf, RequestOf
<1>5. InPlay(c, e) /\ InLine(c, l)
  BY <1>2, <1>3 DEF Line, InLine
<1>6. /\ OnTheWay(c, l) /\ AtOnePlace(c, l) /\ NothingBehind(c, l)
      /\ Rejects(c) /\ Grants(c) /\ Nodes(c)
  BY <1>4, AtClient
<1>7. /\ toLock[c][l] = << >> /\ ~ Asking(c, l) /\ ~ SentBack(c, l)
      /\ ~ Granted(c, l) /\ ~ Noted(c, l)
  BY <1>5, <1>6 DEF AtOnePlace, NothingBehind
<1>8. OnlyQueue(c, l)
  BY <1>1, <1>2, <1>4 DEF OnlyQueue, TypeOK, ClientTypes
<1>9. /\ holders'[l] = holders[l] \cup {r}
      /\ \A m \in Locks : m # l => holders'[m] = holders[m]
      /\ holders' \in [Locks -> SUBSET Request]
      /\ DOMAIN holders = Locks
  BY <1>1, <1>2, <1>3 DEF TypeOK
<1>10. /\ grants'[c] = grants[c] \cup {e} /\ DOMAIN grants' = Clients
       /\ \A d \in Clients : d # c => grants'[d] = grants[d]
  BY <1>1, <1>2, <1>4 DEF TypeOK
<1>11. /\ waiting'[l] = Tail(waiting[l])
       /\ \A m \in Locks : m # l => waiting'[m] = waiting[m]
       /\ waiting' \in [Locks -> Seq(Request)]
  BY <1>1, <1>2, <1>3 DEF TypeOK
<1>12. \A d \in Clients : \A f : Holds(d, f) => Holds(d, f)'
  <2> SUFFICES ASSUME NEW d \in Clients, NEW f, Holds(d, f)  PROVE Holds(d, f)'
    OBVIOUS
  <2>1. RequestOf(d, f) \in holders[f.lock] /\ RequestOf(d, f)' = RequestOf(d, f)
    BY DEF Holds, RequestOf
  <2>2. CASE f.lock = l
    BY <1>9, <2>1, <2>2 DEF Holds
  <2>3. CASE f.lock # l
    <3>1. holders'[f.lock] = holders[f.lock]
      BY <1>1, <1>9, <2>3
    <3> QED  BY <2>1, <3>1 DEF Holds
  <2> QED  BY <2>2, <2>3
<1>13. \A d \in Clients : \A m \in Locks :
          InLine(d, m)' <=> InLine(d, m) /\ ~ (d = c /\ m = l)
  <2> SUFFICES ASSUME NEW d \in Clients, NEW m \in Locks
               PROVE  InLine(d, m)' <=> InLine(d, m) /\ ~ (d = c /\ m = l)
    OBVIOUS
  <2>1. CASE m # l
    BY <1>11, <2>1 DEF InLine
  <2>2. CASE m = l
    <3>1. InLine(d, l)' <=> \E i \in 1 .. Len(waiting[l]) - 1 : waiting[l][i + 1].client = d
      <4>1. DOMAIN waiting'[l] = 1 .. Len(waiting[l]) - 1
        BY <1>3, <1>11
      <4>2. \A i \in 1 .. Len(waiting[l]) - 1 : waiting'[l][i] = waiting[l][i + 1]
        BY <1>3, <1>11
      <4>3. InLine(d, l)' <=> \E i \in 1 .. Len(waiting[l]) - 1 : waiting'[l][i].client = d
        BY <4>1 DEF InLine
      <4> QED  BY <4>2, <4>3
    <3>2. InLine(d, l) <=> \E i \in 1 .. Len(waiting[l]) : waiting[l][i].client = d
      BY <1>3 DEF InLine
    <3>3. \A i \in 1 .. Len(waiting[l]) - 1 : i + 1 \in 1 .. Len(waiting[l]) /\ i + 1 # 1
      BY <1>3
    <3>4. \A i \in 1 .. Len(waiting[l]) : i # 1 =>
             i - 1 \in 1 .. Len(waiting[l]) - 1 /\ (i - 1) + 1 = i
      BY <1>3
    <3>5. \A i \in 1 .. Len(waiting[l]) : waiting[l][i].client = c => i = 1
      BY <1>2, <1>3, <1>4 DEF Line
    <3>6. waiting[l][1].client = c
      BY <1>3, <1>4
    <3>7. InLine(d, l)' => InLine(d, l) /\ d # c
      BY <3>1, <3>2, <3>3, <3>5
    <3>8. InLine(d, l) /\ d # c => InLine(d, l)'
      <4> SUFFICES ASSUME InLine(d, l), d # c  PROVE InLine(d, l)'
        OBVIOUS
      <4>1. PICK i \in 1 .. Len(waiting[l]) : waiting[l][i].client = d
        BY <3>2
      <4>2. i # 1
        BY <3>6, <4>1
      <4> QED  BY <3>1, <3>4, <4>1, <4>2
    <3> QED  BY <2>2, <3>7, <3>8
  <2> QED  BY <2>1, <2>2
<1>14. /\ \A d \in Clients : \A m \in Locks : Noted(d, m)' <=> Noted(d, m)
       /\ \A d \in Clients : \A m \in Locks : SentBack(d, m)' <=> SentBack(d, m)
       /\ \A d \in Clients : \A m \in Locks : Asking(d, m)' <=> Asking(d, m)
  BY <1>1 DEF Noted, SentBack, Asking, SamePlaces
<1>15. \A m \in Locks : Granted(c, m)' <=> Granted(c, m) \/ m = l
  BY <1>4, <1>10 DEF Granted
<1>16. SameElsewhere(c, l)
  <2>1. DOMAIN rejected' = Clients /\ DOMAIN grants' = Clients /\ rejected' = rejected
    BY <1>1, <1>2, <1>10 DEF TypeOK
  <2>2. \A d \in Clients : d # c =>
           /\ rejected'[d] = rejected[d] /\ grants'[d] = grants[d]
           /\ \A m \in Locks : InLine(d, m)' <=> InLine(d, m)
           /\ \A f : Holds(d, f) => Holds(d, f)'
    BY <1>10, <1>12, <1>13, <2>1
  <2>3. \A m \in Locks : m # l =>
           /\ SentBack(c, m)' <=> SentBack(c, m)
           /\ InLine(c, m)' <=> InLine(c, m)
           /\ Granted(c, m)' <=> Granted(c, m)
    BY <1>4, <1>13, <1>14, <1>15
  <2>4. \A f : f.lock # l /\ Holds(c, f) => Holds(c, f)'
    BY <1>4, <1>12
  <2> QED  BY <2>1, <2>2, <2>3, <2>4 DEF SameElsewhere
<1>17. /\ \A d \in Clients : ClientTypes(d)' /\ \A f : InPlay(d, f)' <=> InPlay(d, f)
       /\ \A d \in Clients : d # c => ClientInv(d)' /\ \A f : ToDo(d, f) => ToDo(d, f)'
       /\ Place(c)' /\ Counts(c)'
       /\ \A m \in Locks : m # l =>
             OnTheWay(c, m)' /\ AtOnePlace(c, m)' /\ NothingBehind(c, m)'
       /\ holders' \in [Locks -> SUBSET Request] /\ waiting' \in [Locks -> Seq(Request)]
             => TypeOK'
  BY <1>1, <1>4, <1>8, <1>16, LockStep
<1>18. TypeOK'
  BY <1>9, <1>11, <1>17
<1>19. OnTheWay(c, l)' /\ AtOnePlace(c, l)' /\ NothingBehind(c, l)'
  <2>1. toLock'[c][l] = << >>
    BY <1>1, <1>7
  <2> QED  BY <1>4, <1>7, <1>13, <1>14, <2>1 DEF OnTheWay, AtOnePlace, NothingBehind
<1>20. Holds(c, e)'
  <2>1. RequestOf(c, e)' = r
    BY <1>4 DEF RequestOf
  <2> QED  BY <1>4, <1>9, <2>1 DEF Holds
<1>21. Rejects(c)' /\ Grants(c)'
  BY <1>1, <1>4, <1>5, <1>6, <1>10, <1>12, <1>17, <1>20 DEF Rejects, Grants
<1>22. Nodes(c)'
  <2>1. Nodes(c)
    BY <1>6
  <2>2. /\ txn_queues' = txn_queues /\ txn_s' = txn_s /\ toLock' = toLock
        /\ Txns(c)' = Txns(c)
    BY <1>1 DEF SamePlaces, Txns
  <2>3. \A f : InPlay(c, f)' <=> InPlay(c, f)
    BY <1>4, <1>17
  <2>4. \A f : Holds(c, f) => Holds(c, f)'
    BY <1>4, <1>12
  <2> QED  BY ONLY <2>1, <2>2, <2>3, <2>4 DEF Nodes
<1>23. ASSUME NEW m \in Locks  PROVE Line(m)'
  <2>1. Line(m) /\ waiting[m] \in Seq(Request)
    BY <1>2 DEF TxnInv, TypeOK
  <2>2. \A i \in DOMAIN waiting[m] : waiting[m][i].client \in Clients
    <3>1. \A i \in DOMAIN waiting[m] : waiting[m][i] \in Request
      BY <2>1, ElementOfSeq, LenProperties
    <3> QED  BY <3>1 DEF Request
  <2>3. \A d \in Clients : \A f : InPlay(d, f)' <=> InPlay(d, f)
    BY <1>17
  <2>4. \A i \in DOMAIN waiting[m] :
            /\ waiting[m][i].client \in Clients
            /\ InPlay(waiting[m][i].client, EntryOf(waiting[m][i], m))
            /\ \A j \in DOMAIN waiting[m] :
                  waiting[m][j].client = waiting[m][i].client => j = i
    BY <2>1, <2>2 DEF Line
  <2>5. CASE m # l
    BY <1>11, <2>3, <2>4, <2>5, LineStep
  <2>6. CASE m = l
    <3>1. ASSUME NEW i \in DOMAIN waiting'[l]
          PROVE  /\ waiting'[l][i].client \in Clients
                 /\ InPlay(waiting'[l][i].client, EntryOf(waiting'[l][i], l))
                 /\ \A j \in DOMAIN waiting'[l] :
                       waiting'[l][j].client = waiting'[l][i].client => j = i
      <4>1. /\ i + 1 \in DOMAIN waiting[l] /\ waiting'[l][i] = waiting[l][i + 1]
            /\ i \in 1 .. Len(waiting[l]) - 1
        BY <1>3, <1>11
      <4>2. ASSUME NEW j \in DOMAIN waiting'[l], waiting'[l][j].client = waiting'[l][i].client
            PROVE  j = i
        <5>1. /\ j + 1 \in DOMAIN waiting[l] /\ waiting'[l][j] = waiting[l][j + 1]
              /\ j \in 1 .. Len(waiting[l]) - 1
          BY <1>3, <1>11
        <5>2. j + 1 = i + 1
          BY <2>4, <2>6, <4>1, <4>2, <5>1
        <5> QED  BY <1>3, <4>1, <5>1, <5>2
      <4> QED  BY <2>4, <2>6, <4>1, <4>2
    <3> QED  BY <2>3, <2>6, <3>1, LineStep
  <2> QED  BY <2>5, <2>6
<1>24. \A d \in Clients : \A f : ToDo(d, f) => ToDo(d, f)'
  <2>1. \A f : ToDo(c, f) => ToDo(c, f)'
    BY <1>1, <1>10 DEF ToDo, ReleaseSent, Unreleased, SamePlaces, Rel
  <2> QED  BY <1>17, <2>1
<1>25. ASSUME NEW m \in Locks  PROVE Owing(m)'
  <2> SUFFICES ASSUME NEW h \in holders'[m]  PROVE ToDo(h.client, EntryOf(h, m))'
    BY DEF Owing
  <2>0. EntryOf(h, m)' = EntryOf(h, m)
    BY DEF EntryOf
  <2>1. CASE h \in holders[m]
    <3>1. h \in Request /\ ToDo(h.client, EntryOf(h, m))
      BY <1>2, <2>1 DEF TxnInv, TypeOK, Owing
    <3>2. h.client \in Clients
      BY <3>1 DEF Request
    <3> QED  BY <1>24, <3>1, <3>2
  <2>2. CASE h \notin holders[m]
    <3>1. m = l /\ h = r
      BY <1>9, <2>2
    <3>2. e \in grants'[c]
      BY <1>10
    <3> QED  BY <1>4, <3>1, <3>2 DEF ToDo
  <2> QED  BY <2>1, <2>2
<1>26. ClientInv(c)'
  BY <1>17, <1>19, <1>21, <1>22 DEF ClientInv
<1> QED  BY <1>4, <1>17, <1>18, <1>23, <1>25, <1>26 DEF TxnInv

\* A grant leaves.
LEMMA GrantStep ==
  ASSUME TxnInv, NEW l \in Locks, LockGrant(l)
  PROVE  TxnInv'
<1>1. \E r, c, e : r = Head(waiting[l]) /\ c = r.client /\ e = EntryOf(r, l)
  OBVIOUS
<1> QED  BY <1>1, GrantOf

-----------------------------------------------------------------------------
(* Bursts.                                                                 *)

\* A burst that has nothing for a lock.
LEMMA NothingAdded ==
  ASSUME TxnInv, NEW c \in Clients, NEW l \in Locks
  PROVE  toLock[c][l] \o << >> = toLock[c][l]
<1>1. OnTheWay(c, l)
  BY AtClient
<1> QED  BY <1>1, ShortQueues DEF OnTheWay

\* What a burst adds to the queue of a lock.
LEMMA BurstSent ==
  ASSUME TxnInv, NEW c \in Clients, NEW packets,
         toLock' = [toLock EXCEPT ![c] = Burst(c, packets)]
  PROVE  /\ DOMAIN toLock' = Clients /\ DOMAIN toLock'[c] = Locks
         /\ \A d \in Clients : d # c => toLock'[d] = toLock[d]
         /\ \A l \in Locks : toLock'[c][l] = toLock[c][l] \o SentTo(packets, l)
<1>1. DOMAIN toLock = Clients
  BY DEF TxnInv, TypeOK
<1>2. toLock'[c] = Burst(c, packets)
  BY <1>1
<1> QED  BY <1>1, <1>2 DEF Burst

-----------------------------------------------------------------------------
(* The RX lcore, continued.                                                *)

\* A rejected ACQUIRE is sent again.
LEMMA ResendOf ==
  ASSUME TxnInv, NEW c \in Clients, NEW e \in rejected[c], NEW l, l = e.lock,
         toLock' = [toLock EXCEPT ![c] = Burst(c, << Acq(e) >>)],
         rejected' = [rejected EXCEPT ![c] = @ \ {e}],
         SamePlaces, UNCHANGED << grants, holders, waiting >>
  PROVE  TxnInv'
<1>1. InPlay(c, e) /\ e \in Entries(c, last_txn[c])
  BY AtClient DEF Rejects, InPlay
<1>2. e \in Node(c) /\ l \in Locks /\ SentBack(c, l)
  BY <1>1, EntryFacts DEF SentBack
<1>3. /\ TypeOK /\ OnTheWay(c, l) /\ AtOnePlace(c, l) /\ NothingBehind(c, l)
      /\ Rejects(c) /\ Grants(c) /\ Nodes(c)
  BY <1>2, AtClient DEF TxnInv
<1>4. toLock[c][l] = << >> /\ ~ InLine(c, l) /\ ~ Granted(c, l) /\ ~ Noted(c, l)
  BY <1>2, <1>3 DEF NothingBehind, AtOnePlace
<1>5. \A m \in Locks : SentTo(<< Acq(e) >>, m) = IF m = l THEN << Acq(e) >> ELSE << >>
  <2> SUFFICES ASSUME NEW m \in Locks
               PROVE  SentTo(<< Acq(e) >>, m) = IF m = l THEN << Acq(e) >> ELSE << >>
    OBVIOUS
  <2> DEFINE p == << Acq(e) >>
  <2>1. p \in Seq({Acq(e)}) /\ DOMAIN p = {1} /\ p[1] = Acq(e) /\ Acq(e).entry = e
    BY ShortQueues DEF Acq
  <2> HIDE DEF p
  <2>2. CASE m = l
    <3>1. 1 \in DOMAIN p /\ \A k \in DOMAIN p : p[k].entry.lock = m <=> k = 1
      BY <2>1, <2>2
    <3>2. SentTo(p, m) = << p[1] >>
      BY <2>1, <3>1, SentToOne
    <3> QED  BY <2>1, <2>2, <3>2 DEF p
  <2>3. CASE m # l
    <3>1. \A k \in DOMAIN p : p[k].entry.lock # m
      BY <2>1, <2>3
    <3>2. SentTo(p, m) = << >>
      BY <3>1, SentToNone
    <3> QED  BY <2>3, <3>2 DEF p
  <2> QED  BY <2>2, <2>3
<1>6. OnlyQueue(c, l) /\ toLock'[c][l] = << Acq(e) >>
  <2>1. /\ DOMAIN toLock' = Clients /\ DOMAIN toLock'[c] = Locks
        /\ \A d \in Clients : d # c => toLock'[d] = toLock[d]
        /\ \A m \in Locks : toLock'[c][m] = toLock[c][m] \o SentTo(<< Acq(e) >>, m)
    BY BurstSent
  <2>2. ASSUME NEW m \in Locks, m # l  PROVE toLock'[c][m] = toLock[c][m]
    <3>1. SentTo(<< Acq(e) >>, m) = << >>
      BY ONLY <1>5, <2>2
    <3>2. toLock'[c][m] = toLock[c][m] \o << >>
      BY ONLY <2>1, <3>1, m \in Locks
    <3> QED  BY <3>2, NothingAdded
  <2>3. toLock'[c][l] = << Acq(e) >>
    BY <1>2, <1>4, <1>5, <2>1, ShortQueues
  <2> QED  BY <2>1, <2>2, <2>3 DEF OnlyQueue
<1>7. /\ rejected'[c] = rejected[c] \ {e} /\ DOMAIN rejected' = Clients
      /\ \A d \in Clients : d # c => rejected'[d] = rejected[d]
  BY <1>3 DEF TypeOK
<1>8. /\ \A d \in Clients : \A m \in Locks : InLine(d, m)' <=> InLine(d, m)
      /\ \A d \in Clients : \A m \in Locks : Granted(d, m)' <=> Granted(d, m)
      /\ \A d \in Clients : \A m \in Locks : Noted(d, m)' <=> Noted(d, m)
      /\ \A d \in Clients : \A f : Holds(d, f)' <=> Holds(d, f)
  BY DEF InLine, Granted, Noted, Holds, RequestOf, SamePlaces
<1>9. \A m \in Locks : m # l => SentBack(c, m)' <=> SentBack(c, m)
  BY <1>7 DEF SentBack
<1>10. ~ SentBack(c, l)'
  <2>1. ASSUME NEW f \in rejected'[c], f.lock = l  PROVE FALSE
    <3>1. f \in rejected[c] /\ f # e
      BY <1>7
    <3>2. f \in Entries(c, last_txn[c])
      BY <1>3, <3>1 DEF Rejects, InPlay
    <3> QED  BY <1>1, <2>1, <3>1, <3>2, SameEntry
  <2> QED  BY <2>1 DEF SentBack
<1>11. SameElsewhere(c, l)
  BY <1>3, <1>7, <1>8, <1>9 DEF SameElsewhere, TypeOK
<1>12. /\ \A d \in Clients : ClientTypes(d)' /\ \A f : InPlay(d, f)' <=> InPlay(d, f)
       /\ \A d \in Clients : d # c => ClientInv(d)' /\ \A f : ToDo(d, f) => ToDo(d, f)'
       /\ Place(c)' /\ Counts(c)'
       /\ \A m \in Locks : m # l =>
             OnTheWay(c, m)' /\ AtOnePlace(c, m)' /\ NothingBehind(c, m)'
       /\ holders' \in [Locks -> SUBSET Request] /\ waiting' \in [Locks -> Seq(Request)]
             => TypeOK'
  BY <1>2, <1>6, <1>11, LockStep
<1>13. TypeOK'
  BY <1>3, <1>12 DEF TypeOK
<1>14. OnTheWay(c, l)' /\ AtOnePlace(c, l)' /\ NothingBehind(c, l)'
  <2>1. Node(c)' = Node(c) /\ \A f : Acq(f)' = Acq(f)
    BY DEF Node, Acq, Txns
  <2>2. InPlay(c, e)'
    BY <1>1, <1>12
  <2>3. OnTheWay(c, l)'
    BY <1>2, <1>6, <2>1, <2>2 DEF OnTheWay
  <2>4. ~ InLine(c, l)' /\ ~ Granted(c, l)' /\ ~ Noted(c, l)'
    BY <1>2, <1>4, <1>8
  <2>5. AtOnePlace(c, l)'
    BY <1>10, <2>4 DEF AtOnePlace
  <2>6. NothingBehind(c, l)'
    BY <1>10, <2>4 DEF NothingBehind
  <2> QED  BY <2>3, <2>5, <2>6
<1>15. Rejects(c)' /\ Grants(c)'
  BY <1>3, <1>7, <1>8, <1>12 DEF Rejects, Grants
<1>16. Nodes(c)'
  <2>1. ASSUME NEW t \in Txns(c), NEW i \in DOMAIN txn_queues[c][t]
        PROVE  txn_queues[c][t][i].lock \in Locks /\ txn_queues[c][t][i].lock # l
    <3>1. txn_queues[c][t][i].lock \in Locks
      BY <1>3, EntryFacts DEF Nodes, InPlay
    <3> QED  BY <1>4, <3>1 DEF Noted
  <2>2. \A t \in Txns(c) : \A i \in DOMAIN txn_queues[c][t] :
           toLock'[c][txn_queues[c][t][i].lock] = toLock[c][txn_queues[c][t][i].lock]
    BY <1>6, <2>1 DEF OnlyQueue
  <2> QED  BY <1>3, <1>8, <1>12, <2>2 DEF Nodes, SamePlaces
<1>17. \A f : f.lock \in Locks /\ ToDo(c, f) => ToDo(c, f)'
  <2> SUFFICES ASSUME NEW f, f.lock \in Locks, ToDo(c, f)  PROVE ToDo(c, f)'
    OBVIOUS
  <2>1. CASE ReleaseSent(c, f)
    <3>1. f.lock # l
      BY <1>4, <2>1 DEF ReleaseSent
    <3>2. toLock'[c][f.lock] = toLock[c][f.lock]
      BY <1>6, <3>1 DEF OnlyQueue
    <3> QED  BY <2>1, <3>2 DEF ToDo, ReleaseSent, Rel
  <2>2. CASE f \in grants[c] \/ Unreleased(c, f)
    BY <2>2 DEF ToDo, Unreleased, SamePlaces
  <2> QED  BY <2>1, <2>2 DEF ToDo
<1>18. ASSUME NEW m \in Locks  PROVE Line(m)' /\ Owing(m)'
  <2>1. Line(m)'
    BY <1>12, LineFrame
  <2>2. \A d \in Clients : \A f : f.lock = m /\ ToDo(d, f) => ToDo(d, f)'
    BY <1>12, <1>17
  <2>3. Owing(m)'
    BY <2>2, OwingFrame
  <2> QED  BY <2>1, <2>3
<1>19. ClientInv(c)'
  BY <1>12, <1>14, <1>15, <1>16 DEF ClientInv
<1> QED  BY <1>12, <1>13, <1>18, <1>19 DEF TxnInv

\* The RX lcore sends a rejected ACQUIRE again.
LEMMA ResendStep ==
  ASSUME TxnInv, NEW c \in Clients, RxResend(c)
  PROVE  TxnInv'
<1>1. PICK e \in rejected[c] :
         /\ toLock' = [toLock EXCEPT ![c] = Burst(c, << Acq(e) >>)]
         /\ rejected' = [rejected EXCEPT ![c] = @ \ {e}]
         /\ SamePlaces /\ UNCHANGED << grants, holders, waiting >>
  BY DEF RxResend, Acq, SamePlaces, txVars, rxVars, lockVars
<1> QED  BY <1>1, ResendOf

\* A grant becomes a node.
LEMMA EnqueueOf ==
  ASSUME TxnInv, NEW c \in Clients, NEW g \in grants[c], NEW l, l = g.lock,
         NEW u, u = g.txn,
         received[c] = << >>,
         txn_queues' = [txn_queues EXCEPT ![c][u] = Append(@, g)],
         received' = [received EXCEPT ![c] = << g >>],
         grants' = [grants EXCEPT ![c] = @ \ {g}],
         UNCHANGED << idx, last_txn, last_txn_idx, txn_s, deadlocked, tx_mbufs, txn_r >>,
         UNCHANGED << toLock, rejected, holders, waiting >>
  PROVE  TxnInv'
<1>1. InPlay(c, g) /\ g \in Entries(c, last_txn[c]) /\ Holds(c, g)
  BY AtClient DEF Grants, InPlay
<1>2. /\ g \in Node(c) /\ l \in Locks /\ Granted(c, l) /\ u = last_txn[c] /\ u \in Txns(c)
  BY <1>1, EntryFacts DEF Granted
<1>3. /\ TypeOK /\ OnTheWay(c, l) /\ AtOnePlace(c, l) /\ NothingBehind(c, l)
      /\ ClientTypes(c) /\ Place(c) /\ Counts(c) /\ Rejects(c) /\ Grants(c) /\ Nodes(c)
  BY <1>2, AtClient DEF TxnInv
<1>4. /\ toLock[c][l] = << >> /\ ~ Asking(c, l) /\ ~ SentBack(c, l) /\ ~ InLine(c, l)
      /\ ~ Noted(c, l)
  BY <1>2, <1>3 DEF NothingBehind, AtOnePlace
<1>5. /\ DOMAIN txn_queues = Clients /\ DOMAIN received = Clients /\ DOMAIN grants = Clients
      /\ txn_queues[c] \in [Txns(c) -> Seq(Node(c))]
  BY <1>3 DEF TypeOK, ClientTypes
<1>6. /\ DOMAIN txn_queues' = Clients
      /\ txn_queues'[c] = [txn_queues[c] EXCEPT ![u] = Append(txn_queues[c][u], g)]
      /\ \A d \in Clients : d # c => txn_queues'[d] = txn_queues[d]
  <2>1. txn_queues' = [txn_queues EXCEPT ![c] =
                          [txn_queues[c] EXCEPT ![u] = Append(txn_queues[c][u], g)]]
    OBVIOUS
  <2> QED  BY <1>5, <2>1
<1> DEFINE q == txn_queues[c][u]
           n == Len(q) + 1
<1>7. /\ q \in Seq(Node(c)) /\ Len(q) \in Nat /\ DOMAIN q = 1 .. Len(q)
      /\ txn_s[c][u] <= txn_r[c][u] /\ txn_r[c][u] = Len(q)
      /\ txn_s[c][u] \in Nat
  BY <1>2, NodeFacts
<1>8. /\ txn_queues'[c][u] = Append(q, g) /\ Append(q, g) \in Seq(Node(c))
      /\ \A t \in Txns(c) : t # u => txn_queues'[c][t] = txn_queues[c][t]
      /\ txn_queues'[c] \in [Txns(c) -> Seq(Node(c))]
  <2>1. Append(q, g) \in Seq(Node(c))
    BY <1>2, <1>7, AppendProperties
  <2> QED  BY <1>2, <1>5, <1>6, <2>1
<1>9. /\ DOMAIN txn_queues'[c][u] = 1 .. n /\ Len(txn_queues'[c][u]) = n
      /\ \A i \in 1 .. Len(q) : txn_queues'[c][u][i] = q[i]
      /\ txn_queues'[c][u][n] = g
  BY <1>2, <1>7, <1>8, AppendProperties, LenProperties
<1>10. /\ received'[c] = << g >> /\ DOMAIN received' = Clients
       /\ \A d \in Clients : d # c => received'[d] = received[d]
       /\ grants'[c] = grants[c] \ {g} /\ DOMAIN grants' = Clients
       /\ \A d \in Clients : d # c => grants'[d] = grants[d]
  BY <1>5
<1>11. /\ \A d \in Clients : \A m \in Locks : InLine(d, m)' <=> InLine(d, m)
       /\ \A d \in Clients : \A m \in Locks : SentBack(d, m)' <=> SentBack(d, m)
       /\ \A d \in Clients : \A m \in Locks : Asking(d, m)' <=> Asking(d, m)
       /\ \A d \in Clients : \A f : Holds(d, f)' <=> Holds(d, f)
  BY DEF InLine, SentBack, Asking, Holds, RequestOf
<1>12. /\ \A f : InPlay(c, f)' <=> InPlay(c, f)
       /\ AllSent(c)' <=> AllSent(c)
  BY PlayFrame
<1>13. ASSUME NEW d \in Clients, d # c
       PROVE  /\ ClientInv(d)' /\ ClientTypes(d)'
              /\ \A f : InPlay(d, f)' <=> InPlay(d, f)
              /\ \A f : ToDo(d, f) => ToDo(d, f)'
  <2>1. SameClient(d)
    BY <1>6, <1>10, <1>13 DEF SameClient
  <2> QED  BY <1>11, <2>1, ClientFrame
<1>14. ClientTypes(c)'
  <2>1. received'[c] = << >> \/ \E f \in Node(c) : received'[c] = << f >>
    BY <1>2, <1>10
  <2> QED  BY <1>3, <1>8, <2>1 DEF ClientTypes
<1>15. TypeOK'
  BY <1>3, <1>6, <1>10, <1>13, <1>14 DEF TypeOK
<1>16. Place(c)'
  BY <1>3, <1>12 DEF Place, Acquires, Acq
<1>17. Counts(c)'
  <2> SUFFICES ASSUME NEW t \in Txns(c)
               PROVE  /\ txn_s[c][t] <= txn_r[c][t]
                      /\ Len(txn_queues'[c][t]) = txn_r[c][t] +
                            (IF received'[c] # << >> /\ Head(received'[c]).txn = t THEN 1 ELSE 0)
                      /\ ~ deadlocked[c][t] => txn_s[c][t] = 0
    BY DEF Counts
  <2>1. /\ txn_s[c][t] <= txn_r[c][t]
        /\ Len(txn_queues[c][t]) = txn_r[c][t] + 0
        /\ ~ deadlocked[c][t] => txn_s[c][t] = 0
        /\ txn_r[c][t] \in Nat
    BY <1>3 DEF Counts, ClientTypes
  <2>2. received'[c] # << >> /\ Head(received'[c]).txn = u
    BY <1>10, ShortQueues
  <2>3. Len(txn_queues'[c][t]) = Len(txn_queues[c][t]) + IF u = t THEN 1 ELSE 0
    <3>1. CASE t = u
      BY <1>9, <3>1
    <3>2. CASE t # u
      BY <1>8, <2>1, <3>2
    <3> QED  BY <3>1, <3>2
  <2> QED  BY <2>1, <2>2, <2>3
<1>18. Rejects(c)' /\ Grants(c)'
  BY <1>3, <1>10, <1>11, <1>12 DEF Rejects, Grants
<1>19. \A m \in Locks : Granted(c, m)' <=> Granted(c, m) /\ m # l
  <2>1. ASSUME NEW f \in grants'[c], f.lock = l  PROVE FALSE
    <3>1. f \in grants[c] /\ f # g
      BY <1>10
    <3>2. f \in Entries(c, last_txn[c])
      BY <1>3, <3>1 DEF Grants, InPlay
    <3> QED  BY <1>1, <2>1, <3>1, <3>2, SameEntry
  <2> QED  BY <1>10, <2>1 DEF Granted
<1>20. \A m \in Locks : Noted(c, m)' <=> Noted(c, m) \/ m = l
  <2> SUFFICES ASSUME NEW m \in Locks  PROVE Noted(c, m)' <=> Noted(c, m) \/ m = l
    OBVIOUS
  <2>1. Noted(c, m)' => Noted(c, m) \/ m = l
    <3> SUFFICES ASSUME NEW t \in Txns(c), NEW i \in DOMAIN txn_queues'[c][t],
                        txn_queues'[c][t][i].lock = m
                 PROVE  Noted(c, m) \/ m = l
      BY DEF Noted
    <3>1. CASE t # u
      BY <1>8, <3>1 DEF Noted
    <3>2. CASE t = u /\ i \in 1 .. Len(q)
      <4>1. txn_queues[c][u][i].lock = m /\ i \in DOMAIN txn_queues[c][u]
        BY <1>7, <1>9, <3>2
      <4> QED  BY <1>2, <4>1 DEF Noted
    <3>3. CASE t = u /\ i = n
      BY <1>9, <3>3
    <3> QED  BY <1>7, <1>9, <3>1, <3>2, <3>3
  <2>2. Noted(c, m) => Noted(c, m)'
    <3> SUFFICES ASSUME NEW t \in Txns(c), NEW i \in DOMAIN txn_queues[c][t],
                        txn_queues[c][t][i].lock = m
                 PROVE  Noted(c, m)'
      BY DEF Noted
    <3>1. i \in DOMAIN txn_queues'[c][t] /\ txn_queues'[c][t][i] = txn_queues[c][t][i]
      <4>1. CASE t # u
        BY <1>8, <4>1
      <4>2. CASE t = u
        BY <1>7, <1>9, <4>2
      <4> QED  BY <4>1, <4>2
    <3> QED  BY <3>1 DEF Noted
  <2>3. Noted(c, l)'
    <3>1. n \in DOMAIN txn_queues'[c][u] /\ txn_queues'[c][u][n].lock = l
      BY <1>7, <1>9
    <3> QED  BY <1>2, <3>1 DEF Noted
  <2> QED  BY <2>1, <2>2, <2>3
<1>21. ASSUME NEW m \in Locks
       PROVE  OnTheWay(c, m)' /\ AtOnePlace(c, m)' /\ NothingBehind(c, m)'
  <2>1. OnTheWay(c, m) /\ AtOnePlace(c, m) /\ NothingBehind(c, m)
    BY AtClient
  <2>2. OnTheWay(c, m)'
    <3>1. Node(c)' = Node(c) /\ \A f : Rel(f)' = Rel(f) /\ Acq(f)' = Acq(f)
      BY DEF Node, Rel, Acq, Txns
    <3> QED  BY <1>11, <1>12, <2>1, <3>1 DEF OnTheWay
  <2>3. AtOnePlace(c, m)'
    BY <1>4, <1>11, <1>19, <1>20, <2>1 DEF AtOnePlace
  <2>4. NothingBehind(c, m)'
    BY <1>11, <1>19, <2>1 DEF NothingBehind
  <2> QED  BY <2>2, <2>3, <2>4
<1>22. Nodes(c)'
  <2> SUFFICES ASSUME NEW t \in Txns(c), NEW i \in DOMAIN txn_queues'[c][t],
                      NEW e, e = txn_queues'[c][t][i]
               PROVE  /\ InPlay(c, e) /\ e.txn = t
                      /\ i > txn_s[c][t] => Holds(c, e) /\ toLock[c][e.lock] = << >>
                      /\ \A j \in DOMAIN txn_queues'[c][t] :
                            txn_queues'[c][t][j].lock = e.lock => j = i
    BY <1>11, <1>12 DEF Nodes
  <2>1. CASE t # u
    BY <1>3, <1>8, <2>1 DEF Nodes
  <2>2. CASE t = u
    <3>0. \A j \in 1 .. Len(q) : q[j].lock # l
      BY <1>2, <1>4, <1>7 DEF Noted
    <3>1. CASE i \in 1 .. Len(q)
      <4>1. e = q[i] /\ i \in DOMAIN q
        BY <1>7, <1>9, <2>2, <3>1
      <4>2. /\ InPlay(c, e) /\ e.txn = t
            /\ i > txn_s[c][t] => Holds(c, e) /\ toLock[c][e.lock] = << >>
            /\ \A j \in 1 .. Len(q) : q[j].lock = e.lock => j = i
        BY <1>3, <1>7, <2>2, <4>1 DEF Nodes
      <4>3. e.lock # l
        BY <3>0, <3>1, <4>1
      <4>4. ASSUME NEW j \in 1 .. n, txn_queues'[c][t][j].lock = e.lock  PROVE j = i
        <5>1. CASE j = n
          BY <1>9, <2>2, <4>3, <4>4, <5>1
        <5>2. CASE j \in 1 .. Len(q)
          BY <1>9, <2>2, <4>2, <4>4, <5>2
        <5>3. j \in 1 .. Len(q) \/ j = n
          BY ONLY <1>7, <4>4
        <5> QED  BY <5>1, <5>2, <5>3
      <4> QED  BY <1>9, <2>2, <4>2, <4>4
    <3>2. CASE i = n
      <4>1. e = g
        BY <1>9, <2>2, <3>2
      <4>2. ASSUME NEW j \in 1 .. n, txn_queues'[c][t][j].lock = l  PROVE j = n
        <5>1. CASE j \in 1 .. Len(q)
          BY <1>9, <2>2, <3>0, <4>2, <5>1
        <5>2. j \in 1 .. Len(q) \/ j = n
          BY ONLY <1>7, <4>2
        <5> QED  BY <5>1, <5>2
      <4> QED  BY <1>1, <1>4, <1>9, <2>2, <3>2, <4>1, <4>2
    <3>3. i \in 1 .. Len(q) \/ i = n
      <4>1. i \in 1 .. n
        BY <1>9, <2>2
      <4> QED  BY ONLY <1>7, <4>1
    <3> QED  BY ONLY <3>1, <3>2, <3>3
  <2> QED  BY <2>1, <2>2
<1>23. \A f : ToDo(c, f) => ToDo(c, f)'
  <2> SUFFICES ASSUME NEW f, ToDo(c, f)  PROVE ToDo(c, f)'
    OBVIOUS
  <2>1. CASE ReleaseSent(c, f)
    BY <2>1 DEF ToDo, ReleaseSent, Rel
  <2>2. CASE f \in grants[c] /\ f # g
    BY <1>10, <2>2 DEF ToDo
  <2>3. CASE f = g
    <3>1. n > txn_s[c][u] /\ n \in DOMAIN txn_queues'[c][u] /\ txn_queues'[c][u][n] = f
      BY <1>7, <1>9, <2>3
    <3> QED  BY <1>2, <2>3, <3>1 DEF ToDo, Unreleased
  <2>4. CASE Unreleased(c, f)
    <3>1. PICK i \in DOMAIN txn_queues[c][f.txn] :
                  i > txn_s[c][f.txn] /\ txn_queues[c][f.txn][i] = f
      BY <2>4 DEF Unreleased
    <3>2. i \in DOMAIN txn_queues'[c][f.txn] /\ txn_queues'[c][f.txn][i] = f
      <4>1. CASE f.txn # u
        BY <1>8, <2>4, <3>1, <4>1 DEF Unreleased
      <4>2. CASE f.txn = u
        BY <1>7, <1>9, <3>1, <4>2
      <4> QED  BY <4>1, <4>2
    <3> QED  BY <2>4, <3>1, <3>2 DEF ToDo, Unreleased
  <2> QED  BY <2>1, <2>2, <2>3, <2>4 DEF ToDo
<1>24. ASSUME NEW m \in Locks  PROVE Line(m)' /\ Owing(m)'
  <2>1. Line(m)'
    BY <1>12, <1>13, LineFrame
  <2>2. \A d \in Clients : \A f : f.lock = m /\ ToDo(d, f) => ToDo(d, f)'
    BY <1>13, <1>23
  <2>3. Owing(m)'
    BY <2>2, OwingFrame
  <2> QED  BY <2>1, <2>3
<1>25. ClientInv(c)'
  BY <1>16, <1>17, <1>18, <1>21, <1>22 DEF ClientInv
<1> QED  BY <1>13, <1>15, <1>24, <1>25 DEF TxnInv

\* The RX lcore queues a grant.
LEMMA EnqueueStep ==
  ASSUME TxnInv, NEW c \in Clients, RxEnqueue(c)
  PROVE  TxnInv'
<1>1. PICK g \in grants[c] :
         /\ received[c] = << >>
         /\ txn_queues' = [txn_queues EXCEPT ![c][g.txn] = Append(@, g)]
         /\ received' = [received EXCEPT ![c] = << g >>]
         /\ grants' = [grants EXCEPT ![c] = @ \ {g}]
         /\ UNCHANGED << idx, last_txn, last_txn_idx, txn_s, deadlocked, tx_mbufs, txn_r >>
         /\ UNCHANGED << toLock, rejected, holders, waiting >>
  BY DEF RxEnqueue, txVars, lockVars
<1>2. \E l, u : l = g.lock /\ u = g.txn
  OBVIOUS
<1> QED  BY <1>1, <1>2, EnqueueOf

-----------------------------------------------------------------------------
(* What the TX lcore sends to one lock.                                    *)

\* Of two runs of packets to distinct locks, each sends at most one.
LEMMA SentToMixed ==
  ASSUME NEW T, NEW a \in Seq(T), NEW b \in Seq(T), NEW l,
         \A i, j \in 1 .. Len(a) : a[i].entry.lock = a[j].entry.lock => i = j,
         \A i, j \in 1 .. Len(b) : b[i].entry.lock = b[j].entry.lock => i = j
  PROVE  \E head, tail :
            /\ SentTo(a \o b, l) = head \o tail
            /\ \/ head = << >> /\ \A i \in 1 .. Len(a) : a[i].entry.lock # l
               \/ \E i \in 1 .. Len(a) : a[i].entry.lock = l /\ head = << a[i] >>
            /\ \/ tail = << >> /\ \A j \in 1 .. Len(b) : b[j].entry.lock # l
               \/ \E j \in 1 .. Len(b) : b[j].entry.lock = l /\ tail = << b[j] >>
<1> DEFINE p == a \o b
           m == Len(a)
           n == Len(b)
<1>1. /\ p \in Seq(T) /\ m \in Nat /\ n \in Nat /\ DOMAIN p = 1 .. m + n
      /\ \A k \in 1 .. m + n : p[k] = IF k <= m THEN a[k] ELSE b[k - m]
  BY ConcatProperties, LenProperties
<1>2. /\ \A k \in 1 .. m : k \in 1 .. m + n /\ p[k] = a[k]
      /\ \A k \in 1 .. n : m + k \in 1 .. m + n /\ p[m + k] = b[k]
      /\ \A k \in 1 .. m + n : k \in 1 .. m \/ k - m \in 1 .. n
  BY <1>1
<1> HIDE DEF p, m, n
<1>3. CASE (\A i \in 1 .. m : a[i].entry.lock # l) /\ (\A j \in 1 .. n : b[j].entry.lock # l)
  <2>1. ASSUME NEW k \in DOMAIN p  PROVE p[k].entry.lock # l
    <3>1. CASE k \in 1 .. m
      BY <1>2, <1>3, <3>1
    <3>2. CASE k - m \in 1 .. n
      <4>1. p[k] = b[k - m]
        BY ONLY <1>1, <3>2, k \in DOMAIN p
      <4> QED  BY <1>3, <3>2, <4>1
    <3> QED  BY <1>1, <1>2, <3>1, <3>2
  <2>2. SentTo(p, l) = << >> \o << >>
    BY <2>1, SentToNone, ShortQueues
  <2> QED  BY <1>3, <2>2 DEF p, m, n
<1>4. ASSUME NEW i \in 1 .. m, a[i].entry.lock = l, \A j \in 1 .. n : b[j].entry.lock # l
      PROVE  SentTo(p, l) = << a[i] >> \o << >>
  <2>1. i \in DOMAIN p /\ p[i] = a[i]
    BY <1>1, <1>2
  <2>2. \A k \in 1 .. m : a[k].entry.lock = l => k = i
    BY <1>4 DEF m
  <2>3. ASSUME NEW k \in DOMAIN p  PROVE p[k].entry.lock = l <=> k = i
    <3>1. CASE k <= m
      <4>1. k \in 1 .. m /\ p[k] = a[k]
        BY <1>1, <3>1
      <4> QED  BY <1>4, <2>2, <4>1
    <3>2. CASE k > m
      <4>1. k - m \in 1 .. n /\ p[k] = b[k - m] /\ k # i
        BY ONLY <1>1, <3>2, k \in DOMAIN p, i \in 1 .. m
      <4> QED  BY <1>4, <4>1
    <3> QED  BY <1>1, <3>1, <3>2
  <2>4. SentTo(p, l) = << p[i] >>
    BY ONLY <1>1, <2>1, <2>3, SentToOne
  <2> QED  BY <2>1, <2>4, ShortQueues
<1>5. ASSUME NEW j \in 1 .. n, b[j].entry.lock = l, \A i \in 1 .. m : a[i].entry.lock # l
      PROVE  SentTo(p, l) = << >> \o << b[j] >>
  <2>1. m + j \in DOMAIN p /\ p[m + j] = b[j]
    BY <1>1, <1>2
  <2>2. \A k \in 1 .. n : b[k].entry.lock = l => k = j
    BY <1>5 DEF n
  <2>3. ASSUME NEW k \in DOMAIN p  PROVE p[k].entry.lock = l <=> k = m + j
    <3>1. CASE k <= m
      <4>1. k \in 1 .. m /\ p[k] = a[k] /\ k # m + j
        BY <1>1, <3>1
      <4> QED  BY <1>5, <4>1
    <3>2. CASE k > m
      <4>1. k - m \in 1 .. n /\ p[k] = b[k - m]
        BY <1>1, <3>2
      <4>2. k = m + j <=> k - m = j
        <5>1. k \in Int /\ m \in Int /\ j \in Int
          BY ONLY <1>1, k \in DOMAIN p, j \in 1 .. n
        <5> QED  BY ONLY <5>1
      <4> QED  BY <1>5, <2>2, <4>1, <4>2
    <3> QED  BY <1>1, <3>1, <3>2
  <2>4. SentTo(p, l) = << p[m + j] >>
    BY ONLY <1>1, <2>1, <2>3, SentToOne
  <2> QED  BY <2>1, <2>4, ShortQueues
<1>6. ASSUME NEW i \in 1 .. m, a[i].entry.lock = l, NEW j \in 1 .. n, b[j].entry.lock = l
      PROVE  SentTo(p, l) = << a[i] >> \o << b[j] >>
  <2>1. /\ m + j \in DOMAIN p /\ p[m + j] = b[j] /\ i \in DOMAIN p /\ p[i] = a[i]
        /\ i < m + j
    BY <1>1, <1>2
  <2>2. /\ \A k \in 1 .. m : a[k].entry.lock = l => k = i
        /\ \A k \in 1 .. n : b[k].entry.lock = l => k = j
    BY <1>6 DEF m, n
  <2>3. ASSUME NEW k \in DOMAIN p  PROVE p[k].entry.lock = l <=> k \in {i, m + j}
    <3>1. CASE k <= m
      <4>1. k \in 1 .. m /\ p[k] = a[k] /\ k # m + j
        BY <1>1, <3>1
      <4> QED  BY <1>6, <2>2, <4>1
    <3>2. CASE k > m
      <4>1. k - m \in 1 .. n /\ p[k] = b[k - m] /\ k # i
        BY ONLY <1>1, <3>2, k \in DOMAIN p, i \in 1 .. m
      <4>2. k = m + j <=> k - m = j
        <5>1. k \in Int /\ m \in Int /\ j \in Int
          BY ONLY <1>1, k \in DOMAIN p, j \in 1 .. n
        <5> QED  BY ONLY <5>1
      <4> QED  BY <1>6, <2>2, <4>1, <4>2
    <3> QED  BY <1>1, <3>1, <3>2
  <2>4. SentTo(p, l) = << p[i], p[m + j] >>
    BY ONLY <1>1, <2>1, <2>3, SentToTwo
  <2> QED  BY <2>1, <2>4, ShortQueues
<1>7. m = Len(a) /\ n = Len(b) /\ p = a \o b
  BY DEF m, n, p
<1> HIDE DEF SentTo
<1>8. CASE (\E i \in 1 .. m : a[i].entry.lock = l) /\ (\A j \in 1 .. n : b[j].entry.lock # l)
  BY <1>4, <1>7, <1>8
<1>9. CASE (\E j \in 1 .. n : b[j].entry.lock = l) /\ (\A i \in 1 .. m : a[i].entry.lock # l)
  BY ONLY <1>5, <1>7, <1>9
<1>10. CASE (\E i \in 1 .. m : a[i].entry.lock = l) /\ (\E j \in 1 .. n : b[j].entry.lock = l)
  <2>1. PICK i \in 1 .. m : a[i].entry.lock = l
    BY <1>10
  <2>2. PICK j \in 1 .. n : b[j].entry.lock = l
    BY <1>10
  <2>3. SentTo(p, l) = << a[i] >> \o << b[j] >>
    BY <1>6, <2>1, <2>2
  <2> QED  BY ONLY <1>7, <2>1, <2>2, <2>3, i \in 1 .. m, j \in 1 .. n, Zenon
<1> QED  BY <1>3, <1>8, <1>9, <1>10

ToBeReleased(c, u) == {Rel(txn_queues[c][u][k]) : k \in DOMAIN txn_queues[c][u]}

\* The RELEASEs are of the nodes counted and not yet released.
LEMMA ToReleaseFacts ==
  ASSUME TxnInv, NEW c \in Clients, NEW u \in Txns(c), u = last_txn[c],
         NEW s, s = txn_s[c][u], NEW r, r = txn_r[c][u]
  PROVE  LET q == txn_queues[c][u]
             a == ToRelease(c)
         IN  /\ s \in Nat /\ r \in Nat /\ s <= r
             /\ a \in Seq(ToBeReleased(c, u)) /\ Len(a) = r - s
             /\ \A i \in 1 .. r - s : s + i \in DOMAIN q /\ a[i] = Rel(q[s + i])
             /\ r = s => a = << >>
<1> DEFINE q == txn_queues[c][u]
           a == ToRelease(c)
           T == ToBeReleased(c, u)
           nodes == SubSeq(q, s + 1, r)
<1>1. /\ s \in Nat /\ r \in Nat /\ s <= r /\ q \in Seq(Node(c))
      /\ Len(q) \in Nat /\ r <= Len(q) /\ DOMAIN q = 1 .. Len(q)
  BY NodeFacts
<1>2. \A k \in s + 1 .. r : k \in 1 .. Len(q) /\ q[k] \in Node(c)
  BY <1>1, ElementOfSeq
<1>3. /\ nodes \in Seq(Node(c)) /\ Len(nodes) = r - s
      /\ \A i \in 1 .. r - s : nodes[i] = q[s + i]
  <2>1. s + 1 \in Int /\ r \in Int /\ r - (s + 1) + 1 = r - s
    BY <1>1
  <2>2. /\ nodes \in Seq(Node(c)) /\ Len(nodes) = IF s + 1 <= r THEN r - (s + 1) + 1 ELSE 0
        /\ \A i \in 1 .. r - (s + 1) + 1 : nodes[i] = q[(s + 1) + i - 1]
    <3>1. \A k \in s + 1 .. r : q[k] \in Node(c)
      BY <1>2
    <3> HIDE DEF q
    <3> QED  BY ONLY <2>1, <3>1, SubSeqProperties
  <2>3. \A i \in 1 .. r - s : (s + 1) + i - 1 = s + i
    BY <1>1
  <2>4. (s + 1 <= r) \/ (r - s = 0)
    BY <1>1
  <2> HIDE DEF nodes, q
  <2>5. Len(nodes) = r - s
    BY ONLY <1>1, <2>2, <2>4
  <2>6. \A i \in 1 .. r - s : nodes[i] = q[s + i]
    BY ONLY <2>1, <2>2, <2>3
  <2> QED  BY <2>2, <2>5, <2>6
<1>4. a = [i \in DOMAIN nodes |-> Rel(nodes[i])]
  BY DEF ToRelease, Rel
<1>5. DOMAIN nodes = 1 .. r - s
  <2> HIDE DEF nodes
  <2> QED  BY <1>3, LenProperties
<1> HIDE DEF nodes, a, q
<1>6. \A i \in 1 .. r - s : s + i \in DOMAIN q /\ a[i] = Rel(q[s + i])
  <2> SUFFICES ASSUME NEW i \in 1 .. r - s  PROVE s + i \in DOMAIN q /\ a[i] = Rel(q[s + i])
    OBVIOUS
  <2>1. s + i \in s + 1 .. r
    BY <1>1
  <2> QED  BY <1>1, <1>2, <1>3, <1>4, <1>5, <2>1
<1>7. a \in [1 .. r - s -> T] /\ r - s \in Nat
  <2>1. \A k \in DOMAIN q : Rel(q[k]) \in T
    BY DEF ToBeReleased, q
  <2>2. \A i \in 1 .. r - s : a[i] \in T
    BY ONLY <1>6, <2>1
  <2> HIDE DEF T
  <2>3. r - s \in Nat
    BY <1>1
  <2>4. a = [i \in 1 .. r - s |-> a[i]]
    BY ONLY <1>4, <1>5
  <2> QED  BY ONLY <2>2, <2>3, <2>4
<1>8. a \in Seq(T) /\ Len(a) = r - s
  <2> HIDE DEF T
  <2>1. a \in Seq(T)
    BY <1>7, SeqDef
  <2>2. DOMAIN a = 1 .. Len(a) /\ Len(a) \in Nat /\ DOMAIN a = 1 .. r - s
    BY <1>7, <2>1, LenProperties
  <2> QED  BY <1>7, <2>1, <2>2
<1>9. r = s => a = << >>
  <2> HIDE DEF T
  <2> QED  BY <1>1, <1>8, EmptySeq
<1> QED  BY <1>1, <1>6, <1>8, <1>9 DEF a, q

AcquiresFor(A) == {Acq(e) : e \in A}

\* The queue to a lock after a burst: what was there, or the RELEASE of a lock
\* still held; then perhaps an ACQUIRE of A.
AfterBurst(c, l, u, s, r, A) ==
    \E base, tail :
       /\ toLock'[c][l] = base \o tail
       /\ \/ /\ base = toLock[c][l]
             /\ \A i \in s + 1 .. r : txn_queues[c][u][i].lock # l
          \/ \E i \in s + 1 .. r :
                /\ i \in DOMAIN txn_queues[c][u]
                /\ txn_queues[c][u][i].lock = l
                /\ base = << Rel(txn_queues[c][u][i]) >>
                /\ toLock[c][l] = << >>
                /\ Holds(c, txn_queues[c][u][i])
       /\ \/ tail = << >>
          \/ \E e \in A : e.lock = l /\ tail = << Acq(e) >>

\* A burst of these and of ACQUIREs puts at most a RELEASE of a lock still held
\* on an empty queue, and an ACQUIRE behind what is there.
LEMMA BurstOf ==
  ASSUME TxnInv, NEW c \in Clients, NEW l \in Locks, NEW u \in Txns(c), u = last_txn[c],
         NEW s, s = txn_s[c][u], NEW r, r = txn_r[c][u],
         NEW A, NEW acq \in Seq(AcquiresFor(A)),
         \A i, j \in 1 .. Len(acq) : acq[i].entry.lock = acq[j].entry.lock => i = j,
         toLock' = [toLock EXCEPT ![c] = Burst(c, ToRelease(c) \o acq)]
  PROVE  AfterBurst(c, l, u, s, r, A)
<1> DEFINE q == txn_queues[c][u]
           a == ToRelease(c)
           T == ToBeReleased(c, u) \cup AcquiresFor(A)
<1>1. /\ s \in Nat /\ r \in Nat /\ s <= r
      /\ a \in Seq(ToBeReleased(c, u)) /\ Len(a) = r - s
      /\ \A i \in 1 .. r - s : s + i \in DOMAIN q /\ a[i] = Rel(q[s + i])
  BY ONLY TxnInv, c \in Clients, u \in Txns(c), u = last_txn[c], s = txn_s[c][u],
          r = txn_r[c][u], ToReleaseFacts, SMTT(20)
<1>2. Nodes(c) /\ OnTheWay(c, l)
  BY AtClient
<1>3. toLock'[c][l] = toLock[c][l] \o SentTo(a \o acq, l)
  BY ONLY TxnInv, c \in Clients, l \in Locks,
          toLock' = [toLock EXCEPT ![c] = Burst(c, a \o acq)], BurstSent
<1>4. a \in Seq(T) /\ acq \in Seq(T)
  <2>1. \A X, Y : X \subseteq Y => Seq(X) \subseteq Seq(Y)
    BY SeqDef
  <2> DEFINE X == ToBeReleased(c, u)
             Y == AcquiresFor(A)
  <2>2. X \subseteq T /\ Y \subseteq T /\ a \in Seq(X) /\ acq \in Seq(Y)
    BY <1>1
  <2> HIDE DEF X, Y, T, a
  <2> QED  BY <2>1, <2>2
<1>5. \A i \in 1 .. r - s : a[i].entry = q[s + i] /\ a[i].entry.lock = q[s + i].lock
  <2> SUFFICES ASSUME NEW i \in 1 .. r - s
               PROVE  a[i].entry = q[s + i]
    OBVIOUS
  <2>1. a[i] = Rel(q[s + i])
    BY <1>1
  <2> QED  BY ONLY <2>1 DEF Rel
<1>6. \A i, j \in 1 .. Len(a) : a[i].entry.lock = a[j].entry.lock => i = j
  <2> SUFFICES ASSUME NEW i \in 1 .. r - s, NEW j \in 1 .. r - s,
                      a[i].entry.lock = a[j].entry.lock
               PROVE  i = j
    BY <1>1
  <2>1. q[s + i].lock = q[s + j].lock /\ s + i \in DOMAIN q /\ s + j \in DOMAIN q
    BY <1>1, <1>5
  <2>2. \A k, m \in DOMAIN q : q[m].lock = q[k].lock => m = k
    BY <1>2 DEF Nodes
  <2>3. s + i = s + j
    BY ONLY <2>1, <2>2
  <2> QED  BY ONLY <1>1, <2>3, i \in 1 .. r - s, j \in 1 .. r - s
<1> HIDE DEF T, a
<1>7. PICK head, tail :
         /\ SentTo(a \o acq, l) = head \o tail
         /\ \/ head = << >> /\ \A i \in 1 .. Len(a) : a[i].entry.lock # l
            \/ \E i \in 1 .. Len(a) : a[i].entry.lock = l /\ head = << a[i] >>
         /\ \/ tail = << >>
            \/ \E j \in 1 .. Len(acq) : acq[j].entry.lock = l /\ tail = << acq[j] >>
  <2>1. \A i, j \in 1 .. Len(acq) : acq[i].entry.lock = acq[j].entry.lock => i = j
    OBVIOUS
  <2>2. \E head, tail :
            /\ SentTo(a \o acq, l) = head \o tail
            /\ \/ head = << >> /\ \A i \in 1 .. Len(a) : a[i].entry.lock # l
               \/ \E i \in 1 .. Len(a) : a[i].entry.lock = l /\ head = << a[i] >>
            /\ \/ tail = << >> /\ \A j \in 1 .. Len(acq) : acq[j].entry.lock # l
               \/ \E j \in 1 .. Len(acq) : acq[j].entry.lock = l /\ tail = << acq[j] >>
    BY ONLY <1>4, <1>6, <2>1, SentToMixed
  <2> QED  BY <2>2
<1>8. tail = << >> \/ \E e \in A : e.lock = l /\ tail = << Acq(e) >>
  <2> SUFFICES ASSUME NEW j \in 1 .. Len(acq), acq[j].entry.lock = l, tail = << acq[j] >>
               PROVE  \E e \in A : e.lock = l /\ tail = << Acq(e) >>
    BY <1>7
  <2>1. acq[j] \in AcquiresFor(A)
    BY ElementOfSeq
  <2>2. PICK e \in A : acq[j] = Acq(e)
    BY <2>1 DEF AcquiresFor
  <2>3. e.lock = l
    BY <2>2 DEF Acq
  <2> QED  BY <2>2, <2>3
<1>9. CASE head = << >> /\ \A i \in 1 .. Len(a) : a[i].entry.lock # l
  <2>1. \A i \in s + 1 .. r : q[i].lock # l
    <3> SUFFICES ASSUME NEW i \in s + 1 .. r  PROVE q[i].lock # l
      OBVIOUS
    <3>1. i - s \in 1 .. r - s /\ s + (i - s) = i
      BY ONLY <1>1, i \in s + 1 .. r
    <3>2. a[i - s].entry.lock = q[i].lock /\ a[i - s].entry.lock # l
      BY ONLY <1>1, <1>5, <1>9, <3>1
    <3> QED  BY <3>2
  <2>2. SentTo(a \o acq, l) = tail
    BY <1>7, <1>8, <1>9, ShortQueues
  <2>3. toLock'[c][l] = toLock[c][l] \o tail
    BY <1>3, <2>2
  <2> QED  BY <1>8, <2>1, <2>3 DEF AfterBurst
<1>10. ASSUME NEW i \in 1 .. r - s, a[i].entry.lock = l, head = << a[i] >>
       PROVE  /\ toLock'[c][l] = << Rel(q[s + i]) >> \o tail /\ s + i \in s + 1 .. r
              /\ s + i \in DOMAIN q /\ q[s + i].lock = l
              /\ toLock[c][l] = << >> /\ Holds(c, q[s + i])
  <2>1. /\ s + i \in s + 1 .. r /\ s + i > s
        /\ s + i \in DOMAIN q /\ q[s + i].lock = l /\ a[i] = Rel(q[s + i])
    <3>1. s + i \in s + 1 .. r /\ s + i > s
      BY ONLY <1>1, i \in 1 .. r - s
    <3>2. s + i \in DOMAIN q /\ q[s + i].lock = l /\ a[i] = Rel(q[s + i])
      BY ONLY <1>1, <1>5, <1>10, i \in 1 .. r - s
    <3> QED  BY ONLY <3>1, <3>2
  <2>2. toLock[c][l] = << >> /\ Holds(c, q[s + i])
    BY <1>2, <2>1 DEF Nodes
  <2>3. << >> \o (head \o tail) = head \o tail
    BY <1>8, <1>10, ShortQueues
  <2> QED  BY <1>3, <1>7, <1>10, <2>1, <2>2, <2>3
<1>11. CASE \E i \in 1 .. r - s : a[i].entry.lock = l /\ head = << a[i] >>
  <2>1. PICK i \in 1 .. r - s : a[i].entry.lock = l /\ head = << a[i] >>
    BY <1>11
  <2>2. /\ toLock'[c][l] = << Rel(q[s + i]) >> \o tail /\ s + i \in s + 1 .. r
        /\ s + i \in DOMAIN q /\ q[s + i].lock = l
        /\ toLock[c][l] = << >> /\ Holds(c, q[s + i])
    BY ONLY <1>10, <2>1
  <2> DEFINE k == s + i
  <2>3. /\ k \in s + 1 .. r /\ k \in DOMAIN txn_queues[c][u]
        /\ txn_queues[c][u][k].lock = l
        /\ toLock'[c][l] = << Rel(txn_queues[c][u][k]) >> \o tail
        /\ toLock[c][l] = << >> /\ Holds(c, txn_queues[c][u][k])
    BY ONLY <2>2
  <2> HIDE DEF k
  <2> QED  BY ONLY <1>8, <2>3 DEF AfterBurst
<1> QED  BY <1>1, <1>7, <1>9, <1>11

-----------------------------------------------------------------------------
(* The TX lcore.                                                           *)

\* Only client c's TX lcore moves.
OwnStep(c) ==
    /\ UNCHANGED << received, rejected, grants, holders, waiting >>
    /\ DOMAIN idx' = Clients /\ DOMAIN last_txn' = Clients
    /\ DOMAIN last_txn_idx' = Clients /\ DOMAIN txn_s' = Clients
    /\ DOMAIN deadlocked' = Clients /\ DOMAIN tx_mbufs' = Clients
    /\ DOMAIN txn_queues' = Clients /\ DOMAIN txn_r' = Clients
    /\ \A d \in Clients : d # c =>
          /\ idx'[d] = idx[d] /\ last_txn'[d] = last_txn[d]
          /\ last_txn_idx'[d] = last_txn_idx[d] /\ txn_s'[d] = txn_s[d]
          /\ deadlocked'[d] = deadlocked[d] /\ tx_mbufs'[d] = tx_mbufs[d]
          /\ txn_queues'[d] = txn_queues[d] /\ txn_r'[d] = txn_r[d]

\* The other clients, after a burst.
LEMMA OthersFrame ==
  ASSUME TxnInv, NEW c \in Clients, OwnStep(c), NEW packets,
         toLock' = [toLock EXCEPT ![c] = Burst(c, packets)],
         ClientTypes(c)'
  PROVE  /\ TypeOK'
         /\ \A d \in Clients : d # c =>
               /\ ClientInv(d)'
               /\ \A e : InPlay(d, e)' <=> InPlay(d, e)
               /\ \A e : ToDo(d, e) => ToDo(d, e)'
         /\ \A d \in Clients : \A e : Holds(d, e)' <=> Holds(d, e)
         /\ \A d \in Clients : \A m \in Locks : InLine(d, m)' <=> InLine(d, m)
         /\ DOMAIN toLock' = Clients /\ DOMAIN toLock'[c] = Locks
<1>1. TypeOK
  BY DEF TxnInv
<1>2. /\ DOMAIN toLock' = Clients /\ DOMAIN toLock'[c] = Locks
      /\ \A d \in Clients : d # c => toLock'[d] = toLock[d]
  BY BurstSent
<1>3. \A d \in Clients : \A e : Holds(d, e)' <=> Holds(d, e)
  BY DEF Holds, RequestOf, OwnStep
<1>4. \A d \in Clients : \A m \in Locks : InLine(d, m)' <=> InLine(d, m)
  BY DEF InLine, OwnStep
<1>5. ASSUME NEW d \in Clients, d # c
      PROVE  /\ ClientInv(d)' /\ ClientTypes(d)'
             /\ \A e : InPlay(d, e)' <=> InPlay(d, e)
             /\ \A e : ToDo(d, e) => ToDo(d, e)'
  <2>1. SameClient(d)
    BY <1>2, <1>5 DEF SameClient, OwnStep
  <2> QED  BY <1>3, <1>4, <2>1, ClientFrame
<1>6. TypeOK'
  BY <1>1, <1>2, <1>5 DEF TypeOK, OwnStep
<1> QED  BY <1>2, <1>3, <1>4, <1>5, <1>6

\* ACQUIREs for entries of A, of an attempt that is complete with them.
Sendable(c, acq, A) ==
    /\ acq \in Seq(AcquiresFor(A))
    /\ \A e \in A : e \in Node(c) /\ InPlay(c, e)'
    /\ \A i, j \in 1 .. Len(acq) : acq[i].entry.lock = acq[j].entry.lock => i = j

\* No node is left of the attempt, which had them all counted, or none.
AttemptOver(c, u, s, r) ==
    /\ u \in Txns(c) /\ u = last_txn[c] /\ s = txn_s[c][u] /\ r = txn_r[c][u]
    /\ \A l \in Locks : ~ Asking(c, l) /\ ~ InLine(c, l)
    /\ received[c] = << >> /\ rejected[c] = {} /\ grants[c] = {}
    /\ Len(txn_queues[c][u]) = r
    /\ \A t \in Txns(c) : t # u => Len(txn_queues[c][t]) = 0
    /\ OwnStep(c)
    /\ txn_queues'[c] = [t \in Txns(c) |-> << >>]
    /\ txn_r'[c] = [t \in Txns(c) |-> 0]
    /\ txn_s'[c] = [t \in Txns(c) |-> 0]
    /\ ClientTypes(c)' /\ Place(c)'

\* An attempt ends, or is being handed over: no node is left, and ACQUIREs of a
\* complete attempt may go out behind the RELEASEs.
LEMMA NewAttempt ==
  ASSUME TxnInv, NEW c \in Clients, NEW u, NEW s, NEW r, AttemptOver(c, u, s, r),
         NEW A, NEW acq, Sendable(c, acq, A),
         toLock' = [toLock EXCEPT ![c] = Burst(c, ToRelease(c) \o acq)]
  PROVE  TxnInv'
<1> SUFFICES ASSUME u \in Txns(c), u = last_txn[c], s = txn_s[c][u], r = txn_r[c][u],
                    \A l \in Locks : ~ Asking(c, l) /\ ~ InLine(c, l),
                    received[c] = << >>, rejected[c] = {}, grants[c] = {},
                    Len(txn_queues[c][u]) = r,
                    \A t \in Txns(c) : t # u => Len(txn_queues[c][t]) = 0,
                    OwnStep(c),
                    txn_queues'[c] = [t \in Txns(c) |-> << >>],
                    txn_r'[c] = [t \in Txns(c) |-> 0],
                    txn_s'[c] = [t \in Txns(c) |-> 0],
                    ClientTypes(c)', Place(c)'
             PROVE  TxnInv'
  BY DEF AttemptOver
<1> DEFINE q == txn_queues[c][u]
<1>0. /\ acq \in Seq(AcquiresFor(A))
      /\ \A e \in A : e \in Node(c) /\ InPlay(c, e)'
      /\ \A i, j \in 1 .. Len(acq) : acq[i].entry.lock = acq[j].entry.lock => i = j
  BY DEF Sendable
<1>1. /\ TypeOK'
      /\ \A d \in Clients : d # c =>
            /\ ClientInv(d)'
            /\ \A e : InPlay(d, e)' <=> InPlay(d, e)
            /\ \A e : ToDo(d, e) => ToDo(d, e)'
      /\ \A d \in Clients : \A e : Holds(d, e)' <=> Holds(d, e)
      /\ \A d \in Clients : \A m \in Locks : InLine(d, m)' <=> InLine(d, m)
  BY OthersFrame
<1>2. Nodes(c) /\ r \in Nat /\ s \in Nat /\ DOMAIN q = 1 .. r
  BY AtClient, NodeFacts
<1>3. \A t \in Txns(c) : /\ txn_queues'[c][t] = << >> /\ txn_r'[c][t] = 0 /\ txn_s'[c][t] = 0
                         /\ DOMAIN txn_queues'[c][t] = {} /\ Len(txn_queues'[c][t]) = 0
  <2> SUFFICES ASSUME NEW t \in Txns(c)
               PROVE  /\ txn_queues'[c][t] = << >> /\ txn_r'[c][t] = 0 /\ txn_s'[c][t] = 0
                      /\ DOMAIN txn_queues'[c][t] = {} /\ Len(txn_queues'[c][t]) = 0
    OBVIOUS
  <2>1. txn_queues'[c][t] = << >> /\ txn_r'[c][t] = 0 /\ txn_s'[c][t] = 0
    BY ONLY txn_queues'[c] = [x \in Txns(c) |-> << >>], txn_r'[c] = [x \in Txns(c) |-> 0],
            txn_s'[c] = [x \in Txns(c) |-> 0], t \in Txns(c), Zenon
  <2> QED  BY <2>1, ShortQueues
<1>4. Counts(c)'
  <2> SUFFICES ASSUME NEW t \in Txns(c)
               PROVE  /\ txn_s'[c][t] <= txn_r'[c][t]
                      /\ Len(txn_queues'[c][t]) = txn_r'[c][t] +
                            (IF received'[c] # << >> /\ Head(received'[c]).txn = t THEN 1 ELSE 0)
                      /\ ~ deadlocked'[c][t] => txn_s'[c][t] = 0
    BY DEF Counts, Txns
  <2> QED  BY <1>3 DEF OwnStep
<1>5. Rejects(c)' /\ Grants(c)' /\ Nodes(c)'
  <2>1. Rejects(c)' /\ Grants(c)'
    BY DEF Rejects, Grants, OwnStep
  <2>2. Nodes(c)'
    BY <1>3 DEF Nodes, Txns
  <2> QED  BY <2>1, <2>2
<1>6. ASSUME NEW l \in Locks
      PROVE  /\ ~ SentBack(c, l)' /\ ~ InLine(c, l)' /\ ~ Granted(c, l)' /\ ~ Noted(c, l)'
             /\ AtOnePlace(c, l)' /\ NothingBehind(c, l)'
  <2>1. ~ SentBack(c, l)' /\ ~ Granted(c, l)'
    BY DEF SentBack, Granted, OwnStep
  <2>2. ~ InLine(c, l)'
    BY <1>1
  <2>3. ~ Noted(c, l)'
    BY <1>3 DEF Noted, Txns
  <2> QED  BY <2>1, <2>2, <2>3 DEF AtOnePlace, NothingBehind
<1>7. ASSUME NEW l \in Locks
      PROVE  /\ OnTheWay(c, l)'
             /\ \A f : f.lock = l /\ ToDo(c, f) => ToDo(c, f)'
  <2>1. PICK base, tail :
            /\ toLock'[c][l] = base \o tail
            /\ \/ /\ base = toLock[c][l]
                  /\ \A i \in s + 1 .. r : q[i].lock # l
               \/ \E i \in s + 1 .. r :
                     /\ i \in DOMAIN q
                     /\ q[i].lock = l
                     /\ base = << Rel(q[i]) >>
                     /\ toLock[c][l] = << >>
                     /\ Holds(c, q[i])
            /\ \/ tail = << >>
               \/ \E e \in A : e.lock = l /\ tail = << Acq(e) >>
    <3>0. c \in Clients /\ l \in Locks /\ u \in Txns(c)
      OBVIOUS
    <3>2. toLock' = [toLock EXCEPT ![c] = Burst(c, ToRelease(c) \o acq)]
      OBVIOUS
    <3>3. AfterBurst(c, l, u, s, r, A)
      BY ONLY TxnInv, <3>0, u = last_txn[c], s = txn_s[c][u], r = txn_r[c][u],
              <1>0, <3>2, BurstOf
    <3> QED  BY <3>3 DEF AfterBurst
  <2>2. /\ Node(c)' = Node(c)
        /\ \A f : Rel(f)' = Rel(f) /\ Acq(f)' = Acq(f)
    BY DEF Node, Rel, Acq, Txns
  <2>3. base = << >> \/ \E o \in Node(c) : o.lock = l /\ Holds(c, o) /\ base = << Rel(o) >>
    <3>1. CASE base = toLock[c][l]
      BY <3>1, OnlyRelease
    <3>2. ASSUME NEW i \in s + 1 .. r, i \in DOMAIN q, q[i].lock = l,
                 base = << Rel(q[i]) >>, Holds(c, q[i])
          PROVE  \E o \in Node(c) : o.lock = l /\ Holds(c, o) /\ base = << Rel(o) >>
      <4>1. q[i] \in Node(c)
        BY <3>2, NodeFacts, ElementOfSeq
      <4> QED  BY <3>2, <4>1
    <3> QED  BY <2>1, <3>1, <3>2
  <2>4. OnTheWay(c, l)'
    <3>1. CASE base = << >> /\ tail = << >>
      BY <2>1, <3>1, ShortQueues DEF OnTheWay
    <3>2. ASSUME NEW e \in A, base = << >>, e.lock = l, tail = << Acq(e) >>
          PROVE  OnTheWay(c, l)'
      <4>1. toLock'[c][l] = << Acq(e) >>
        BY <2>1, <3>2, ShortQueues
      <4> QED  BY <1>0, <2>2, <3>2, <4>1 DEF OnTheWay
    <3>3. ASSUME NEW o \in Node(c), o.lock = l, Holds(c, o), base = << Rel(o) >>, tail = << >>
          PROVE  OnTheWay(c, l)'
      <4>1. toLock'[c][l] = << Rel(o) >> /\ Holds(c, o)'
        BY <1>1, <2>1, <3>3, ShortQueues
      <4> QED  BY <2>2, <3>3, <4>1 DEF OnTheWay
    <3>4. ASSUME NEW o \in Node(c), o.lock = l, Holds(c, o), base = << Rel(o) >>,
                 NEW e \in A, e.lock = l, tail = << Acq(e) >>
          PROVE  OnTheWay(c, l)'
      <4>1. toLock'[c][l] = << Rel(o), Acq(e) >>
        <5>1. toLock'[c][l] = << Rel(o) >> \o << Acq(e) >>
          BY ONLY <2>1, <3>4
        <5> QED  BY ONLY <5>1, ShortQueues
      <4>2. Holds(c, o)'
        BY <1>1, <3>4
      <4> QED  BY <1>0, <2>2, <3>4, <4>1, <4>2 DEF OnTheWay
    <3> QED  BY <2>1, <2>3, <3>1, <3>2, <3>3, <3>4
  <2>5. ASSUME NEW f, base = << Rel(f) >>
        PROVE  toLock'[c][l] # << >> /\ toLock'[c][l][1] = Rel(f)
    <3>1. toLock'[c][l] = << Rel(f) >> \/ \E e : toLock'[c][l] = << Rel(f), Acq(e) >>
      <4>1. tail = << >> \/ \E e : tail = << Acq(e) >>
        BY <2>1
      <4>2. toLock'[c][l] = << Rel(f) >> \o tail
        BY <2>1, <2>5
      <4>3. /\ << Rel(f) >> \o << >> = << Rel(f) >>
            /\ \A e : << Rel(f) >> \o << Acq(e) >> = << Rel(f), Acq(e) >>
        BY ShortQueues
      <4> QED  BY ONLY <4>1, <4>2, <4>3
    <3>2. \A x, y : /\ << x >> # << >> /\ << x >>[1] = x
                    /\ << x, y >> # << >> /\ << x, y >>[1] = x
      BY ShortQueues
    <3> QED  BY ONLY <3>1, <3>2
  <2>6. ASSUME NEW f, f.lock = l, ToDo(c, f)  PROVE ToDo(c, f)'
    <3>1. base = << Rel(f) >>
      <4>1. CASE ReleaseSent(c, f)
        <5>1. toLock[c][l] # << >> /\ toLock[c][l][1] = Rel(f)
          BY <2>6, <4>1 DEF ReleaseSent
        <5>2. base = toLock[c][l]
          BY <2>1, <5>1
        <5>3. PICK o \in Node(c) : base = << Rel(o) >>
          BY <2>3, <5>1, <5>2
        <5> QED  BY <5>1, <5>2, <5>3
      <4>2. CASE Unreleased(c, f)
        <5>1. PICK i \in DOMAIN txn_queues[c][f.txn] :
                 i > txn_s[c][f.txn] /\ txn_queues[c][f.txn][i] = f
          BY <4>2 DEF Unreleased
        <5>2. f.txn \in Txns(c)
          BY <4>2 DEF Unreleased
        <5>3. f.txn = u
          <6>1. DOMAIN txn_queues[c][f.txn] = 1 .. Len(txn_queues[c][f.txn])
            BY <5>2, NodeFacts
          <6>2. Len(txn_queues[c][f.txn]) # 0
            BY <5>1, <6>1
          <6> QED  BY <5>2, <6>2
        <5>4. i \in DOMAIN q /\ q[i] = f /\ i \in s + 1 .. r /\ q[i].lock = l
          <6>1. i \in 1 .. r /\ i > s /\ q[i] = f
            BY <1>2, <5>1, <5>3
          <6> QED  BY <1>2, <2>6, <6>1
        <5>5. PICK k \in s + 1 .. r : /\ k \in DOMAIN q /\ q[k].lock = l
                                      /\ base = << Rel(q[k]) >>
          BY <2>1, <5>4
        <5>6. k = i
          <6>1. \A m, n \in DOMAIN q : q[m].lock = q[n].lock => m = n
            BY <1>2 DEF Nodes
          <6> QED  BY ONLY <5>4, <5>5, <6>1
        <5> QED  BY <5>4, <5>5, <5>6
      <4> QED  BY <2>6, <4>1, <4>2 DEF ToDo
    <3>2. ReleaseSent(c, f)'
      BY <2>2, <2>5, <2>6, <3>1 DEF ReleaseSent
    <3> QED  BY <3>2 DEF ToDo
  <2> QED  BY <2>4, <2>6
<1>8. ClientInv(c)'
  BY <1>4, <1>5, <1>6, <1>7 DEF ClientInv
<1>9. ASSUME NEW m \in Locks  PROVE Line(m)' /\ Owing(m)'
  <2>1. waiting' = waiting /\ holders' = holders
    BY DEF OwnStep
  <2>2. \A d \in Clients : \A e : e.lock = m /\ InPlay(d, e) /\ InLine(d, m) => InPlay(d, e)'
    BY <1>1
  <2>3. Line(m)'
    BY <2>1, <2>2, LineFrame
  <2>4. \A d \in Clients : \A f : f.lock = m /\ ToDo(d, f) => ToDo(d, f)'
    BY <1>1, <1>7
  <2>5. Owing(m)'
    BY <2>1, <2>4, OwingFrame
  <2> QED  BY <2>3, <2>5
<1> QED  BY <1>1, <1>8, <1>9 DEF TxnInv

\* With entry w the TX lcore has handed over those from f on.
HandsOver(c, t, f, w, queue, acq, full) ==
    /\ f \in 1 .. Len(Trace[c]) /\ w \in 1 .. Len(Trace[c])
    /\ Run(c, t, f, w)
    /\ queue = Append(Acquires(c, f, w - 1), Acq(Trace[c][w]))
    /\ full \in BOOLEAN
    /\ full <=> Len(queue) = LocksEachTxn(c, t)
    /\ acq = IF full THEN queue ELSE << >>
    /\ idx'[c] = w + 1 /\ last_txn'[c] = t /\ last_txn_idx'[c] = f
    /\ tx_mbufs'[c] = IF full THEN << >> ELSE queue

\* A transaction's entries f to w were handed over: the ACQUIREs are sent when
\* they are all of the transaction.
LEMMA HandOver ==
  ASSUME NEW c \in Clients, NEW t, NEW f, NEW w, NEW queue, NEW acq, NEW full,
         HandsOver(c, t, f, w, queue, acq, full)
  PROVE  /\ Place(c)'
         /\ t \in Txns(c) /\ t \in Nat \ {0}
         /\ \E A : Sendable(c, acq, A)
<1> SUFFICES ASSUME f \in 1 .. Len(Trace[c]), w \in 1 .. Len(Trace[c]), Run(c, t, f, w),
                    queue = Append(Acquires(c, f, w - 1), Acq(Trace[c][w])),
                    full \in BOOLEAN, full <=> Len(queue) = LocksEachTxn(c, t),
                    acq = IF full THEN queue ELSE << >>,
                    idx'[c] = w + 1, last_txn'[c] = t, last_txn_idx'[c] = f,
                    tx_mbufs'[c] = IF full THEN << >> ELSE queue
             PROVE  /\ Place(c)'
                    /\ t \in Txns(c) /\ t \in Nat \ {0}
                    /\ \E A : Sendable(c, acq, A)
  BY DEF HandsOver
<1> DEFINE N == Len(Trace[c])
           next == Following(c, w)
<1>0. /\ f <= w
      /\ \A k \in 1 .. f - 1 : Trace[c][k].txn # t
      /\ \A k \in f .. w : Trace[c][k].txn = t
  BY DEF Run
<1>1. /\ N \in Nat \ {0} /\ DOMAIN Trace[c] = 1 .. N
      /\ \A k \in 1 .. N : Trace[c][k] \in TraceEntry
      /\ \A i, j \in 1 .. N :
            i < j /\ Trace[c][i].txn = Trace[c][j].txn => Trace[c][i].lock # Trace[c][j].lock
  BY TraceFacts
<1>2. f \in Nat \ {0} /\ w \in Nat /\ f \in DOMAIN Trace[c] /\ w \in DOMAIN Trace[c]
  BY <1>1
<1>3. queue = Acquires(c, f, w) /\ Len(queue) = w - f + 1
  <2>1. f <= w
    BY <1>0
  <2>2. queue = Append(Acquires(c, f, w - 1), Acq(Trace[c][w]))
    OBVIOUS
  <2> QED  BY ONLY <1>2, <2>1, <2>2, c \in Clients, OneMoreAcquire
<1>4. t \in Txns(c) /\ t \in Nat \ {0}
  <2>1. Trace[c][f].txn = t /\ Trace[c][f] \in TraceEntry
    BY <1>0, <1>1, <1>2
  <2> QED  BY <1>0, <1>2, <2>1 DEF Txns, TraceEntry
<1>5. w - f + 1 = LocksEachTxn(c, t) <=> Trace[c][next].txn # t
  <2>1. Run(c, t, f, w)
    OBVIOUS
  <2>2. f \in DOMAIN Trace[c] /\ w \in DOMAIN Trace[c]
    BY <1>0, <1>2
  <2> QED  BY ONLY <2>1, <2>2, c \in Clients, LastOfTransaction
<1>6. AllSent(c)' <=> full
  <2>1. Entry(c)' = Trace[c][next]
    BY DEF Entry, Wrapped, Following
  <2>2. AllSent(c)' <=> Trace[c][next].txn # t
    BY <2>1 DEF AllSent
  <2> HIDE DEF next
  <2> QED  BY <1>3, <1>5, <2>2
<1>7. Place(c)'
  <2>1. Acquires(c, f, w)' = Acquires(c, f, w)
    BY DEF Acquires, Acq
  <2>2. tx_mbufs'[c] = IF AllSent(c)' THEN << >> ELSE Acquires(c, f, w)
    BY <1>3, <1>6
  <2>3. idx'[c] - 1 = w
    BY <1>0, <1>2
  <2>4. f <= w + 1
    BY <1>0, <1>2
  <2>5. tx_mbufs'[c] = IF AllSent(c)' THEN << >>
                       ELSE Acquires(c, last_txn_idx'[c], idx'[c] - 1)
    BY <2>2, <2>3
  <2>6. Acquires(c, last_txn_idx[c], idx[c] - 1)' = Acquires(c, last_txn_idx'[c], idx'[c] - 1)
    BY DEF Acquires, Acq
  <2>7. Trace[c][f].txn = t
    BY <1>0, <1>2
  <2>8. \A k \in 1 .. last_txn_idx'[c] - 1 : Trace[c][k].txn # last_txn'[c]
    BY <1>0
  <2>9. \A k \in last_txn_idx'[c] .. idx'[c] - 1 : Trace[c][k].txn = last_txn'[c]
    BY <1>0, <2>3
  <2> QED  BY <1>4, <2>4, <2>5, <2>6, <2>7, <2>8, <2>9 DEF Place
<1>8. CASE ~ full
  <2>1. acq = << >> /\ Len(acq) = 0
    BY <1>8
  <2>2. acq \in Seq(AcquiresFor({}))
    BY <2>1, EmptySeq
  <2>3. \A i, j \in 1 .. Len(acq) : acq[i].entry.lock = acq[j].entry.lock => i = j
    <3>1. 1 .. 0 = {}
      OBVIOUS
    <3> QED  BY <2>1, <3>1
  <2>4. \E A : Sendable(c, acq, A)
    <3>1. \A e \in {} : e \in Node(c) /\ InPlay(c, e)'
      OBVIOUS
    <3>2. \E A : A = {}
      OBVIOUS
    <3>3. PICK A : A = {}
      BY <3>2
    <3>4. acq \in Seq(AcquiresFor(A)) /\ \A e \in A : e \in Node(c) /\ InPlay(c, e)'
      BY ONLY <2>2, <3>1, <3>3
    <3> QED  BY ONLY <2>3, <3>4 DEF Sendable
  <2> QED  BY ONLY <1>4, <1>7, <2>4
<1>9. CASE full
  <2> DEFINE A == Entries(c, t)
             n == w - f + 1
             Q == AcquiresFor(A)
  <2>1. acq = [i \in 1 .. n |-> Acq(Trace[c][f + i - 1])] /\ n \in Nat
    <3>1. acq = Acquires(c, f, w)
      BY <1>3, <1>9
    <3>2. n \in Nat
      BY <1>0, <1>2
    <3> QED  BY ONLY <3>1, <3>2 DEF Acquires
  <2>2. \A i \in 1 .. n : f + i - 1 \in f .. w /\ f + i - 1 \in 1 .. N
    BY <1>0, <1>1, <1>2
  <2>3. ASSUME NEW i \in 1 .. n  PROVE Trace[c][f + i - 1] \in A
    <3>1. Trace[c][f + i - 1].txn = t
      BY <1>0, <2>2
    <3> QED  BY <1>1, <2>2, <3>1 DEF Entries
  <2>4. acq \in Seq(Q) /\ Len(acq) = n
    <3>1. acq \in [1 .. n -> Q]
      <4>1. \A i \in 1 .. n : Acq(Trace[c][f + i - 1]) \in Q
        BY ONLY <2>3 DEF AcquiresFor
      <4> HIDE DEF Q, n
      <4> QED  BY ONLY <2>1, <4>1
    <3> HIDE DEF Q, n
    <3>2. acq \in Seq(Q)
      BY <2>1, <3>1, SeqDef
    <3>3. DOMAIN acq = 1 .. Len(acq) /\ Len(acq) \in Nat /\ DOMAIN acq = 1 .. n
      BY <3>1, <3>2, LenProperties
    <3> QED  BY <2>1, <3>2, <3>3
  <2>5. \A e \in A : e \in Node(c) /\ InPlay(c, e)'
    <3>1. Entries(c, last_txn[c])' = Entries(c, t)
      BY DEF Entries
    <3>2. \A e \in A : e \in Node(c)
      BY EntryFacts
    <3>3. \A e \in A : InPlay(c, e)'
      BY <1>6, <1>9, <3>1 DEF InPlay
    <3> QED  BY <3>2, <3>3
  <2>6. ASSUME NEW i \in 1 .. n, NEW j \in 1 .. n, i < j  PROVE acq[i].entry.lock # acq[j].entry.lock
    <3>1. /\ f + i - 1 \in 1 .. N /\ f + j - 1 \in 1 .. N /\ f + i - 1 < f + j - 1
      <4>1. f + i - 1 \in 1 .. N /\ f + j - 1 \in 1 .. N
        BY ONLY <2>2, i \in 1 .. n, j \in 1 .. n
      <4>2. f \in Nat /\ n \in Nat
        BY ONLY <1>2, <2>1
      <4> HIDE DEF n
      <4>3. f + i - 1 < f + j - 1
        BY ONLY <4>2, i \in 1 .. n, j \in 1 .. n, i < j
      <4> QED  BY ONLY <4>1, <4>3
    <3>2. Trace[c][f + i - 1].txn = t /\ Trace[c][f + j - 1].txn = t
      BY <1>0, <2>2
    <3>3. acq[i] = Acq(Trace[c][f + i - 1]) /\ acq[j] = Acq(Trace[c][f + j - 1])
      <4> HIDE DEF n
      <4> QED  BY ONLY <2>1, i \in 1 .. n, j \in 1 .. n
    <3>4. acq[i].entry = Trace[c][f + i - 1] /\ acq[j].entry = Trace[c][f + j - 1]
      BY ONLY <3>3 DEF Acq
    <3>5. Trace[c][f + i - 1].lock # Trace[c][f + j - 1].lock
      BY ONLY <1>1, <3>1, <3>2
    <3> QED  BY ONLY <3>4, <3>5
  <2>7. \A i, j \in 1 .. Len(acq) : acq[i].entry.lock = acq[j].entry.lock => i = j
    <3> SUFFICES ASSUME NEW i \in 1 .. n, NEW j \in 1 .. n,
                        acq[i].entry.lock = acq[j].entry.lock
                 PROVE  i = j
      BY <2>4
    <3>1. ~ i < j /\ ~ j < i
      BY <2>6
    <3> QED  BY <2>1, <3>1
  <2>8. Sendable(c, acq, A)
    BY ONLY <2>4, <2>5, <2>7 DEF Sendable
  <2> QED  BY ONLY <1>4, <1>7, <2>8
<1> QED  BY <1>8, <1>9

\* The transaction the TX lcore is at: its entry, and what was sent before.
LEMMA PlaceFacts ==
  ASSUME TxnInv, NEW c \in Clients, NEW u, u = last_txn[c], NEW w, w = Wrapped(c)
  PROVE  /\ w \in 1 .. Len(Trace[c]) /\ Entry(c) = Trace[c][w]
         /\ Entry(c).txn \in Nat \ {0} /\ Entry(c).txn \in Txns(c)
         /\ u \in Txns(c)
         /\ \A k \in w .. w : Trace[c][k].txn = Entry(c).txn
         /\ ~ AllSent(c) =>
               /\ u # 0 /\ idx[c] = w /\ Entry(c).txn = u
               /\ last_txn_idx[c] \in 1 .. Len(Trace[c]) /\ last_txn_idx[c] <= w
               /\ \A k \in 1 .. last_txn_idx[c] - 1 : Trace[c][k].txn # u
               /\ \A k \in last_txn_idx[c] .. w : Trace[c][k].txn = u
               /\ tx_mbufs[c] = Acquires(c, last_txn_idx[c], w - 1)
         /\ AllSent(c) =>
               /\ Entry(c).txn # u
               /\ tx_mbufs[c] = << >>
               /\ \A k \in 1 .. w - 1 : Trace[c][k].txn # Entry(c).txn
<1> DEFINE N == Len(Trace[c])
           f == last_txn_idx[c]
           t == Entry(c).txn
<1>1. /\ N \in Nat \ {0} /\ DOMAIN Trace[c] = 1 .. N
      /\ \A k \in 1 .. N : Trace[c][k] \in TraceEntry
      /\ Trace[c][1].txn # Trace[c][N].txn
      /\ \A i, j \in 1 .. N :
            i < j /\ Trace[c][i].txn = Trace[c][j].txn =>
                \A k \in i .. j : Trace[c][k].txn = Trace[c][i].txn
  BY TraceFacts
<1>2. /\ idx[c] \in 1 .. N + 1 /\ f \in 1 .. N /\ u \in Txns(c)
      /\ u = 0 => idx[c] = 1
      /\ u # 0 => /\ f <= idx[c]
                  /\ \A k \in 1 .. f - 1 : Trace[c][k].txn # u
                  /\ Trace[c][f].txn = u
                  /\ \A k \in f .. idx[c] - 1 : Trace[c][k].txn = u
      /\ tx_mbufs[c] = IF AllSent(c) THEN << >> ELSE Acquires(c, f, idx[c] - 1)
  BY AtClient DEF ClientTypes, Place
<1>3. w = IF idx[c] > N THEN 1 ELSE idx[c]
  BY DEF Wrapped
<1>4. w \in 1 .. N /\ Entry(c) = Trace[c][w]
  BY <1>1, <1>2, <1>3 DEF Entry
<1>5. t \in Nat \ {0} /\ t \in Txns(c)
  <2>1. Trace[c][w] \in TraceEntry
    BY <1>1, <1>4
  <2> QED  BY <1>1, <1>4, <2>1 DEF TraceEntry, Txns
<1>6. AllSent(c) <=> t # u
  BY DEF AllSent
<1>7. \A k \in w .. w : Trace[c][k].txn = t
  BY <1>4
<1>8. t = Trace[c][w].txn
  BY <1>4
<1> HIDE DEF N, f, t
<1>9. ASSUME ~ AllSent(c)
      PROVE  /\ u # 0 /\ idx[c] = w /\ f <= w
             /\ \A k \in 1 .. f - 1 : Trace[c][k].txn # u
             /\ \A k \in f .. w : Trace[c][k].txn = u
             /\ tx_mbufs[c] = Acquires(c, f, w - 1)
  <2>1. u # 0 /\ t = u
    BY <1>5, <1>6, <1>9
  <2>2. idx[c] = w
    <3> SUFFICES ASSUME idx[c] > N  PROVE FALSE
      BY <1>3
    <3>1. idx[c] - 1 = N /\ w = 1 /\ N \in f .. idx[c] - 1
      BY <1>1, <1>2, <1>3
    <3>2. Trace[c][N].txn = u
      BY <1>2, <2>1, <3>1
    <3>3. Trace[c][1].txn = u
      BY <1>8, <2>1, <3>1
    <3> QED  BY <1>1, <3>2, <3>3
  <2>3. \A k \in f .. w : Trace[c][k].txn = u
    <3> SUFFICES ASSUME NEW k \in f .. w  PROVE Trace[c][k].txn = u
      OBVIOUS
    <3>1. CASE k = w
      BY <1>8, <2>1, <3>1
    <3>2. CASE k # w
      <4>1. k \in f .. idx[c] - 1
        BY <1>2, <1>4, <2>2, <3>2
      <4> QED  BY <1>2, <2>1, <4>1
    <3> QED  BY <3>1, <3>2
  <2> QED  BY <1>2, <1>9, <2>1, <2>2, <2>3
<1>10. ASSUME AllSent(c)
       PROVE  /\ t # u /\ tx_mbufs[c] = << >>
              /\ \A k \in 1 .. w - 1 : Trace[c][k].txn # t
  <2>1. t # u /\ tx_mbufs[c] = << >>
    BY <1>2, <1>6, <1>10
  <2>2. ASSUME NEW k \in 1 .. w - 1, Trace[c][k].txn = t  PROVE FALSE
    <3>1. w > 1 /\ w = idx[c] /\ k \in 1 .. N /\ k < w /\ w - 1 \in k .. w /\ w - 1 \in Nat
      BY <1>1, <1>2, <1>3, <1>4
    <3>2. u # 0
      BY <1>2, <3>1
    <3>3. f # w
      BY <1>2, <1>8, <2>1, <3>2
    <3>4. w - 1 \in f .. idx[c] - 1
      BY <1>2, <3>1, <3>2, <3>3
    <3>5. Trace[c][w - 1].txn = u
      BY <1>2, <3>2, <3>4
    <3>6. \A m \in k .. w : Trace[c][m].txn = Trace[c][k].txn
      BY <1>1, <1>4, <1>8, <2>2, <3>1
    <3> QED  BY <2>1, <2>2, <3>1, <3>5, <3>6
  <2> QED  BY <2>1, <2>2
<1>11. N = Len(Trace[c]) /\ f = last_txn_idx[c] /\ t = Entry(c).txn
  BY DEF N, f, t
<1> QED  BY <1>2, <1>4, <1>5, <1>6, <1>7, <1>9, <1>10, <1>11

\* Transactions without nodes.
LEMMA NoNodes ==
  ASSUME TxnInv, NEW c \in Clients, NEW t \in Txns(c), received[c] = << >>,
         Len(txn_queues[c][t]) = 0
  PROVE  txn_queues[c][t] = << >> /\ txn_r[c][t] = 0 /\ txn_s[c][t] = 0
<1>1. /\ txn_queues[c][t] \in Seq(Node(c)) /\ txn_s[c][t] \in Nat /\ txn_r[c][t] \in Nat
      /\ txn_s[c][t] <= txn_r[c][t] /\ txn_r[c][t] <= Len(txn_queues[c][t])
  BY NodeFacts
<1>2. txn_queues[c][t] = << >>
  BY <1>1, EmptySeq
<1> QED  BY <1>1, <1>2

\* What a step on the client's own variables keeps of their types.
LEMMA OwnDomains ==
  ASSUME TxnInv
  PROVE  /\ DOMAIN idx = Clients /\ DOMAIN last_txn = Clients
         /\ DOMAIN last_txn_idx = Clients /\ DOMAIN txn_s = Clients
         /\ DOMAIN deadlocked = Clients /\ DOMAIN tx_mbufs = Clients
         /\ DOMAIN txn_queues = Clients /\ DOMAIN txn_r = Clients
         /\ DOMAIN toLock = Clients
BY DEF TxnInv, TypeOK

\* EnqueueAcquire, its parts named.
Enqueues(c, before, mbufs, t, queue, acq, full) ==
    /\ full \in BOOLEAN
    /\ queue = Append(mbufs, Acq(Entry(c)))
    /\ full <=> Len(queue) = LocksEachTxn(c, t)
    /\ acq = IF full THEN queue ELSE << >>
    /\ toLock' = [toLock EXCEPT ![c] = Burst(c, before \o acq)]
    /\ tx_mbufs' = [tx_mbufs EXCEPT ![c] = IF full THEN << >> ELSE queue]

\* EnqueueAcquire hands over one entry more.
LEMMA Enqueued ==
  ASSUME TxnInv, NEW c \in Clients, NEW before, NEW mbufs,
         EnqueueAcquire(c, before, mbufs), NEW t, t = Entry(c).txn
  PROVE  \E queue, acq, full : Enqueues(c, before, mbufs, t, queue, acq, full)
<1> DEFINE queue == Append(mbufs, Acq(Entry(c)))
           P == Len(queue) = LocksEachTxn(c, t)
           acq == IF P THEN queue ELSE << >>
<1>1. /\ toLock' = [toLock EXCEPT ![c] = Burst(c, before \o acq)]
      /\ tx_mbufs' = [tx_mbufs EXCEPT ![c] = IF P THEN << >> ELSE queue]
  BY DEF EnqueueAcquire, Acq
<1> HIDE DEF queue
<1>2. CASE P
  <2>1. acq = queue
    BY <1>2
  <2> HIDE DEF acq
  <2>2. tx_mbufs' = [tx_mbufs EXCEPT ![c] = << >>]
    BY <1>1, <1>2
  <2>3. Enqueues(c, before, mbufs, t, queue, acq, TRUE)
    BY <1>1, <1>2, <2>1, <2>2 DEF queue, Enqueues
  <2> QED  BY <2>3
<1>3. CASE ~ P
  <2>1. acq = << >>
    BY <1>3
  <2> HIDE DEF acq
  <2>2. tx_mbufs' = [tx_mbufs EXCEPT ![c] = queue]
    BY <1>1, <1>3
  <2>3. Enqueues(c, before, mbufs, t, queue, acq, FALSE)
    BY <1>1, <1>3, <2>1, <2>2 DEF queue, Enqueues
  <2> QED  BY <2>3
<1> QED  BY <1>2, <1>3

\* The next entry of a transaction under way, or of the first one.
LEMMA AcquireOf ==
  ASSUME TxnInv, NEW c \in Clients, TxAcquire(c),
         NEW u, u = last_txn[c], NEW w, w = Wrapped(c), NEW f, f = last_txn_idx[c]
  PROVE  TxnInv'
<1>1. /\ ~ AllSent(c)
      /\ EnqueueAcquire(c, << >>, tx_mbufs[c])
      /\ txn_s' = [txn_s EXCEPT ![c][u] = 0]
      /\ idx' = [idx EXCEPT ![c] = w + 1]
      /\ UNCHANGED << last_txn, last_txn_idx, deadlocked, received, txn_queues, txn_r >>
      /\ UNCHANGED << rejected, grants, holders, waiting >>
  BY DEF TxAcquire, rxVars, lockVars
<1>2. /\ w \in 1 .. Len(Trace[c]) /\ Entry(c) = Trace[c][w] /\ Entry(c).txn = u
      /\ u \in Txns(c) /\ f \in 1 .. Len(Trace[c]) /\ f <= w
      /\ \A k \in 1 .. f - 1 : Trace[c][k].txn # u
      /\ \A k \in f .. w : Trace[c][k].txn = u
      /\ tx_mbufs[c] = Acquires(c, f, w - 1)
  BY <1>1, PlaceFacts
<1>3. PICK queue, acq, full : Enqueues(c, << >>, tx_mbufs[c], u, queue, acq, full)
  BY <1>1, <1>2, Enqueued
<1>4. /\ full \in BOOLEAN
      /\ queue = Append(tx_mbufs[c], Acq(Entry(c)))
      /\ full <=> Len(queue) = LocksEachTxn(c, u)
      /\ acq = IF full THEN queue ELSE << >>
      /\ toLock' = [toLock EXCEPT ![c] = Burst(c, << >> \o acq)]
      /\ tx_mbufs' = [tx_mbufs EXCEPT ![c] = IF full THEN << >> ELSE queue]
  BY <1>3 DEF Enqueues
<1>5. /\ \A l \in Locks : ~ Asking(c, l) /\ ~ InLine(c, l)
      /\ \A t \in Txns(c) : Len(txn_queues[c][t]) = 0
      /\ received[c] = << >> /\ rejected[c] = {} /\ grants[c] = {}
  BY <1>1, NotAllSent
<1>6. \A t \in Txns(c) : txn_queues[c][t] = << >> /\ txn_r[c][t] = 0 /\ txn_s[c][t] = 0
  BY <1>5, NoNodes
<1>7. /\ ClientTypes(c)
      /\ DOMAIN idx = Clients /\ DOMAIN last_txn = Clients
      /\ DOMAIN last_txn_idx = Clients /\ DOMAIN txn_s = Clients
      /\ DOMAIN deadlocked = Clients /\ DOMAIN tx_mbufs = Clients
      /\ DOMAIN txn_queues = Clients /\ DOMAIN txn_r = Clients
  BY AtClient, OwnDomains
<1>8. OwnStep(c)
  BY <1>1, <1>4, <1>7 DEF OwnStep
<1>9. /\ idx'[c] = w + 1 /\ tx_mbufs'[c] = (IF full THEN << >> ELSE queue)
      /\ txn_s'[c] = [txn_s[c] EXCEPT ![u] = 0]
      /\ last_txn'[c] = u /\ last_txn_idx'[c] = f
  BY <1>1, <1>4, <1>7
<1>10. /\ txn_queues'[c] = [t \in Txns(c) |-> << >>]
       /\ txn_r'[c] = [t \in Txns(c) |-> 0]
       /\ txn_s'[c] = [t \in Txns(c) |-> 0]
  <2>1. /\ txn_queues[c] \in [Txns(c) -> Seq(Node(c))] /\ txn_r[c] \in [Txns(c) -> Nat]
        /\ txn_s[c] \in [Txns(c) -> Nat]
    BY <1>7 DEF ClientTypes
  <2>2. txn_queues[c] = [t \in Txns(c) |-> << >>] /\ txn_r[c] = [t \in Txns(c) |-> 0]
    BY ONLY <1>6, <2>1
  <2>3. txn_s'[c] = [t \in Txns(c) |-> 0]
    BY ONLY <1>6, <1>9, <2>1
  <2> QED  BY <1>1, <2>2, <2>3
<1>11. Acq(Entry(c)) = Acq(Trace[c][w]) /\ queue = Append(Acquires(c, f, w - 1), Acq(Trace[c][w]))
  BY <1>2, <1>4
<1>12. Place(c)' /\ \E A : Sendable(c, acq, A)
  <2>1. Run(c, u, f, w)
    BY <1>2 DEF Run
  <2>2. acq = IF full THEN queue ELSE << >>
    BY <1>4
  <2>3. HandsOver(c, u, f, w, queue, acq, full)
    BY <1>2, <1>4, <1>9, <1>11, <2>1, <2>2 DEF HandsOver
  <2> QED  BY <2>3, HandOver
<1>13. PICK A : Sendable(c, acq, A)
  BY <1>12
<1>14. ClientTypes(c)'
  <2>1. idx'[c] \in 1 .. Len(Trace[c]) + 1
    <3>1. w + 1 \in 1 .. Len(Trace[c]) + 1
      BY <1>2, TraceFacts
    <3> QED  BY <1>9, <3>1
  <2>2. DOMAIN toLock'[c] = Locks
    BY <1>4, BurstSent
  <2>3. txn_s'[c] \in [Txns(c) -> Nat]
    BY <1>10
  <2> QED  BY <1>1, <1>7, <2>1, <2>2, <2>3 DEF ClientTypes, Txns, Node
<1>15. toLock' = [toLock EXCEPT ![c] = Burst(c, ToRelease(c) \o acq)]
  <2>1. ToRelease(c) = << >>
    <3>1. txn_s[c][u] = txn_r[c][u]
      BY <1>2, <1>6
    <3>2. \E r : r = txn_r[c][u]
      OBVIOUS
    <3> QED  BY <1>2, <3>1, <3>2, ToReleaseFacts
  <2> QED  BY <1>4, <2>1
<1> HIDE DEF ToRelease
<1>16. Len(txn_queues[c][u]) = txn_r[c][u]
  BY <1>2, <1>5, <1>6
<1>17. AttemptOver(c, u, txn_s[c][u], txn_r[c][u])
  BY <1>2, <1>5, <1>8, <1>10, <1>12, <1>14, <1>16 DEF AttemptOver
<1> QED  BY ONLY TxnInv, c \in Clients, <1>13, <1>15, <1>17, NewAttempt

\* The TX lcore goes on with a transaction.
LEMMA TxAcquireStep ==
  ASSUME TxnInv, NEW c \in Clients, TxAcquire(c)
  PROVE  TxnInv'
<1>1. \E u, w, f : u = last_txn[c] /\ w = Wrapped(c) /\ f = last_txn_idx[c]
  OBVIOUS
<1> QED  BY <1>1, AcquireOf

\* Once every grant was counted, only the attempt's own queue holds anything.
LEMMA CompleteState ==
  ASSUME TxnInv, NEW c \in Clients, Complete(c), NEW u, u = last_txn[c],
         NEW s, s = txn_s[c][u], NEW r, r = txn_r[c][u]
  PROVE  /\ AllSent(c) /\ u \in Txns(c) /\ tx_mbufs[c] = << >>
         /\ \A l \in Locks : ~ Asking(c, l) /\ ~ InLine(c, l)
         /\ received[c] = << >> /\ rejected[c] = {} /\ grants[c] = {}
         /\ Len(txn_queues[c][u]) = r
         /\ \A t \in Txns(c) : t # u => Len(txn_queues[c][t]) = 0
         /\ \A t \in Txns(c) : t # u =>
               txn_queues[c][t] = << >> /\ txn_r[c][t] = 0 /\ txn_s[c][t] = 0
         /\ << >> \o ToRelease(c) = ToRelease(c)
<1>1. AllSent(c)
  BY DEF Complete
<1>2. /\ \A l \in Locks : ~ Asking(c, l) /\ ~ InLine(c, l)
      /\ received[c] = << >> /\ rejected[c] = {} /\ grants[c] = {}
      /\ Len(txn_queues[c][u]) = r
      /\ \A t \in Txns(c) : t # u => Len(txn_queues[c][t]) = 0
      /\ u \in Txns(c)
  BY CompleteFacts
<1>3. tx_mbufs[c] = << >>
  BY <1>1, AtClient DEF Place
<1>4. \A t \in Txns(c) : t # u =>
         txn_queues[c][t] = << >> /\ txn_r[c][t] = 0 /\ txn_s[c][t] = 0
  BY <1>2, NoNodes
<1>5. ToRelease(c) \in Seq(ToBeReleased(c, u))
  BY <1>2, ToReleaseFacts
<1>6. << >> \o ToRelease(c) = ToRelease(c)
  BY <1>5, ConcatEmptySeq
<1> QED  BY <1>1, <1>2, <1>3, <1>4, <1>6

\* The RELEASEs of a transaction that was complete, and the next one begins.
LEMMA CommitOf ==
  ASSUME TxnInv, NEW c \in Clients, TxCommit(c),
         NEW u, u = last_txn[c], NEW v, v = Entry(c).txn, NEW w, w = Wrapped(c),
         NEW s, s = txn_s[c][u], NEW r, r = txn_r[c][u]
  PROVE  TxnInv'
<1>1. /\ Complete(c)
      /\ EnqueueAcquire(c, tx_mbufs[c] \o ToRelease(c), << >>)
      /\ txn_r' = [txn_r EXCEPT ![c][u] = 0]
      /\ txn_queues' = [txn_queues EXCEPT ![c][u] = << >>]
      /\ txn_s' = [txn_s EXCEPT ![c][u] = 0, ![c][v] = 0]
      /\ deadlocked' = [deadlocked EXCEPT ![c][v] = FALSE]
      /\ last_txn' = [last_txn EXCEPT ![c] = v]
      /\ last_txn_idx' = [last_txn_idx EXCEPT ![c] = w]
      /\ idx' = [idx EXCEPT ![c] = w + 1]
      /\ UNCHANGED << received, rejected, grants, holders, waiting >>
  BY DEF TxCommit, lockVars
<1>2. /\ AllSent(c) /\ u \in Txns(c) /\ tx_mbufs[c] = << >>
      /\ \A l \in Locks : ~ Asking(c, l) /\ ~ InLine(c, l)
      /\ received[c] = << >> /\ rejected[c] = {} /\ grants[c] = {}
      /\ Len(txn_queues[c][u]) = r
      /\ \A t \in Txns(c) : t # u => Len(txn_queues[c][t]) = 0
      /\ \A t \in Txns(c) : t # u =>
            txn_queues[c][t] = << >> /\ txn_r[c][t] = 0 /\ txn_s[c][t] = 0
      /\ << >> \o ToRelease(c) = ToRelease(c)
  BY <1>1, CompleteState
<1>3. /\ w \in 1 .. Len(Trace[c]) /\ Entry(c) = Trace[c][w]
      /\ v \in Nat \ {0} /\ v \in Txns(c) /\ v # u
      /\ \A k \in 1 .. w - 1 : Trace[c][k].txn # v
      /\ \A k \in w .. w : Trace[c][k].txn = v
  BY <1>2, PlaceFacts
<1>4. PICK queue, acq, full : Enqueues(c, tx_mbufs[c] \o ToRelease(c), << >>, v, queue, acq, full)
  BY <1>1, Enqueued
<1>5. /\ full \in BOOLEAN
      /\ queue = Append(<< >>, Acq(Entry(c)))
      /\ full <=> Len(queue) = LocksEachTxn(c, v)
      /\ acq = IF full THEN queue ELSE << >>
      /\ toLock' = [toLock EXCEPT ![c] = Burst(c, ToRelease(c) \o acq)]
      /\ tx_mbufs' = [tx_mbufs EXCEPT ![c] = IF full THEN << >> ELSE queue]
  BY <1>2, <1>4 DEF Enqueues
<1>6. /\ ClientTypes(c)
      /\ DOMAIN idx = Clients /\ DOMAIN last_txn = Clients
      /\ DOMAIN last_txn_idx = Clients /\ DOMAIN txn_s = Clients
      /\ DOMAIN deadlocked = Clients /\ DOMAIN tx_mbufs = Clients
      /\ DOMAIN txn_queues = Clients /\ DOMAIN txn_r = Clients
  BY AtClient, OwnDomains
<1>7. txn_s' = [txn_s EXCEPT ![c] = [[txn_s[c] EXCEPT ![u] = 0] EXCEPT ![v] = 0]]
  <2>1. txn_s' = [[txn_s EXCEPT ![c] = [txn_s[c] EXCEPT ![u] = 0]]
                     EXCEPT ![c] = [[txn_s EXCEPT ![c] = [txn_s[c] EXCEPT ![u] = 0]][c]
                                      EXCEPT ![v] = 0]]
    BY <1>1
  <2>2. [txn_s EXCEPT ![c] = [txn_s[c] EXCEPT ![u] = 0]][c] = [txn_s[c] EXCEPT ![u] = 0]
    BY <1>6
  <2> QED  BY ONLY <1>6, <2>1, <2>2, c \in Clients
<1>8. OwnStep(c)
  BY <1>1, <1>5, <1>6, <1>7 DEF OwnStep
<1>9. /\ idx'[c] = w + 1 /\ last_txn'[c] = v /\ last_txn_idx'[c] = w
      /\ tx_mbufs'[c] = (IF full THEN << >> ELSE queue)
      /\ txn_r'[c] = [txn_r[c] EXCEPT ![u] = 0]
      /\ txn_queues'[c] = [txn_queues[c] EXCEPT ![u] = << >>]
      /\ txn_s'[c] = [[txn_s[c] EXCEPT ![u] = 0] EXCEPT ![v] = 0]
      /\ deadlocked'[c] = [deadlocked[c] EXCEPT ![v] = FALSE]
      /\ received'[c] = received[c]
  BY <1>1, <1>5, <1>6, <1>7
<1>10. /\ txn_queues[c] \in [Txns(c) -> Seq(Node(c))] /\ txn_r[c] \in [Txns(c) -> Nat]
       /\ txn_s[c] \in [Txns(c) -> Nat] /\ deadlocked[c] \in [Txns(c) -> BOOLEAN]
  BY <1>6 DEF ClientTypes
<1>11. /\ txn_queues'[c] = [t \in Txns(c) |-> << >>]
       /\ txn_r'[c] = [t \in Txns(c) |-> 0]
       /\ txn_s'[c] = [t \in Txns(c) |-> 0]
  <2>1. txn_queues'[c] = [t \in Txns(c) |-> << >>]
    BY ONLY <1>2, <1>9, <1>10
  <2>2. txn_r'[c] = [t \in Txns(c) |-> 0]
    BY ONLY <1>2, <1>9, <1>10
  <2>3. txn_s'[c] = [t \in Txns(c) |-> 0]
    BY ONLY <1>2, <1>3, <1>9, <1>10
  <2> QED  BY <2>1, <2>2, <2>3
<1>12. HandsOver(c, v, w, w, queue, acq, full)
  <2>1. Run(c, v, w, w)
    BY <1>3 DEF Run
  <2>2. w \in Nat \ {0} /\ w <= w
    BY <1>3, TraceFacts
  <2>3. Acquires(c, w, w - 1) = << >>
    BY <2>2, OneMoreAcquire
  <2>4. queue = Append(Acquires(c, w, w - 1), Acq(Trace[c][w]))
    BY <1>3, <1>5, <2>3
  <2> QED  BY <1>3, <1>5, <1>9, <2>1, <2>4 DEF HandsOver
<1>13. Place(c)' /\ \E A : Sendable(c, acq, A)
  BY <1>12, HandOver
<1>14. PICK A : Sendable(c, acq, A)
  BY <1>13
<1>15. ClientTypes(c)'
  <2>1. idx'[c] \in 1 .. Len(Trace[c]) + 1
    <3>1. w + 1 \in 1 .. Len(Trace[c]) + 1
      BY <1>3, TraceFacts
    <3> QED  BY <1>9, <3>1
  <2>2. DOMAIN toLock'[c] = Locks
    BY <1>5, BurstSent
  <2>3. txn_s'[c] \in [Txns(c) -> Nat] /\ txn_r'[c] \in [Txns(c) -> Nat]
    BY <1>11
  <2>4. txn_queues'[c] \in [Txns(c) -> Seq(Node(c))]
    <3>1. << >> \in Seq(Node(c))
      BY EmptySeq
    <3> QED  BY <1>11, <3>1
  <2>5. deadlocked'[c] \in [Txns(c) -> BOOLEAN]
    <3>1. deadlocked'[c] = [deadlocked[c] EXCEPT ![v] = FALSE]
      BY ONLY <1>9
    <3>2. deadlocked[c] \in [Txns(c) -> BOOLEAN]
      BY ONLY <1>10
    <3> QED  BY ONLY <3>1, <3>2
  <2>6. received'[c] = << >>
    BY <1>2, <1>9
  <2> QED  BY <1>3, <1>9, <2>1, <2>2, <2>3, <2>4, <2>5, <2>6 DEF ClientTypes, Txns, Node
<1> HIDE DEF ToRelease
<1>16. toLock' = [toLock EXCEPT ![c] = Burst(c, ToRelease(c) \o acq)]
  BY <1>5
<1>17. AttemptOver(c, u, s, r)
  BY <1>2, <1>8, <1>11, <1>13, <1>15 DEF AttemptOver
<1> QED  BY ONLY TxnInv, c \in Clients, <1>14, <1>16, <1>17, NewAttempt

\* The TX lcore commits.
LEMMA TxCommitStep ==
  ASSUME TxnInv, NEW c \in Clients, TxCommit(c)
  PROVE  TxnInv'
<1>1. \E u, v, w : u = last_txn[c] /\ v = Entry(c).txn /\ w = Wrapped(c)
  OBVIOUS
<1>2. PICK u, v, w : u = last_txn[c] /\ v = Entry(c).txn /\ w = Wrapped(c)
  BY <1>1
<1>3. \E s, r : s = txn_s[c][u] /\ r = txn_r[c][u]
  OBVIOUS
<1> QED  BY <1>2, <1>3, CommitOf

\* The RELEASEs of an attempt given up, and it begins again.
LEMMA RetryOf ==
  ASSUME TxnInv, NEW c \in Clients, TxRetry(c),
         NEW u, u = last_txn[c], NEW f, f = last_txn_idx[c],
         NEW s, s = txn_s[c][u], NEW r, r = txn_r[c][u]
  PROVE  TxnInv'
<1>1. /\ Complete(c)
      /\ toLock' = [toLock EXCEPT ![c] = Burst(c, tx_mbufs[c] \o ToRelease(c))]
      /\ tx_mbufs' = [tx_mbufs EXCEPT ![c] = << >>]
      /\ txn_r' = [txn_r EXCEPT ![c][u] = 0]
      /\ txn_queues' = [txn_queues EXCEPT ![c][u] = << >>]
      /\ txn_s' = [txn_s EXCEPT ![c][u] = 0]
      /\ deadlocked' = [deadlocked EXCEPT ![c][u] = FALSE]
      /\ idx' = [idx EXCEPT ![c] = f]
      /\ UNCHANGED << last_txn, last_txn_idx >>
      /\ UNCHANGED << received, rejected, grants, holders, waiting >>
  BY DEF TxRetry, lockVars
<1>2. /\ AllSent(c) /\ u \in Txns(c) /\ tx_mbufs[c] = << >>
      /\ \A l \in Locks : ~ Asking(c, l) /\ ~ InLine(c, l)
      /\ received[c] = << >> /\ rejected[c] = {} /\ grants[c] = {}
      /\ Len(txn_queues[c][u]) = r
      /\ \A t \in Txns(c) : t # u => Len(txn_queues[c][t]) = 0
      /\ \A t \in Txns(c) : t # u =>
            txn_queues[c][t] = << >> /\ txn_r[c][t] = 0 /\ txn_s[c][t] = 0
      /\ << >> \o ToRelease(c) = ToRelease(c)
  BY <1>1, CompleteState
<1>3. /\ ClientTypes(c) /\ Place(c)
      /\ DOMAIN idx = Clients /\ DOMAIN last_txn = Clients
      /\ DOMAIN last_txn_idx = Clients /\ DOMAIN txn_s = Clients
      /\ DOMAIN deadlocked = Clients /\ DOMAIN tx_mbufs = Clients
      /\ DOMAIN txn_queues = Clients /\ DOMAIN txn_r = Clients
  BY AtClient, OwnDomains
<1>4. OwnStep(c)
  BY <1>1, <1>3 DEF OwnStep
<1>5. /\ idx'[c] = f /\ last_txn'[c] = u /\ last_txn_idx'[c] = f /\ tx_mbufs'[c] = << >>
      /\ txn_r'[c] = [txn_r[c] EXCEPT ![u] = 0]
      /\ txn_queues'[c] = [txn_queues[c] EXCEPT ![u] = << >>]
      /\ txn_s'[c] = [txn_s[c] EXCEPT ![u] = 0]
      /\ deadlocked'[c] = [deadlocked[c] EXCEPT ![u] = FALSE]
      /\ received'[c] = received[c]
  BY <1>1, <1>3
<1>6. /\ txn_queues[c] \in [Txns(c) -> Seq(Node(c))] /\ txn_r[c] \in [Txns(c) -> Nat]
      /\ txn_s[c] \in [Txns(c) -> Nat] /\ deadlocked[c] \in [Txns(c) -> BOOLEAN]
      /\ f \in 1 .. Len(Trace[c])
  BY <1>3 DEF ClientTypes
<1>7. /\ txn_queues'[c] = [t \in Txns(c) |-> << >>]
      /\ txn_r'[c] = [t \in Txns(c) |-> 0]
      /\ txn_s'[c] = [t \in Txns(c) |-> 0]
  <2>1. txn_queues'[c] = [t \in Txns(c) |-> << >>]
    BY ONLY <1>2, <1>5, <1>6
  <2>2. txn_r'[c] = [t \in Txns(c) |-> 0]
    BY ONLY <1>2, <1>5, <1>6
  <2>3. txn_s'[c] = [t \in Txns(c) |-> 0]
    BY ONLY <1>2, <1>5, <1>6
  <2> QED  BY <2>1, <2>2, <2>3
<1>8. f \in Nat \ {0} /\ ~ f > Len(Trace[c]) /\ f - 1 < f /\ f <= f
  BY <1>6, TraceFacts
<1>9. Place(c)'
  <2>1. Entry(c)' = Trace[c][f]
    BY <1>5, <1>8 DEF Entry, Wrapped
  <2>2. u # 0 => ~ AllSent(c)'
    BY <1>3, <1>5, <2>1 DEF AllSent, Place
  <2>3. Acquires(c, f, f - 1) = << >>
    BY <1>8, OneMoreAcquire
  <2>4. Acquires(c, last_txn_idx[c], idx[c] - 1)' = Acquires(c, f, f - 1)
    BY <1>5 DEF Acquires, Acq
  <2>5. u = 0 => f = 1
    BY <1>3 DEF Place
  <2>6. u # 0 => /\ \A k \in 1 .. f - 1 : Trace[c][k].txn # u
                 /\ Trace[c][f].txn = u
    BY <1>3 DEF Place
  <2>7. \A k \in f .. f - 1 : FALSE
    BY <1>8
  <2> QED  BY <1>5, <1>8, <2>3, <2>4, <2>5, <2>6, <2>7 DEF Place
<1>10. ClientTypes(c)'
  <2>1. idx'[c] \in 1 .. Len(Trace[c]) + 1
    <3>1. f \in 1 .. Len(Trace[c]) + 1
      BY <1>6, TraceFacts
    <3> QED  BY <1>5, <3>1
  <2>2. DOMAIN toLock'[c] = Locks
    BY <1>1, BurstSent
  <2>3. txn_s'[c] \in [Txns(c) -> Nat] /\ txn_r'[c] \in [Txns(c) -> Nat]
    BY <1>7
  <2>4. txn_queues'[c] \in [Txns(c) -> Seq(Node(c))]
    <3>1. << >> \in Seq(Node(c))
      BY EmptySeq
    <3> QED  BY <1>7, <3>1
  <2>5. deadlocked'[c] \in [Txns(c) -> BOOLEAN]
    <3>1. deadlocked[c] \in [Txns(c) -> BOOLEAN] /\ FALSE \in BOOLEAN
      BY ONLY <1>6
    <3>2. deadlocked'[c] = [deadlocked[c] EXCEPT ![u] = FALSE]
      BY ONLY <1>5
    <3> QED  BY ONLY <3>1, <3>2
  <2>6. received'[c] = << >>
    BY <1>2, <1>5
  <2> QED  BY <1>2, <1>5, <1>6, <2>1, <2>2, <2>3, <2>4, <2>5, <2>6 DEF ClientTypes, Txns, Node
<1>11. AttemptOver(c, u, s, r)
  BY <1>2, <1>4, <1>7, <1>9, <1>10 DEF AttemptOver
<1>12. toLock' = [toLock EXCEPT ![c] = Burst(c, ToRelease(c) \o << >>)]
  <2>1. ToRelease(c) \o << >> = ToRelease(c)
    <3>1. ToRelease(c) \in Seq(ToBeReleased(c, u))
      BY <1>2, ToReleaseFacts
    <3> QED  BY <3>1, ConcatEmptySeq
  <2>2. tx_mbufs[c] \o ToRelease(c) = ToRelease(c) \o << >>
    BY <1>2, <2>1
  <2> QED  BY ONLY <1>1, <2>2
<1>13. Sendable(c, << >>, {})
  <2>1. << >> \in Seq(AcquiresFor({})) /\ Len(<< >>) = 0
    BY EmptySeq
  <2>2. \A i, j \in 1 .. Len(<< >>) : << >>[i].entry.lock = << >>[j].entry.lock => i = j
    BY <2>1
  <2> QED  BY <2>1, <2>2 DEF Sendable
<1> QED  BY ONLY TxnInv, c \in Clients, <1>11, <1>12, <1>13, NewAttempt

\* The TX lcore starts an attempt again.
LEMMA TxRetryStep ==
  ASSUME TxnInv, NEW c \in Clients, TxRetry(c)
  PROVE  TxnInv'
<1>1. PICK u, f : u = last_txn[c] /\ f = last_txn_idx[c]
  OBVIOUS
<1>2. PICK s, r : s = txn_s[c][u] /\ r = txn_r[c][u]
  OBVIOUS
<1> QED  BY <1>1, <1>2, RetryOf

-----------------------------------------------------------------------------
\* The expiry: what was counted goes back, the rest is still waited for.
LEMMA ExpireOf ==
  ASSUME TxnInv, NEW c \in Clients, TxExpire(c),
         NEW u, u = last_txn[c], NEW s, s = txn_s[c][u], NEW r, r = txn_r[c][u]
  PROVE  TxnInv'
<1>1. /\ AllSent(c)
      /\ deadlocked' = [deadlocked EXCEPT ![c][u] = TRUE]
      /\ toLock' = [toLock EXCEPT ![c] = Burst(c, tx_mbufs[c] \o ToRelease(c))]
      /\ tx_mbufs' = [tx_mbufs EXCEPT ![c] = << >>]
      /\ txn_s' = [txn_s EXCEPT ![c][u] = r]
      /\ UNCHANGED << idx, last_txn, last_txn_idx, txn_queues, txn_r >>
      /\ UNCHANGED << received, rejected, grants, holders, waiting >>
  BY DEF TxExpire, Waiting, rxVars, lockVars
<1>2. /\ ClientTypes(c) /\ Place(c) /\ Counts(c) /\ Rejects(c) /\ Grants(c) /\ Nodes(c)
      /\ DOMAIN idx = Clients /\ DOMAIN last_txn = Clients
      /\ DOMAIN last_txn_idx = Clients /\ DOMAIN txn_s = Clients
      /\ DOMAIN deadlocked = Clients /\ DOMAIN tx_mbufs = Clients
      /\ DOMAIN txn_queues = Clients /\ DOMAIN txn_r = Clients
  BY AtClient, OwnDomains
<1>3. u \in Txns(c) /\ tx_mbufs[c] = << >>
  BY <1>1, <1>2 DEF ClientTypes, Place
<1> DEFINE q == txn_queues[c][u]
<1>4. /\ s \in Nat /\ r \in Nat /\ s <= r /\ r <= Len(q) /\ Len(q) \in Nat
      /\ DOMAIN q = 1 .. Len(q) /\ q \in Seq(Node(c))
  BY <1>3, NodeFacts
<1>5. OwnStep(c)
  BY <1>1, <1>2 DEF OwnStep
<1>6. /\ tx_mbufs'[c] = << >>
      /\ txn_s'[c] = [txn_s[c] EXCEPT ![u] = r]
      /\ deadlocked'[c] = [deadlocked[c] EXCEPT ![u] = TRUE]
      /\ txn_s'[c] \in [Txns(c) -> Nat] /\ deadlocked'[c] \in [Txns(c) -> BOOLEAN]
      /\ txn_s'[c][u] = r /\ deadlocked'[c][u] = TRUE
      /\ \A t \in Txns(c) : t # u =>
            txn_s'[c][t] = txn_s[c][t] /\ deadlocked'[c][t] = deadlocked[c][t]
  <2>1. txn_s[c] \in [Txns(c) -> Nat] /\ deadlocked[c] \in [Txns(c) -> BOOLEAN]
    BY <1>2 DEF ClientTypes
  <2>2. /\ tx_mbufs'[c] = << >>
        /\ txn_s'[c] = [txn_s[c] EXCEPT ![u] = r]
        /\ deadlocked'[c] = [deadlocked[c] EXCEPT ![u] = TRUE]
    BY <1>1, <1>2
  <2> QED  BY <1>3, <1>4, <2>1, <2>2
<1>7. ClientTypes(c)'
  <2>1. DOMAIN toLock'[c] = Locks
    BY <1>1, BurstSent
  <2> QED  BY <1>1, <1>2, <1>6, <2>1 DEF ClientTypes, Txns, Node
<1>8. /\ TypeOK'
      /\ \A d \in Clients : d # c =>
            /\ ClientInv(d)'
            /\ \A e : InPlay(d, e)' <=> InPlay(d, e)
            /\ \A e : ToDo(d, e) => ToDo(d, e)'
      /\ \A d \in Clients : \A e : Holds(d, e)' <=> Holds(d, e)
      /\ \A d \in Clients : \A m \in Locks : InLine(d, m)' <=> InLine(d, m)
  BY <1>1, <1>5, <1>7, OthersFrame
<1>9. /\ AllSent(c)' <=> AllSent(c)
      /\ \A e : InPlay(c, e)' <=> InPlay(c, e)
  BY <1>1, PlayFrame
<1>10. Place(c)'
  BY <1>1, <1>2, <1>6, <1>9 DEF Place, Acquires, Acq
<1>11. Counts(c)'
  <2> SUFFICES ASSUME NEW t \in Txns(c)
               PROVE  /\ txn_s'[c][t] <= txn_r[c][t]
                      /\ Len(txn_queues[c][t]) = txn_r[c][t] +
                            (IF received[c] # << >> /\ Head(received[c]).txn = t THEN 1 ELSE 0)
                      /\ ~ deadlocked'[c][t] => txn_s'[c][t] = 0
    BY <1>1 DEF Counts, Txns
  <2>1. /\ txn_s[c][t] <= txn_r[c][t]
        /\ Len(txn_queues[c][t]) = txn_r[c][t] +
              (IF received[c] # << >> /\ Head(received[c]).txn = t THEN 1 ELSE 0)
        /\ ~ deadlocked[c][t] => txn_s[c][t] = 0
    BY <1>2 DEF Counts
  <2>2. CASE t = u
    BY <1>4, <1>6, <2>1, <2>2
  <2>3. CASE t # u
    BY <1>6, <2>1, <2>3
  <2> QED  BY <2>2, <2>3
<1>12. Rejects(c)' /\ Grants(c)'
  BY <1>1, <1>2, <1>8, <1>9 DEF Rejects, Grants
<1>13. /\ \A l \in Locks : SentBack(c, l)' <=> SentBack(c, l)
       /\ \A l \in Locks : Granted(c, l)' <=> Granted(c, l)
       /\ \A l \in Locks : Noted(c, l)' <=> Noted(c, l)
  BY <1>1 DEF SentBack, Granted, Noted, Txns
<1>14. toLock' = [toLock EXCEPT ![c] = Burst(c, ToRelease(c) \o << >>)]
  <2>1. /\ ToRelease(c) \o << >> = ToRelease(c)
        /\ << >> \o ToRelease(c) = ToRelease(c)
    <3>1. ToRelease(c) \in Seq(ToBeReleased(c, u))
      BY <1>3, ToReleaseFacts
    <3> QED  BY <3>1, ConcatEmptySeq
  <2>2. tx_mbufs[c] \o ToRelease(c) = ToRelease(c) \o << >>
    BY <1>3, <2>1
  <2> QED  BY ONLY <1>1, <2>2
\* The queue to a lock: the RELEASE of a node of it, or what it was.
<1>15. ASSUME NEW l \in Locks
       PROVE  \/ /\ toLock'[c][l] = toLock[c][l]
                 /\ \A i \in s + 1 .. r : q[i].lock # l
              \/ \E i \in s + 1 .. r :
                    /\ i \in DOMAIN q /\ q[i].lock = l
                    /\ toLock'[c][l] = << Rel(q[i]) >>
                    /\ toLock[c][l] = << >>
                    /\ Holds(c, q[i])
  <2>1. << >> \in Seq(AcquiresFor({})) /\ Len(<< >>) = 0
    BY EmptySeq
  <2>2. \A i, j \in 1 .. Len(<< >>) : << >>[i].entry.lock = << >>[j].entry.lock => i = j
    BY <2>1
  <2>3. AfterBurst(c, l, u, s, r, {})
    BY ONLY TxnInv, c \in Clients, l \in Locks, <1>3, u = last_txn[c], s = txn_s[c][u],
            r = txn_r[c][u], <1>14, <2>1, <2>2, BurstOf
  <2>4. PICK base : /\ toLock'[c][l] = base \o << >>
                    /\ \/ /\ base = toLock[c][l]
                          /\ \A i \in s + 1 .. r : q[i].lock # l
                       \/ \E i \in s + 1 .. r :
                             /\ i \in DOMAIN q /\ q[i].lock = l
                             /\ base = << Rel(q[i]) >>
                             /\ toLock[c][l] = << >>
                             /\ Holds(c, q[i])
    BY <2>3 DEF AfterBurst
  <2>5. base \o << >> = base
    BY <2>4, NothingAdded, ShortQueues
  <2>6. toLock'[c][l] = base
    BY ONLY <2>4, <2>5
  <2> QED  BY ONLY <2>4, <2>6
<1>16. Nodes(c)'
  <2> SUFFICES ASSUME NEW t \in Txns(c), NEW i \in DOMAIN txn_queues[c][t],
                      NEW e, e = txn_queues[c][t][i]
               PROVE  /\ InPlay(c, e) /\ e.txn = t
                      /\ i > txn_s'[c][t] => Holds(c, e) /\ toLock'[c][e.lock] = << >>
                      /\ \A j \in DOMAIN txn_queues[c][t] :
                            txn_queues[c][t][j].lock = e.lock => j = i
    BY <1>1, <1>8, <1>9 DEF Nodes, Txns
  <2>1. /\ InPlay(c, e) /\ e.txn = t
        /\ i > txn_s[c][t] => Holds(c, e) /\ toLock[c][e.lock] = << >>
        /\ \A j \in DOMAIN txn_queues[c][t] : txn_queues[c][t][j].lock = e.lock => j = i
    BY <1>2 DEF Nodes
  <2>2. t = u
    <3>1. DOMAIN txn_queues[c][t] = 1 .. Len(txn_queues[c][t])
      BY NodeFacts
    <3>2. Len(txn_queues[c][t]) # 0
      BY <3>1
    <3> QED  BY <3>2, NodeFacts
  <2>3. ASSUME i > txn_s'[c][t]  PROVE Holds(c, e) /\ toLock'[c][e.lock] = << >>
    <3>1. i \in 1 .. Len(q) /\ i > r /\ i > s /\ q[i] = e
      BY <1>4, <1>6, <2>2, <2>3
    <3>2. Holds(c, e) /\ toLock[c][e.lock] = << >>
      BY <2>1, <2>2, <3>1
    <3>3. e.lock \in Locks
      BY <2>1, EntryFacts DEF InPlay
    <3>4. ASSUME NEW k \in s + 1 .. r, k \in DOMAIN q, q[k].lock = e.lock  PROVE FALSE
      <4>1. k = i
        BY <2>1, <2>2, <3>4
      <4> QED  BY <1>4, <3>1, <4>1
    <3>5. toLock'[c][e.lock] = toLock[c][e.lock]
      BY <1>15, <3>3, <3>4
    <3> QED  BY <3>2, <3>5
  <2> QED  BY <2>1, <2>3
<1>17. ASSUME NEW l \in Locks
       PROVE  OnTheWay(c, l)' /\ AtOnePlace(c, l)' /\ NothingBehind(c, l)'
  <2>1. OnTheWay(c, l) /\ AtOnePlace(c, l) /\ NothingBehind(c, l)
    BY AtClient
  <2>2. CASE toLock'[c][l] = toLock[c][l]
    <3>1. \A e : InPlay(c, e) => InPlay(c, e)'
      BY <1>9
    <3>2. \A e : e.lock = l /\ Holds(c, e) => Holds(c, e)'
      BY <1>8
    <3> QED  BY ONLY TxnInv, c \in Clients, l \in Locks, <1>8, <1>13, <2>2, <3>1, <3>2, LockFrame
  <2>3. ASSUME NEW i \in s + 1 .. r, i \in DOMAIN q, q[i].lock = l,
               toLock'[c][l] = << Rel(q[i]) >>, Holds(c, q[i])
        PROVE  OnTheWay(c, l)' /\ AtOnePlace(c, l)' /\ NothingBehind(c, l)'
    <3>1. q[i] \in Node(c) /\ Noted(c, l)
      <4>1. q[i] \in Node(c)
        BY <1>4, <2>3, ElementOfSeq
      <4>2. Noted(c, l)
        BY <1>3, <2>3 DEF Noted
      <4> QED  BY <4>1, <4>2
    <3>2. /\ Node(c)' = Node(c) /\ \A e : Rel(e)' = Rel(e)
      BY DEF Node, Rel, Txns
    <3>3. Holds(c, q[i])'
      <4>1. \A e : Holds(c, e) => (Holds(c, e))'
        BY <1>8
      <4>2. PICK e : e = q[i]
        OBVIOUS
      <4>3. q[i]' = q[i]
        BY <1>1
      <4> QED  BY <2>3, <4>1, <4>2, <4>3
    <3>4. OnTheWay(c, l)'
      <4>1. PICK o \in Node(c) : o = q[i] /\ o.lock = l /\ Holds(c, o)
        BY <2>3, <3>1
      <4>2. (Holds(c, o))' /\ toLock'[c][l] = << Rel(o) >>
        BY <1>8, <2>3, <4>1
      <4> QED  BY <3>2, <4>1, <4>2 DEF OnTheWay
    <3>5. ~ Asking(c, l)'
      <4>1. DOMAIN toLock'[c][l] = {1} /\ toLock'[c][l][1] = Rel(q[i])
        BY <2>3, ShortQueues
      <4> QED  BY <4>1 DEF Asking, Rel
    <3>6. ~ SentBack(c, l) /\ ~ InLine(c, l) /\ ~ Granted(c, l)
      BY <2>1, <3>1 DEF AtOnePlace
    <3>7. ~ SentBack(c, l)' /\ ~ InLine(c, l)' /\ ~ Granted(c, l)'
      BY <1>8, <1>13, <3>6
    <3>8. AtOnePlace(c, l)'
      BY <3>5, <3>7 DEF AtOnePlace
    <3>9. NothingBehind(c, l)'
      BY <3>7 DEF NothingBehind
    <3> QED  BY <3>4, <3>8, <3>9
  <2> QED  BY <1>15, <2>2, <2>3
<1>18. ASSUME NEW f, f.lock \in Locks, ToDo(c, f)  PROVE ToDo(c, f)'
  <2> DEFINE l == f.lock
  <2>1. CASE ReleaseSent(c, f)
    <3>1. toLock[c][l] # << >>
      BY <2>1 DEF ReleaseSent
    <3>2. toLock'[c][l] = toLock[c][l]
      BY <1>15, <1>18, <3>1
    <3> QED  BY <2>1, <3>2 DEF ToDo, ReleaseSent, Rel
  <2>2. CASE f \in grants[c]
    BY <1>1, <2>2 DEF ToDo
  <2>3. CASE Unreleased(c, f)
    <3>1. PICK i \in DOMAIN txn_queues[c][f.txn] :
             i > txn_s[c][f.txn] /\ txn_queues[c][f.txn][i] = f
      BY <2>3 DEF Unreleased
    <3>2. f.txn \in Txns(c)
      BY <2>3 DEF Unreleased
    <3>3. CASE f.txn # u \/ i > r
      <4>1. i > txn_s'[c][f.txn]
        <5>1. CASE f.txn # u
          BY <1>6, <3>1, <3>2, <5>1
        <5>2. CASE f.txn = u
          BY <1>6, <3>3, <5>2
        <5> QED  BY <5>1, <5>2
      <4>2. Unreleased(c, f)'
        BY <1>1, <3>1, <3>2, <4>1 DEF Unreleased, Txns
      <4> QED  BY <4>2 DEF ToDo
    <3>4. CASE f.txn = u /\ ~ i > r
      <4>1. i \in DOMAIN q /\ q[i] = f /\ i \in s + 1 .. r
        BY <1>4, <3>1, <3>4
      <4>2. PICK k \in s + 1 .. r : /\ k \in DOMAIN q /\ q[k].lock = l
                                    /\ toLock'[c][l] = << Rel(q[k]) >>
        BY <1>15, <1>18, <4>1
      <4>3. \A m, n \in DOMAIN q : q[m].lock = q[n].lock => m = n
        BY <1>2, <1>3 DEF Nodes
      <4>4. k = i
        BY ONLY <4>1, <4>2, <4>3
      <4>5. toLock'[c][l] = << Rel(f) >>
        BY <4>1, <4>2, <4>4
      <4>6. toLock'[c][l] # << >> /\ toLock'[c][l][1] = Rel(f)
        BY <4>5, ShortQueues
      <4> QED  BY <4>6 DEF ToDo, ReleaseSent, Rel
    <3> QED  BY <3>3, <3>4
  <2> QED  BY <1>18, <2>1, <2>2, <2>3 DEF ToDo
<1>19. ClientInv(c)'
  BY <1>10, <1>11, <1>12, <1>16, <1>17 DEF ClientInv
<1>20. ASSUME NEW m \in Locks  PROVE Line(m)' /\ Owing(m)'
  <2>1. waiting' = waiting /\ holders' = holders
    BY <1>1
  <2>2. \A d \in Clients : \A e : e.lock = m /\ InPlay(d, e) /\ InLine(d, m) => InPlay(d, e)'
    BY <1>8, <1>9
  <2>3. Line(m)'
    BY <2>1, <2>2, LineFrame
  <2>4. \A d \in Clients : \A f : f.lock = m /\ ToDo(d, f) => ToDo(d, f)'
    BY <1>8, <1>18
  <2>5. Owing(m)'
    BY <2>1, <2>4, OwingFrame
  <2> QED  BY <2>3, <2>5
<1> QED  BY <1>8, <1>19, <1>20 DEF TxnInv

\* The TX lcore gives back what was granted.
LEMMA TxExpireStep ==
  ASSUME TxnInv, NEW c \in Clients, TxExpire(c)
  PROVE  TxnInv'
<1>1. PICK u : u = last_txn[c]
  OBVIOUS
<1>2. PICK s, r : s = txn_s[c][u] /\ r = txn_r[c][u]
  OBVIOUS
<1> QED  BY <1>1, <1>2, ExpireOf

-----------------------------------------------------------------------------
(* Every step.                                                             *)

\* No step.
LEMMA TxnUnchanged == TxnInv /\ UNCHANGED vars => TxnInv'
<1> SUFFICES ASSUME TxnInv, UNCHANGED vars  PROVE TxnInv'
  OBVIOUS
<1>1. /\ UNCHANGED << idx, last_txn, last_txn_idx, txn_s, deadlocked, tx_mbufs >>
      /\ UNCHANGED << received, txn_queues, txn_r >>
      /\ UNCHANGED << toLock, rejected, grants, holders, waiting >>
  BY DEF vars, txVars, rxVars, lockVars
<1>2. \A d \in Clients : \A e : Holds(d, e)' <=> Holds(d, e)
  BY <1>1 DEF Holds, RequestOf
<1>3. \A d \in Clients : \A m \in Locks : InLine(d, m)' <=> InLine(d, m)
  BY <1>1 DEF InLine
<1>4. ASSUME NEW d \in Clients
      PROVE  /\ ClientInv(d)' /\ ClientTypes(d)'
             /\ \A e : InPlay(d, e)' <=> InPlay(d, e)
             /\ \A e : ToDo(d, e) => ToDo(d, e)'
  <2>1. SameClient(d)
    BY <1>1 DEF SameClient
  <2> QED  BY <1>2, <1>3, <2>1, ClientFrame
<1>5. TypeOK'
  BY <1>1, <1>4 DEF TxnInv, TypeOK
<1>6. ASSUME NEW l \in Locks  PROVE Line(l)' /\ Owing(l)'
  <2>1. Line(l)'
    BY <1>1, <1>4, LineFrame
  <2>2. Owing(l)'
    BY <1>1, <1>4, OwingFrame
  <2> QED  BY <2>1, <2>2
<1> QED  BY <1>4, <1>5, <1>6 DEF TxnInv

\* Every action.
LEMMA TxnNext == TxnInv /\ [Next]_vars => TxnInv'
<1> SUFFICES ASSUME TxnInv, [Next]_vars  PROVE TxnInv'
  OBVIOUS
<1>1. ASSUME NEW c \in Clients, TxAcquire(c)  PROVE TxnInv'
  BY <1>1, TxAcquireStep
<1>2. ASSUME NEW c \in Clients, TxCommit(c)  PROVE TxnInv'
  BY <1>2, TxCommitStep
<1>3. ASSUME NEW c \in Clients, TxRetry(c)  PROVE TxnInv'
  BY <1>3, TxRetryStep
<1>4. ASSUME NEW c \in Clients, TxExpire(c)  PROVE TxnInv'
  BY <1>4, TxExpireStep
<1>5. ASSUME NEW c \in Clients, RxEnqueue(c)  PROVE TxnInv'
  BY <1>5, EnqueueStep
<1>6. ASSUME NEW c \in Clients, RxCount(c)  PROVE TxnInv'
  BY <1>6, CountStep
<1>7. ASSUME NEW c \in Clients, RxResend(c)  PROVE TxnInv'
  BY <1>7, ResendStep
<1>8. ASSUME NEW c \in Clients, NEW l \in Locks, LockAcquire(c, l)  PROVE TxnInv'
  BY <1>8, AcquireStep
<1>9. ASSUME NEW c \in Clients, NEW l \in Locks, LockReject(c, l)  PROVE TxnInv'
  BY <1>9, RejectStep
<1>10. ASSUME NEW c \in Clients, NEW l \in Locks, LockRelease(c, l)  PROVE TxnInv'
  BY <1>10, ReleaseStep
<1>11. ASSUME NEW l \in Locks, LockGrant(l)  PROVE TxnInv'
  BY <1>11, GrantStep
<1>12. CASE UNCHANGED vars
  BY <1>12, TxnUnchanged
<1> QED
  BY <1>1, <1>2, <1>3, <1>4, <1>5, <1>6, <1>7, <1>8, <1>9, <1>10, <1>11, <1>12
  DEF Next, Tx, Rx

\* The invariant holds in every state.
LEMMA TxnAlways == Spec => []TxnInv
BY TxnInit, TxnNext, PTL DEF Spec

-----------------------------------------------------------------------------
\* A client works on its data only while it holds all the locks of the
\* transaction: the count of grants that lets it go on (client.c:481, txn_r
\* against locks_each_txn) is of grants of this attempt, each for another lock,
\* and without a RELEASE sent, however often attempts were given up before.
THEOREM WorksHoldingAll == Spec => []CommitHoldsAll
BY TxnAlways, InvCommit, PTL

\* Whatever a client holds it will give back or count: there is a RELEASE or a
\* grant on its way, or a node not yet released.  And it sends a RELEASE for
\* what it holds only, once (client.c:496-524 and 555-568, from txn_s to txn_r).
THEOREM NothingLeakedOrReleasedTwice == Spec => []LocksAccounted
BY TxnAlways, InvAccounted, PTL

\* The TX lcore never walks off the list that the RX lcore appends to, none of
\* the lines "ptr NULL step..." is printed (client.c:489-500, 546-558), and
\* "SOMETHING MUST BE WRONG!" (client.c:579) is not either.
THEOREM ListWalkedSafely == Spec => []TraversalSafe
BY TxnAlways, InvTraversal, PTL

-----------------------------------------------------------------------------
(* What the clients may rely on, and the locks.                            *)

\* A client at work: the TX lcore finds a transaction complete that gave
\* nothing back.
AtWork(c) == Complete(c) /\ ~ deadlocked[c][last_txn[c]]

\* Of clients at work no two have a lock in conflict.
WorkIsolated ==
    \A c, d \in Clients : c # d /\ AtWork(c) /\ AtWork(d) =>
        \A e \in Entries(c, last_txn[c]), f \in Entries(d, last_txn[d]) :
            e.lock = f.lock => ~ e.exclusive /\ ~ f.exclusive

\* Nobody holds a lock together with a writer.
HoldersApart ==
    \A l \in Locks : \A g, h \in holders[l] : g # h => ~ g.exclusive /\ ~ h.exclusive

\* Only arrivals and grants change a lock.
LEMMA LocksAlone ==
  ASSUME NEW c \in Clients,
         \/ Tx(c) \/ Rx(c) \/ UNCHANGED vars
         \/ \E l \in Locks : LockReject(c, l)
  PROVE  UNCHANGED << holders, waiting >>
<1>1. CASE Tx(c)
  BY <1>1 DEF Tx, TxAcquire, TxCommit, TxRetry, TxExpire, lockVars
<1>2. CASE Rx(c)
  BY <1>2 DEF Rx, RxEnqueue, RxCount, RxResend, lockVars
<1>3. CASE UNCHANGED vars
  BY <1>3 DEF vars, lockVars
<1>4. CASE \E l \in Locks : LockReject(c, l)
  BY <1>4 DEF LockReject, lockVars
<1> QED  BY <1>1, <1>2, <1>3, <1>4

\* Grants keep the holders of a lock apart, and so does everything else.
LEMMA ApartNext == TxnInv /\ HoldersApart /\ [Next]_vars => HoldersApart'
<1> SUFFICES ASSUME TxnInv, HoldersApart, [Next]_vars  PROVE HoldersApart'
  OBVIOUS
<1>1. DOMAIN holders = Locks
  BY DEF TxnInv, TypeOK
<1>2. CASE UNCHANGED holders
  BY <1>2 DEF HoldersApart
<1>3. ASSUME NEW c \in Clients, NEW l \in Locks, LockRelease(c, l)  PROVE HoldersApart'
  <2>1. \A m \in Locks : holders'[m] \subseteq holders[m]
    BY <1>1, <1>3 DEF LockRelease
  <2> QED  BY <2>1 DEF HoldersApart
<1>4. ASSUME NEW l \in Locks, LockGrant(l)  PROVE HoldersApart'
  <2> DEFINE r == Head(waiting[l])
  <2>1. /\ \A h \in holders[l] : ~ h.exclusive /\ ~ r.exclusive
        /\ holders' = [holders EXCEPT ![l] = @ \cup {r}]
    BY <1>4 DEF LockGrant
  <2> HIDE DEF r
  <2>2. \A m \in Locks : m # l => holders'[m] = holders[m]
    BY <1>1, <2>1
  <2>3. holders'[l] = holders[l] \cup {r}
    BY <1>1, <2>1
  <2> QED  BY <2>1, <2>2, <2>3 DEF HoldersApart
<1>5. ASSUME NEW c \in Clients, NEW l \in Locks, LockAcquire(c, l)  PROVE UNCHANGED holders
  BY <1>5 DEF LockAcquire
<1>6. ASSUME NEW c \in Clients, Tx(c) \/ Rx(c) \/ \E l \in Locks : LockReject(c, l)
      PROVE  UNCHANGED holders
  BY <1>6, LocksAlone
<1>7. CASE UNCHANGED vars
  BY <1>2, <1>7 DEF vars, lockVars
<1> QED  BY <1>2, <1>3, <1>4, <1>5, <1>6, <1>7 DEF Next

\* Clients at work hold their locks, and holders are apart.
LEMMA ApartIsolated == TxnInv /\ HoldersApart => WorkIsolated
<1> SUFFICES ASSUME TxnInv, HoldersApart,
                    NEW c \in Clients, NEW d \in Clients, c # d, AtWork(c), AtWork(d),
                    NEW e \in Entries(c, last_txn[c]), NEW f \in Entries(d, last_txn[d]),
                    e.lock = f.lock
             PROVE  ~ e.exclusive /\ ~ f.exclusive
  BY DEF WorkIsolated
<1>1. Holds(c, e) /\ Holds(d, f)
  BY InvCommit DEF CommitHoldsAll, AtWork
<1>2. e.lock \in Locks
  BY EntryFacts
<1>3. RequestOf(c, e) # RequestOf(d, f)
  BY DEF RequestOf
<1>4. RequestOf(c, e).exclusive = e.exclusive /\ RequestOf(d, f).exclusive = f.exclusive
  BY DEF RequestOf
<1> QED  BY <1>1, <1>2, <1>3, <1>4 DEF HoldersApart, Holds

\* Transactions are isolated: while a client does the work of a transaction,
\* no other client is at work on one that conflicts with it, whatever the
\* transactions are and however often either was given up before (client.c:481
\* lets the client go on; what it counted are grants of locks it holds).
THEOREM TransactionsIsolated == Spec => []WorkIsolated
<1>1. Init => HoldersApart
  BY DEF Init, HoldersApart
<1> QED  BY <1>1, TxnAlways, ApartNext, ApartIsolated, PTL DEF Spec

-----------------------------------------------------------------------------
(* Each lock of these clients is a FifoLock.                               *)

\* What the clients ever ask for.
AllRequests ==
    UNION {{RequestOf(c, Trace[c][i]) : i \in DOMAIN Trace[c]} : c \in Clients}

Fifo(l) == INSTANCE FifoLock WITH
    Requests <- AllRequests, Exclusive <- {r \in AllRequests : r.exclusive},
    holders <- holders[l], waiting <- waiting[l]

\* A request that arrives is neither held nor waiting.
LEMMA AcquireMaps ==
  ASSUME TxnInv, NEW c \in Clients, NEW l \in Locks, LockAcquire(c, l)
  PROVE  Fifo(l)!Next
<1> DEFINE e == Head(toLock[c][l]).entry
           r == RequestOf(c, e)
<1>1. /\ Arrives("acquire", c, l) /\ UNCHANGED holders
      /\ waiting' = [waiting EXCEPT ![l] = Append(@, r)]
  BY DEF LockAcquire
<1>2. /\ Asking(c, l) /\ toLock[c][l] = << Acq(e) >>
      /\ e \in Node(c) /\ InPlay(c, e) /\ e.lock = l
  BY <1>1, AcquireArrives
<1> HIDE DEF e
<1>3. AtOnePlace(c, l) /\ Owing(l) /\ DOMAIN waiting = Locks
  BY AtClient DEF TxnInv, TypeOK
<1>4. ~ InLine(c, l) /\ ~ Granted(c, l) /\ ~ Noted(c, l)
  BY <1>2, <1>3 DEF AtOnePlace
<1>5. r.client = c /\ EntryOf(r, l) = e /\ r \in AllRequests
  <2>1. e \in Entries(c, last_txn[c])
    BY <1>2 DEF InPlay
  <2>2. EntryOf(r, e.lock) = e /\ r.client = c
    BY <2>1, EntryFacts
  <2>3. r \in AllRequests
    BY <2>1 DEF Entries, AllRequests
  <2> QED  BY <1>2, <2>2, <2>3
<1>6. r \notin holders[l]
  <2> SUFFICES ASSUME r \in holders[l]  PROVE FALSE
    OBVIOUS
  <2>1. ToDo(c, e)
    BY <1>3, <1>5 DEF Owing
  <2>2. ~ ReleaseSent(c, e)
    <3>1. toLock[c][l][1] = Acq(e)
      BY <1>2
    <3> QED  BY <1>2, <3>1 DEF ReleaseSent, Acq, Rel
  <2>3. e \notin grants[c]
    BY <1>2, <1>4 DEF Granted
  <2>4. ~ Unreleased(c, e)
    BY <1>2, <1>4 DEF Noted, Unreleased
  <2> QED  BY <2>1, <2>2, <2>3, <2>4 DEF ToDo
<1>7. r \notin Fifo(l)!Waiters
  BY <1>4, <1>5 DEF InLine, Fifo!Waiters
<1>8. UNCHANGED holders[l] /\ waiting'[l] = Append(waiting[l], r)
  BY <1>1, <1>3
<1> HIDE DEF r
<1>9. Fifo(l)!Arrive(r)
  BY <1>6, <1>7, <1>8 DEF Fifo!Arrive
<1> QED  BY <1>5, <1>9 DEF Fifo!Next

\* Who releases holds.
LEMMA ReleaseMaps ==
  ASSUME TxnInv, NEW c \in Clients, NEW l \in Locks, LockRelease(c, l)
  PROVE  Fifo(l)!Next
<1> SUFFICES ASSUME NEW r, r = RequestOf(c, Head(toLock[c][l]).entry)
             PROVE  Fifo(l)!Next
  OBVIOUS
<1>1. /\ Arrives("release", c, l) /\ UNCHANGED waiting
      /\ holders' = [holders EXCEPT ![l] = @ \ {r}]
  BY DEF LockRelease
<1>2. DOMAIN holders = Locks /\ waiting[l] \in Seq(Request)
  BY DEF TxnInv, TypeOK
<1>3. r \in holders[l]
  BY <1>1, ReleaseArrives DEF Holds
<1>4. holders'[l] = holders[l] \ {r} /\ waiting'[l] = waiting[l]
  BY <1>1, <1>2
<1>5. Fifo(l)!Oldest(0) = {}
  BY DEF Fifo!Oldest
<1>6. SubSeq(waiting[l], 0 + 1, Len(waiting[l])) = waiting[l]
  BY <1>2
<1>7. Fifo(l)!Promote(0, holders[l] \ {r})
  BY <1>4, <1>5, <1>6 DEF Fifo!Promote
<1>8. Fifo(l)!Release(r, 0)
  BY <1>3, <1>7 DEF Fifo!Release
<1>9. 0 \in 0 .. Len(waiting[l])
  <2>1. Len(waiting[l]) \in Nat
    BY <1>2, LenProperties
  <2> QED  BY <2>1
<1> QED  BY <1>3, <1>8, <1>9 DEF Fifo!Next

\* The first in line is promoted, alone.
LEMMA GrantMaps ==
  ASSUME TxnInv, NEW l \in Locks, LockGrant(l)
  PROVE  Fifo(l)!Next
<1> DEFINE r == Head(waiting[l])
<1>1. /\ waiting[l] # << >>
      /\ \A h \in holders[l] : ~ h.exclusive /\ ~ r.exclusive
      /\ holders' = [holders EXCEPT ![l] = @ \cup {r}]
      /\ waiting' = [waiting EXCEPT ![l] = Tail(@)]
  BY DEF LockGrant
<1>2. DOMAIN holders = Locks /\ DOMAIN waiting = Locks /\ waiting[l] \in Seq(Request)
  BY DEF TxnInv, TypeOK
<1>3. /\ r = waiting[l][1] /\ Len(waiting[l]) \in Nat /\ 1 <= Len(waiting[l])
      /\ Tail(waiting[l]) = SubSeq(waiting[l], 1 + 1, Len(waiting[l]))
  BY <1>1, <1>2
<1> HIDE DEF r
<1>4. holders'[l] = holders[l] \cup {r} /\ waiting'[l] = Tail(waiting[l])
  BY <1>1, <1>2
<1>5. Fifo(l)!Oldest(1) = {r}
  <2>1. \A i : i \in 1 .. 1 <=> i = 1
    OBVIOUS
  <2> QED  BY <1>3, <2>1 DEF Fifo!Oldest
<1>6. Fifo(l)!Clear(r, holders[l] \cup {r})
  BY <1>1 DEF Fifo!Clear, Fifo!Conflict
<1>7. Fifo(l)!Promote(1, holders[l])
  BY <1>3, <1>4, <1>5, <1>6 DEF Fifo!Promote
<1>8. Fifo(l)!Grant(1) /\ 1 \in 0 .. Len(waiting[l])
  BY <1>3, <1>7 DEF Fifo!Grant
<1> QED  BY <1>8 DEF Fifo!Next

\* Every step is one of the lock's, or leaves it alone.
LEMMA LockMaps ==
  ASSUME NEW l \in Locks
  PROVE  TxnInv /\ [Next]_vars => [Fifo(l)!Next]_(Fifo(l)!fifoVars)
<1> SUFFICES ASSUME TxnInv, [Next]_vars
             PROVE  Fifo(l)!Next \/ UNCHANGED << holders[l], waiting[l] >>
  BY DEF Fifo!fifoVars
<1>1. CASE UNCHANGED << holders, waiting >>
  BY <1>1
<1>2. DOMAIN holders = Locks /\ DOMAIN waiting = Locks
  BY DEF TxnInv, TypeOK
<1>3. ASSUME NEW c \in Clients, NEW m \in Locks, LockAcquire(c, m)
      PROVE  Fifo(l)!Next \/ UNCHANGED << holders[l], waiting[l] >>
  <2>1. CASE m = l
    BY <1>3, <2>1, AcquireMaps
  <2>2. CASE m # l
    BY <1>2, <1>3, <2>2 DEF LockAcquire
  <2> QED  BY <2>1, <2>2
<1>4. ASSUME NEW c \in Clients, NEW m \in Locks, LockRelease(c, m)
      PROVE  Fifo(l)!Next \/ UNCHANGED << holders[l], waiting[l] >>
  <2>1. CASE m = l
    BY <1>4, <2>1, ReleaseMaps
  <2>2. CASE m # l
    BY <1>2, <1>4, <2>2 DEF LockRelease
  <2> QED  BY <2>1, <2>2
<1>5. ASSUME NEW m \in Locks, LockGrant(m)
      PROVE  Fifo(l)!Next \/ UNCHANGED << holders[l], waiting[l] >>
  <2>1. CASE m = l
    BY <1>5, <2>1, GrantMaps
  <2>2. CASE m # l
    BY <1>2, <1>5, <2>2 DEF LockGrant
  <2> QED  BY <2>1, <2>2
<1>6. ASSUME NEW c \in Clients, Tx(c) \/ Rx(c) \/ \E m \in Locks : LockReject(c, m)
      PROVE  UNCHANGED << holders, waiting >>
  BY <1>6, LocksAlone
<1>7. CASE UNCHANGED vars
  BY <1>1, <1>7 DEF vars, lockVars
<1> QED  BY <1>1, <1>3, <1>4, <1>5, <1>6, <1>7 DEF Next

\* What the clients do is what FifoLock allows its users: a request arrives
\* that neither holds nor waits, and only a holder releases, though answers,
\* expiries and retries come in any order (client.c:481-603).  This is what
\* the lock server and the switch are entitled to, and with it each lock
\* behaves as the abstract one that both implement.
THEOREM LocksAreFifo ==
  ASSUME NEW l \in Locks
  PROVE  Spec => Fifo(l)!Spec
<1>1. Init => Fifo(l)!Init
  BY DEF Init, Fifo!Init
<1>2. TxnInv /\ [Next]_vars => [Fifo(l)!Next]_(Fifo(l)!fifoVars)
  BY LockMaps
<1> QED  BY <1>1, <1>2, TxnAlways, PTL DEF Spec, Fifo!Spec
=============================================================================
