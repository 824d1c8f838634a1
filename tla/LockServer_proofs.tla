------------------------- MODULE LockServer_proofs -------------------------
(***************************************************************************)
(* Proofs about the lock server, for any finite set of requests: its type  *)
(* invariant, the exactness of num_ex and num_sh, readers/writer           *)
(* exclusion, and that it implements the abstract lock.                    *)
(*                                                                         *)
(* MutualExclusion is not inductive: that a request may be granted on      *)
(* arrival depends on the counters, that the next one may be granted on a  *)
(* release depends on the order of the queue, and a release dequeues the   *)
(* head, which need not be the entry of the request that is released.      *)
(* QueueInv relates the three: the queue is led by as many entries as      *)
(* there are holders, of the holders' mode, and the waiting requests       *)
(* follow, one entry each.                                                 *)
(***************************************************************************)
EXTENDS LockServerFifo, Counting

Inv == TypeOK /\ QueueInv

-----------------------------------------------------------------------------
(* The numbers of exclusive and shared entries of a queue.                 *)

LEMMA EntriesArePositions ==
  ASSUME NEW q \in Seq(Requests)
  PROVE  /\ ExclusiveEntries(q) = Positions(q, Exclusive)
         /\ SharedEntries(q) = Positions(q, Requests \ Exclusive)
<1>1. \A i \in DOMAIN q : q[i] \in Requests
  BY ElementOfSeq, LenProperties
<1>2. QED
  BY <1>1 DEF ExclusiveEntries, SharedEntries, Positions, IsExclusive

LEMMA EntriesFinite ==
  ASSUME NEW q \in Seq(Requests)
  PROVE  /\ IsFiniteSet(ExclusiveEntries(q)) /\ IsFiniteSet(SharedEntries(q))
         /\ Cardinality(ExclusiveEntries(q)) \in Nat
         /\ Cardinality(SharedEntries(q)) \in Nat
  BY EntriesArePositions, PositionsFinite

\* Appending a request adds one entry of its mode and none of the other.
LEMMA AppendEntries ==
  ASSUME NEW q \in Seq(Requests), NEW r \in Requests
  PROVE  /\ Cardinality(ExclusiveEntries(Append(q, r))) =
              Cardinality(ExclusiveEntries(q)) + (IF IsExclusive(r) THEN 1 ELSE 0)
         /\ Cardinality(SharedEntries(Append(q, r))) =
              Cardinality(SharedEntries(q)) + (IF IsExclusive(r) THEN 0 ELSE 1)
<1>1. Append(q, r) \in Seq(Requests)
  BY AppendProperties
<1>2. \A S : Cardinality(Positions(Append(q, r), S)) =
                Cardinality(Positions(q, S)) + (IF r \in S THEN 1 ELSE 0)
  BY AppendPositions
<1>3. QED
  BY <1>1, <1>2, EntriesArePositions DEF IsExclusive

\* Dequeuing the head removes one entry of its mode and none of the other.
LEMMA TailEntries ==
  ASSUME NEW q \in Seq(Requests), q # << >>
  PROVE  /\ Cardinality(ExclusiveEntries(Tail(q))) =
              Cardinality(ExclusiveEntries(q)) - (IF IsExclusive(q[1]) THEN 1 ELSE 0)
         /\ Cardinality(SharedEntries(Tail(q))) =
              Cardinality(SharedEntries(q)) - (IF IsExclusive(q[1]) THEN 0 ELSE 1)
<1>1. Tail(q) \in Seq(Requests) /\ q[1] \in Requests
  BY HeadTailProperties
<1>2. \A S : Cardinality(Positions(Tail(q), S)) =
                Cardinality(Positions(q, S)) - (IF q[1] \in S THEN 1 ELSE 0)
  BY TailPositions
<1>3. QED
  BY <1>1, <1>2, EntriesArePositions DEF IsExclusive

-----------------------------------------------------------------------------
(* The holders, and the readers a released writer lets in.                 *)

LEMMA HoldersFacts ==
  ASSUME TypeOK
  PROVE  /\ IsFiniteSet(Held) /\ Holders \in Nat
         /\ Holders = 0 <=> Held = {}
         /\ \A r \in Held : Holders = 1 => Held = {r}
<1>1. IsFiniteSet(Held)
  <2>1. Held \subseteq Requests
    BY DEF Held
  <2>2. QED
    BY <2>1, RequestsAssumption, FS_Subset
<1>2. Holders \in Nat /\ (Holders = 0 <=> Held = {})
  BY <1>1, FS_CardinalityType, FS_EmptySet DEF Holders
<1>3. ASSUME NEW r \in Held, Holders = 1
      PROVE  Held = {r}
  <2>1. PICK s : Held = {s}
    BY <1>1, <1>3, FS_Singleton DEF Holders
  <2>2. QED
    BY <2>1
<1>4. QED
  BY <1>1, <1>2, <1>3

\* What the counters being zero says of the queue they count.
LEMMA CountersDecide ==
  ASSUME NEW q \in Seq(Requests)
  PROVE  /\ Cardinality(ExclusiveEntries(q)) = 0 <=>
              \A i \in 1 .. Len(q) : ~ IsExclusive(q[i])
         /\ Cardinality(ExclusiveEntries(q)) = 0 /\ Cardinality(SharedEntries(q)) = 0
              <=> Len(q) = 0
<1>1. /\ Cardinality(ExclusiveEntries(q)) = 0 <=> ExclusiveEntries(q) = {}
      /\ Cardinality(SharedEntries(q)) = 0 <=> SharedEntries(q) = {}
  BY EntriesFinite, FS_EmptySet
<1>2. DOMAIN q = 1 .. Len(q) /\ Len(q) \in Nat
  BY LenProperties
<1>3. QED
  BY <1>1, <1>2 DEF ExclusiveEntries, SharedEntries

\* The leading shared entries are the first m, for some m; if no request has
\* two entries they are m requests.
LEMMA LeadingIsPrefix ==
  ASSUME NEW q \in Seq(Requests),
         \A i, j \in 1 .. Len(q) : q[i] = q[j] => i = j
  PROVE  \E m \in 0 .. Len(q) :
            /\ LeadingShared(q) = {q[i] : i \in 1 .. m}
            /\ Cardinality(LeadingShared(q)) = m
            /\ \A i \in 1 .. m : ~ IsExclusive(q[i])
            /\ m < Len(q) => IsExclusive(q[m + 1])
<1> DEFINE n == Len(q)
           I == {j \in 1 .. n : \A k \in 1 .. j : ~ IsExclusive(q[k])}
           m == Cardinality(I)
<1>1. n \in Nat /\ DOMAIN q = 1 .. n
  BY LenProperties
<1>2. IsFiniteSet(1 .. n) /\ Cardinality(1 .. n) = n
  BY <1>1, FS_Interval
<1>3. IsFiniteSet(I) /\ m \in Nat /\ m <= n
  BY <1>1, <1>2, FS_Subset, FS_CardinalityType
<1>4. I \subseteq 1 .. m
  <2> SUFFICES ASSUME NEW i \in I
               PROVE  i <= m
    BY <1>1, <1>3
  <2>1. i \in Nat /\ 1 .. i \subseteq I
    BY <1>1
  <2>2. Cardinality(1 .. i) = i
    BY <2>1, FS_Interval
  <2>3. QED
    BY <2>1, <2>2, <1>3, FS_Subset
<1>5. \E l \in 0 .. n : I = 1 .. l /\ m = l
  <2>1. IsFiniteSet(1 .. m) /\ Cardinality(1 .. m) = m
    BY <1>3, FS_Interval
  <2>2. I = 1 .. m
    BY <2>1, <1>4, <1>3, FS_Subset
  <2>3. m \in 0 .. n
    BY <1>1, <1>3
  <2>4. QED
    BY <2>2, <2>3
<1> HIDE DEF m
<1>6. PICK l \in 0 .. n : I = 1 .. l /\ m = l
  BY <1>5
<1>7. LeadingShared(q) = {q[i] : i \in 1 .. l}
  BY <1>1, <1>6 DEF LeadingShared
<1>8. Cardinality(LeadingShared(q)) = l
  <2> DEFINE f == [i \in I |-> q[i]]
  <2> HIDE DEF I
  <2>1. f \in Bijection(I, LeadingShared(q))
    <3>1. f \in [I -> LeadingShared(q)]
      BY <1>6, <1>7
    <3>2. \A i, j \in I : f[i] = f[j] => i = j
      BY <1>1, <1>6
    <3>3. \A t \in LeadingShared(q) : \E i \in I : f[i] = t
      BY <1>6, <1>7
    <3>4. QED
      BY <3>1, <3>2, <3>3, Fun_IsBij
  <2>2. ExistsBijection(I, LeadingShared(q))
    BY <2>1 DEF ExistsBijection
  <2>3. QED
    BY <2>2, <1>3, <1>6, FS_Bijection DEF m
<1>9. \A i \in 1 .. l : ~ IsExclusive(q[i])
  BY <1>6, <1>1
<1>10. l < n => IsExclusive(q[l + 1])
  <2> SUFFICES ASSUME l < n
               PROVE  IsExclusive(q[l + 1])
    OBVIOUS
  <2>1. l + 1 \in 1 .. n /\ l + 1 \notin 1 .. l
    BY <1>1
  <2>2. l + 1 \notin I
    <3> HIDE DEF I
    <3>1. QED
      BY <2>1, <1>6
  <2>3. PICK k \in 1 .. l + 1 : IsExclusive(q[k])
    BY <2>1, <2>2
  <2>4. k = l + 1
    BY <2>3, <1>9, <1>1
  <2>5. QED
    BY <2>3, <2>4
<1> HIDE DEF I
<1>11. QED
  BY <1>7, <1>8, <1>9, <1>10
-----------------------------------------------------------------------------
(* What each action does to the type invariant and to the counters.        *)

LEMMA InitInv == Init => Inv
<1> SUFFICES ASSUME Init
             PROVE  Inv
  OBVIOUS
<1>1. TypeOK
  BY DEF Init, TypeOK
<1>2. queue \in Seq(Requests) /\ Len(queue) = 0 /\ Held = {}
  BY DEF Init, Held
<1>3. Holders = 0
  BY <1>1, <1>2, HoldersFacts
<1>4. CountersExact
  BY <1>2, CountersDecide DEF Init, CountersExact
<1>5. HoldersLead /\ NobodyWaitsInVain
  BY <1>2, <1>3 DEF HoldersLead, NobodyWaitsInVain
<1>6. WaitersFollow
  BY <1>2, <1>3 DEF Init, WaitersFollow
<1>7. QED
  BY <1>1, <1>4, <1>5, <1>6 DEF Inv, QueueInv

LEMMA AcquireTypeAndCounters ==
  ASSUME Inv, NEW r \in Requests, Acquire(r)
  PROVE  TypeOK' /\ CountersExact'
<1> USE DEF Inv, QueueInv, TypeOK, CountersExact
<1>1. queue' = Append(queue, r) /\ queue' \in Seq(Requests)
  <2>1. queue \in Seq(Requests)
    OBVIOUS
  <2>2. queue' = Append(queue, r)
    BY DEF Acquire, AcquireShared, AcquireExclusive
  <2>3. QED
    BY <2>1, <2>2, AppendProperties
<1>2. /\ Cardinality(ExclusiveEntries(queue')) =
           Cardinality(ExclusiveEntries(queue)) + (IF IsExclusive(r) THEN 1 ELSE 0)
      /\ Cardinality(SharedEntries(queue')) =
           Cardinality(SharedEntries(queue)) + (IF IsExclusive(r) THEN 0 ELSE 1)
  BY <1>1, AppendEntries
<1>3. CASE AcquireShared(r)
  BY <1>1, <1>2, <1>3 DEF AcquireShared
<1>4. CASE AcquireExclusive(r)
  BY <1>1, <1>2, <1>4 DEF AcquireExclusive
<1>5. QED
  BY <1>3, <1>4 DEF Acquire

LEMMA ReleaseTypeAndCounters ==
  ASSUME Inv, NEW r \in Requests, Release(r)
  PROVE  TypeOK' /\ CountersExact'
<1> USE DEF Inv, QueueInv, TypeOK, CountersExact
<1>1. queue # << >> /\ queue' = Tail(queue) /\ queue' \in Seq(Requests)
  <2>1. queue \in Seq(Requests)
    OBVIOUS
  <2>2. queue # << >> /\ queue' = Tail(queue)
    BY DEF Release, ReleaseShared, ReleaseExclusive
  <2>3. QED
    BY <2>1, <2>2, HeadTailProperties
<1>2. /\ Cardinality(ExclusiveEntries(queue')) =
           Cardinality(ExclusiveEntries(queue)) - (IF IsExclusive(queue[1]) THEN 1 ELSE 0)
      /\ Cardinality(SharedEntries(queue')) =
           Cardinality(SharedEntries(queue)) - (IF IsExclusive(queue[1]) THEN 0 ELSE 1)
  BY <1>1, TailEntries
<1>3. Head(queue) = queue[1]
  BY <1>1
<1>4. \A R : StatusGranting(R) \in [Requests -> {"idle", "waiting", "granted"}]
  BY DEF StatusGranting
<1>5. /\ Cardinality(ExclusiveEntries(queue')) \in Nat
      /\ Cardinality(SharedEntries(queue')) \in Nat
  BY <1>1, EntriesFinite
<1>6. CASE ReleaseShared(r)
  <2>1. num_sh' = Cardinality(SharedEntries(queue')) /\ num_ex' = Cardinality(ExclusiveEntries(queue'))
    BY <1>1, <1>2, <1>3, <1>6, EntriesFinite DEF ReleaseShared
  <2>2. status' \in [Requests -> {"idle", "waiting", "granted"}]
    BY <1>4, <1>6 DEF ReleaseShared
  <2>3. QED
    BY <1>1, <1>5, <2>1, <2>2
<1>7. CASE ReleaseExclusive(r)
  <2>1. num_sh' = Cardinality(SharedEntries(queue')) /\ num_ex' = Cardinality(ExclusiveEntries(queue'))
    BY <1>1, <1>2, <1>3, <1>7, EntriesFinite DEF ReleaseExclusive
  <2>2. status' \in [Requests -> {"idle", "waiting", "granted"}]
    BY <1>4, <1>7 DEF ReleaseExclusive
  <2>3. QED
    BY <1>1, <1>5, <2>1, <2>2
<1>8. QED
  BY <1>6, <1>7 DEF Release
-----------------------------------------------------------------------------
(* What FifoLock makes of a step: as many entries as there are holders     *)
(* lead the queue, and those behind them are what waits.                   *)

LEMMA RestOfQueue ==
  ASSUME NEW q \in Seq(Requests), NEW h \in 0 .. Len(q)
  PROVE  /\ SubSeq(q, h + 1, Len(q)) \in Seq(Requests)
         /\ Len(SubSeq(q, h + 1, Len(q))) = Len(q) - h
         /\ \A i \in 1 .. Len(q) - h : SubSeq(q, h + 1, Len(q))[i] = q[h + i]
<1>1. Len(q) \in Nat /\ h \in Nat /\ h <= Len(q)
  BY LenProperties
<1>2. \A i \in h + 1 .. Len(q) : q[i] \in Requests
  BY <1>1, ElementOfSeq
<1>3. /\ SubSeq(q, h + 1, Len(q)) \in Seq(Requests)
      /\ Len(SubSeq(q, h + 1, Len(q))) =
           IF h + 1 <= Len(q) THEN Len(q) - (h + 1) + 1 ELSE 0
      /\ \A i \in 1 .. Len(q) - (h + 1) + 1 :
           SubSeq(q, h + 1, Len(q))[i] = q[h + 1 + i - 1]
  BY <1>1, <1>2, SubSeqProperties
<1>4. \A i \in 1 .. Len(q) - h : h + 1 + i - 1 = h + i
  BY <1>1
<1>5. QED
  BY <1>1, <1>3, <1>4

LEMMA WaitingFacts ==
  ASSUME Inv
  PROVE  /\ Holders \in 0 .. Len(queue) /\ Len(queue) \in Nat
         /\ Waiting \in Seq(Requests) /\ Len(Waiting) = Len(queue) - Holders
         /\ \A i \in 1 .. Len(Waiting) : Waiting[i] = queue[Holders + i]
         /\ \A s \in Fifo!Waiters : status[s] = "waiting"
<1>1. queue \in Seq(Requests) /\ Len(queue) \in Nat /\ Holders \in 0 .. Len(queue)
  BY HoldersFacts, LenProperties DEF Inv, TypeOK, QueueInv, HoldersLead
<1>2. /\ Waiting \in Seq(Requests) /\ Len(Waiting) = Len(queue) - Holders
      /\ \A i \in 1 .. Len(Waiting) : Waiting[i] = queue[Holders + i]
  BY <1>1, RestOfQueue DEF Waiting
<1>3. ASSUME NEW s \in Fifo!Waiters
      PROVE  status[s] = "waiting"
  <2>1. PICK i \in 1 .. Len(Waiting) : s = Waiting[i]
    BY <1>2, LenProperties DEF Fifo!Waiters
  <2>2. s = queue[Holders + i] /\ Holders + i \in Holders + 1 .. Len(queue)
    BY <2>1, <1>1, <1>2
  <2>3. QED
    BY <2>2 DEF Inv, QueueInv, WaitersFollow
<1>4. QED
  BY <1>1, <1>2, <1>3

LEMMA ArriveMaps ==
  ASSUME Inv, NEW r \in Requests, status[r] = "idle",
         queue' = Append(queue, r), Held' = Held
  PROVE  Fifo!Arrive(r)
<1> DEFINE n == Len(queue)
           h == Holders
<1>1. /\ n \in Nat /\ queue' \in Seq(Requests) /\ Len(queue') = n + 1
      /\ queue'[n + 1] = r /\ \A i \in 1 .. n : queue'[i] = queue[i]
  BY AppendProperties, LenProperties DEF Inv, TypeOK
<1>2. Holders' = h /\ h \in 0 .. n
  BY WaitingFacts DEF Holders
<1>3. /\ Waiting' \in Seq(Requests) /\ Len(Waiting') = n + 1 - h
      /\ \A i \in 1 .. n + 1 - h : Waiting'[i] = queue'[h + i]
  <2>1. Waiting' = SubSeq(queue', h + 1, Len(queue')) /\ h \in 0 .. Len(queue')
    BY <1>1, <1>2 DEF Waiting
  <2>2. Len(queue') - h = n + 1 - h
    BY <1>1, <1>2
  <2>3. queue' \in Seq(Requests)
    BY <1>1
  <2> HIDE DEF h, n
  <2>4. /\ Waiting' \in Seq(Requests) /\ Len(Waiting') = Len(queue') - h
        /\ \A i \in 1 .. Len(queue') - h : Waiting'[i] = queue'[h + i]
    BY <2>1, <2>3, RestOfQueue
  <2>5. QED
    BY <2>2, <2>4
<1>4. /\ Waiting \in Seq(Requests) /\ Len(Waiting) = n - h
      /\ \A i \in 1 .. n - h : Waiting[i] = queue[h + i]
  BY WaitingFacts
<1>5. /\ Append(Waiting, r) \in Seq(Requests) /\ Len(Append(Waiting, r)) = n - h + 1
      /\ \A i \in 1 .. n - h : Append(Waiting, r)[i] = Waiting[i]
      /\ Append(Waiting, r)[n - h + 1] = r
  BY <1>4, AppendProperties
<1>6. ASSUME NEW i \in 1 .. n + 1 - h
      PROVE  Waiting'[i] = Append(Waiting, r)[i]
  <2>1. CASE i \in 1 .. n - h
    <3>1. h + i \in 1 .. n
      BY <2>1, <1>1, <1>2
    <3>2. QED
      BY <2>1, <3>1, <1>1, <1>3, <1>4, <1>5
  <2>2. CASE i = n - h + 1
    <3>1. h + i = n + 1
      BY <2>2, <1>1, <1>2
    <3>2. QED
      BY <2>2, <3>1, <1>1, <1>3, <1>5
  <2>3. n \in Nat /\ h \in 0 .. n
    BY <1>1, <1>2
  <2> HIDE DEF n, h
  <2>4. i \in 1 .. n - h \/ i = n - h + 1
    BY <2>3
  <2>5. QED
    BY <2>1, <2>2, <2>4
<1>7. Waiting' = Append(Waiting, r)
  <2>1. n + 1 - h = n - h + 1
    BY <1>1, <1>2
  <2> HIDE DEF n, h
  <2>2. QED
    BY <2>1, <1>3, <1>5, <1>6, SeqEqual
<1>8. r \notin Held \cup Fifo!Waiters
  BY WaitingFacts DEF Held
<1>9. QED
  BY <1>7, <1>8 DEF Fifo!Arrive

LEMMA ArriveGrantedMaps ==
  ASSUME Inv, NEW r \in Requests, status[r] = "idle",
         queue' = Append(queue, r), Held' = Held \cup {r},
         Holders = Len(queue), Holders' = Len(queue'),
         \A i \in 1 .. Len(queue) : ~ IsExclusive(queue[i]),
         IsExclusive(r) => queue = << >>
  PROVE  Fifo!ArriveGranted(r)
<1>1. queue \in Seq(Requests) /\ Len(queue) \in Nat /\ Len(queue') \in Nat
  BY AppendProperties, LenProperties DEF Inv, TypeOK
<1>2. Waiting = << >> /\ Waiting' = << >>
  BY <1>1, SubSeqEmpty DEF Waiting
<1>3. Fifo!Waiters = {}
  BY <1>2 DEF Fifo!Waiters
<1>4. r \notin Held
  BY DEF Held
<1>5. ASSUME NEW s \in Held
      PROVE  ~ IsExclusive(r) /\ ~ IsExclusive(s)
  <2>1. Holders \in Nat /\ Holders # 0
    BY <1>5, HoldersFacts DEF Inv
  <2>2. Len(queue) # 0 /\ 1 \in 1 .. Len(queue)
    BY <2>1, <1>1
  <2>3. queue # << >> /\ ~ IsExclusive(queue[1])
    BY <2>2
  <2>4. QED
    BY <2>3, <1>5 DEF Inv, QueueInv, HoldersLead
<1>6. Fifo!Clear(r, Held \cup Fifo!Waiters)
  BY <1>3, <1>5 DEF Fifo!Clear, Fifo!Conflict, IsExclusive
<1>7. QED
  BY <1>2, <1>3, <1>4, <1>6 DEF Fifo!ArriveGranted

LEMMA HolderLeavesMaps ==
  ASSUME Inv, NEW r \in Held, queue # << >>, queue' = Tail(queue),
         Held' = Held \ {r}, Holders' = Holders - 1
  PROVE  Fifo!Release(r, 0)
<1> DEFINE n == Len(queue)
           h == Holders
<1>1. /\ n \in Nat /\ queue' \in Seq(Requests) /\ Len(queue') = n - 1
      /\ \A i \in 1 .. n - 1 : queue'[i] = queue[i + 1]
  BY HeadTailProperties, LenProperties DEF Inv, TypeOK
<1>2. h \in 1 .. n
  BY WaitingFacts, HoldersFacts DEF Inv
<1>3. /\ Waiting \in Seq(Requests) /\ Len(Waiting) = n - h
      /\ \A i \in 1 .. n - h : Waiting[i] = queue[h + i]
  BY WaitingFacts
<1>4. /\ Waiting' \in Seq(Requests) /\ Len(Waiting') = n - h
      /\ \A i \in 1 .. n - h : Waiting'[i] = queue'[h - 1 + i]
  <2>1. Waiting' = SubSeq(queue', (h - 1) + 1, Len(queue')) /\ h - 1 \in 0 .. Len(queue')
    BY <1>1, <1>2 DEF Waiting
  <2>2. Len(queue') - (h - 1) = n - h
    BY <1>1, <1>2
  <2> DEFINE q == queue'
             k == h - 1
             rest == SubSeq(q, k + 1, Len(q))
  <2>3. q \in Seq(Requests) /\ k \in 0 .. Len(q)
    BY <1>1, <2>1
  <2> HIDE DEF q, k
  <2>4. rest \in Seq(Requests) /\ Len(rest) = Len(q) - k
        /\ \A i \in 1 .. Len(q) - k : rest[i] = q[k + i]
    BY <2>3, RestOfQueue
  <2> HIDE DEF h, n
  <2>5. QED
    BY <2>1, <2>2, <2>4 DEF q, k
<1>5. ASSUME NEW i \in 1 .. n - h
      PROVE  Waiting'[i] = Waiting[i]
  <2>1. h - 1 + i \in 1 .. n - 1 /\ (h - 1 + i) + 1 = h + i
    BY <1>1, <1>2
  <2>2. QED
    BY <2>1, <1>1, <1>3, <1>4
<1>6. Waiting' = Waiting
  <2> HIDE DEF h, n
  <2>1. QED
    BY <1>3, <1>4, <1>5, SeqEqual
<1>7. Waiting' = SubSeq(Waiting, 0 + 1, Len(Waiting))
  BY <1>3, <1>6, SubSeqFull
<1>8. Fifo!Oldest(0) = {}
  BY DEF Fifo!Oldest
<1>9. QED
  BY <1>7, <1>8 DEF Fifo!Release, Fifo!Promote

LEMMA TakeOverMaps ==
  ASSUME Inv, NEW r, Held = {r}, Holders = 1, queue # << >>, queue' = Tail(queue),
         NEW R, NEW n \in Nat, n <= Len(queue) - 1,
         R = {Tail(queue)[i] : i \in 1 .. n},
         Held' = R, Holders' = n,
         \/ n = 1
         \/ \A i \in 1 .. n : ~ IsExclusive(Tail(queue)[i])
  PROVE  n \in 0 .. Len(Waiting) /\ Fifo!Release(r, n)
<1>1. Waiting = Tail(queue)
  BY TailIsSubSeq DEF Inv, TypeOK, Waiting
<1>2. Waiting' = SubSeq(Waiting, n + 1, Len(Waiting))
  BY <1>1 DEF Waiting
<1>3. Fifo!Oldest(n) = R
  BY <1>1 DEF Fifo!Oldest
<1>4. ASSUME NEW s \in R, NEW t \in R, s # t
      PROVE  ~ IsExclusive(s) /\ ~ IsExclusive(t)
  <2>1. n # 1
    BY <1>4
  <2>2. QED
    BY <2>1
<1>5. \A s \in R : Fifo!Clear(s, (Held \ {r}) \cup R)
  BY <1>4 DEF Fifo!Clear, Fifo!Conflict, IsExclusive
<1>6. n \in 0 .. Len(Waiting)
  <2>1. Len(Tail(queue)) = Len(queue) - 1 /\ Len(queue) \in Nat
    BY HeadTailProperties, LenProperties DEF Inv, TypeOK
  <2>2. QED
    BY <2>1, <1>1
<1>7. QED
  BY <1>2, <1>3, <1>5, <1>6 DEF Fifo!Release, Fifo!Promote

-----------------------------------------------------------------------------
(* The order of the queue: holders, then waiting requests.                 *)

Order == HoldersLead /\ WaitersFollow /\ NobodyWaitsInVain

\* A request that arrives and waits is one more entry behind the others.
LEMMA ArrivesAndWaits ==
  ASSUME Inv, NEW r \in Requests, status[r] = "idle",
         queue' = Append(queue, r),
         status' = [status EXCEPT ![r] = "waiting"],
         queue # << >>,
         Holders = Len(queue) => IsExclusive(queue[1]) \/ IsExclusive(r)
  PROVE  Order' /\ Fifo!Arrive(r)
<1> DEFINE n == Len(queue)
<1>1. /\ n \in Nat /\ n > 0 /\ Len(queue') = n + 1 /\ queue'[n + 1] = r
      /\ \A i \in 1 .. n : queue'[i] = queue[i] /\ queue[i] \in Requests
  BY AppendProperties, EmptySeq, ElementOfSeq, LenProperties DEF Inv, TypeOK
<1>2. Held' = Held
  BY DEF Held, Inv, TypeOK
<1>3. Holders' = Holders /\ Holders \in Nat /\ Holders <= n
  BY <1>2, HoldersFacts DEF Holders, Inv, QueueInv, HoldersLead
<1>4. HoldersLead'
  <2>1. Holders = 1 \/ \A i \in 1 .. Holders : ~ IsExclusive(queue'[i])
    BY <1>1, <1>3 DEF Inv, QueueInv, HoldersLead
  <2>2. queue'[1] = queue[1]
    BY <1>1
  <2>3. QED
    BY <2>1, <2>2, <1>1, <1>2, <1>3 DEF Inv, QueueInv, HoldersLead
<1>5. WaitersFollow'
  <2>1. \A i \in Holders + 1 .. n : status[queue[i]] = "waiting" /\ queue[i] # r
    BY DEF Inv, QueueInv, WaitersFollow
  <2>2. \A i \in Holders + 1 .. n + 1 : status'[queue'[i]] = "waiting"
    BY <2>1, <1>1, <1>3 DEF Inv, TypeOK
  <2>3. \A i, j \in Holders + 1 .. n + 1 : queue'[i] = queue'[j] => i = j
    <3>1. \A i, j \in Holders + 1 .. n : queue[i] = queue[j] => i = j
      BY DEF Inv, QueueInv, WaitersFollow
    <3>2. QED
      BY <3>1, <2>1, <1>1, <1>3
  <2>4. ASSUME NEW s \in Requests, status'[s] = "waiting"
        PROVE  \E i \in Holders + 1 .. n + 1 : queue'[i] = s
    <3>1. CASE s = r
      BY <3>1, <1>1, <1>3
    <3>2. CASE s # r
      <4>1. status[s] = "waiting"
        BY <3>2, <2>4 DEF Inv, TypeOK
      <4>2. PICK i \in Holders + 1 .. n : queue[i] = s
        BY <4>1 DEF Inv, QueueInv, WaitersFollow
      <4>3. i \in Holders + 1 .. n + 1 /\ queue'[i] = s
        BY <4>2, <1>1, <1>3
      <4>4. QED
        BY <4>3
    <3>3. QED
      BY <3>1, <3>2
  <2>5. QED
    BY <2>2, <2>3, <2>4, <1>1, <1>3 DEF WaitersFollow
<1>6. NobodyWaitsInVain'
  <2>1. CASE Holders < n
    <3>1. queue'[1] = queue[1] /\ queue'[Holders + 1] = queue[Holders + 1]
      BY <2>1, <1>1, <1>3
    <3>2. QED
      BY <3>1, <2>1, <1>1, <1>3 DEF Inv, QueueInv, NobodyWaitsInVain
  <2>2. CASE Holders = n
    <3>1. queue'[1] = queue[1] /\ queue'[Holders + 1] = r
      BY <2>2, <1>1, <1>3
    <3>2. QED
      BY <3>1, <2>2, <1>1, <1>3 DEF NobodyWaitsInVain
  <2>3. QED
    BY <2>1, <2>2, <1>3, <1>1
<1>7. Fifo!Arrive(r)
  BY <1>2, ArriveMaps
<1>8. QED
  BY <1>4, <1>5, <1>6, <1>7 DEF Order

\* A request that is granted on arrival joins holders that fill the queue.
LEMMA ArrivesAndHolds ==
  ASSUME Inv, NEW r \in Requests, status[r] = "idle",
         queue' = Append(queue, r),
         status' = [status EXCEPT ![r] = "granted"],
         Holders = Len(queue),
         \A i \in 1 .. Len(queue) : ~ IsExclusive(queue[i]),
         IsExclusive(r) => queue = << >>
  PROVE  Order' /\ Fifo!ArriveGranted(r)
<1> DEFINE n == Len(queue)
<1>1. /\ n \in Nat /\ Len(queue') = n + 1 /\ queue'[n + 1] = r
      /\ \A i \in 1 .. n : queue'[i] = queue[i]
      /\ queue = << >> => n = 0
  BY AppendProperties, EmptySeq, LenProperties DEF Inv, TypeOK
<1>2. r \notin Held /\ Held' = Held \cup {r}
  BY DEF Held, Inv, TypeOK
<1>3. Holders' = n + 1
  <2>1. IsFiniteSet(Held) /\ r \notin Held /\ Cardinality(Held) = n
    BY <1>2, HoldersFacts DEF Holders, Inv
  <2>2. Cardinality(Held \cup {r}) = Cardinality(Held) + 1
    BY <2>1, FS_AddElement
  <2>3. QED
    BY <1>2, <2>1, <2>2 DEF Holders
<1>4. HoldersLead'
  <2>1. n + 1 = 1 \/ \A i \in 1 .. n + 1 : ~ IsExclusive(queue'[i])
    BY <1>1
  <2>2. ASSUME NEW s \in Held'
        PROVE  IF IsExclusive(s) THEN n + 1 = 1 /\ queue'[1] = s
                                 ELSE ~ IsExclusive(queue'[1])
    <3>1. CASE n = 0
      <4>1. Held = {}
        BY <3>1, HoldersFacts DEF Inv
      <4>2. s = r /\ queue'[1] = r
        BY <4>1, <3>1, <1>1, <1>2
      <4>3. QED
        BY <4>2, <3>1
    <3>2. CASE n > 0
      <4>1. ~ IsExclusive(queue'[1]) /\ ~ IsExclusive(queue[1]) /\ ~ IsExclusive(r)
        BY <3>2, <1>1
      <4>2. ~ IsExclusive(s)
        BY <4>1, <1>2 DEF Inv, QueueInv, HoldersLead
      <4>3. QED
        BY <4>1, <4>2
    <3>3. QED
      BY <3>1, <3>2, <1>1
  <2>3. QED
    BY <2>1, <2>2, <1>1, <1>3 DEF HoldersLead
<1>5. WaitersFollow'
  <2>1. \A s \in Requests : status'[s] # "waiting"
    <3> SUFFICES ASSUME NEW s \in Requests, status'[s] = "waiting"
                 PROVE  FALSE
      OBVIOUS
    <3>1. status[s] = "waiting"
      BY DEF Inv, TypeOK
    <3>2. QED
      BY <3>1, <1>1 DEF Inv, QueueInv, WaitersFollow
  <2>2. QED
    BY <2>1, <1>1, <1>3 DEF WaitersFollow
<1>6. NobodyWaitsInVain'
  BY <1>1, <1>3 DEF NobodyWaitsInVain
<1>7. Fifo!ArriveGranted(r)
  BY <1>1, <1>2, <1>3, ArriveGrantedMaps
<1>8. QED
  BY <1>4, <1>5, <1>6, <1>7 DEF Order

\* The only holder leaves and the n requests of R, which lead the rest of the
\* queue, take its place.
LEMMA NextTakeOver ==
  ASSUME Inv, NEW r \in Requests, Held = {r}, queue # << >>,
         queue' = Tail(queue),
         NEW R, NEW n \in Nat,
         status' = [StatusGranting(R) EXCEPT ![r] = "idle"],
         n <= Len(queue) - 1,
         R = {Tail(queue)[i] : i \in 1 .. n},
         Cardinality(R) = n,
         \/ n = 1
         \/ \A i \in 1 .. n : ~ IsExclusive(Tail(queue)[i]),
         n < Len(queue) - 1 => n > 0 /\ (\/ IsExclusive(Tail(queue)[1])
                                         \/ IsExclusive(Tail(queue)[n + 1]))
  PROVE  Order' /\ n \in 0 .. Len(Waiting) /\ Fifo!Release(r, n)
<1> DEFINE m == Len(queue) - 1
<1>1. /\ m \in Nat /\ Len(queue') = m
      /\ \A i \in 1 .. m : queue'[i] = queue[i + 1] /\ queue'[i] \in Requests
  BY HeadTailProperties, EmptySeq, ElementOfSeq, LenProperties DEF Inv, TypeOK
<1>2. Holders = 1
  BY FS_Singleton DEF Holders
<1>3. /\ \A i \in 1 .. m : status[queue'[i]] = "waiting"
      /\ \A i, j \in 1 .. m : queue'[i] = queue'[j] => i = j
      /\ \A s \in Requests : status[s] = "waiting" => \E i \in 1 .. m : queue'[i] = s
  <2>1. \A i \in 1 .. m : i + 1 \in Holders + 1 .. Len(queue)
    BY <1>1, <1>2
  <2>2. \A i \in 1 .. m : status[queue'[i]] = "waiting"
    BY <2>1, <1>1 DEF Inv, QueueInv, WaitersFollow
  <2>3. ASSUME NEW i \in 1 .. m, NEW j \in 1 .. m, queue'[i] = queue'[j]
        PROVE  i = j
    <3>1. i + 1 = j + 1
      BY <2>1, <2>3, <1>1 DEF Inv, QueueInv, WaitersFollow
    <3>2. QED
      BY <3>1
  <2>4. ASSUME NEW s \in Requests, status[s] = "waiting"
        PROVE  \E i \in 1 .. m : queue'[i] = s
    <3>1. PICK i \in Holders + 1 .. Len(queue) : queue[i] = s
      BY <2>4 DEF Inv, QueueInv, WaitersFollow
    <3>2. i - 1 \in 1 .. m /\ queue'[i - 1] = s
      BY <3>1, <1>1, <1>2
    <3>3. QED
      BY <3>2
  <2>5. QED
    BY <2>2, <2>3, <2>4
<1>4. /\ R \subseteq Requests /\ r \notin R
      /\ R = {queue'[i] : i \in 1 .. n}
  BY <1>1, <1>3 DEF Held
<1>5. Held' = R
  BY <1>4 DEF Held, StatusGranting
<1>6. Holders' = n
  BY <1>5 DEF Holders
<1>7. HoldersLead'
  <2>1. n = 1 \/ \A i \in 1 .. n : ~ IsExclusive(queue'[i])
    OBVIOUS
  <2>2. ASSUME NEW s \in R
        PROVE  IF IsExclusive(s) THEN n = 1 /\ queue'[1] = s
                                 ELSE ~ IsExclusive(queue'[1])
    <3>1. PICK i \in 1 .. n : queue'[i] = s
      BY <1>4
    <3>2. QED
      BY <3>1, <2>1
  <2>3. QED
    BY <2>1, <2>2, <1>1, <1>5, <1>6 DEF HoldersLead
<1>8. WaitersFollow'
  <2>1. ASSUME NEW i \in n + 1 .. m
        PROVE  status'[queue'[i]] = "waiting"
    <3>1. queue'[i] \notin R
      BY <1>1, <1>3, <1>4
    <3>2. queue'[i] # r
      BY <1>1, <1>3 DEF Held
    <3>3. queue'[i] \in Requests /\ status[queue'[i]] = "waiting"
      BY <1>1, <1>3
    <3>4. QED
      BY <3>1, <3>2, <3>3 DEF StatusGranting
  <2>2. \A i, j \in n + 1 .. m : queue'[i] = queue'[j] => i = j
    BY <1>1, <1>3
  <2>3. ASSUME NEW s \in Requests, status'[s] = "waiting"
        PROVE  \E i \in n + 1 .. m : queue'[i] = s
    <3>1. s \notin R /\ status[s] = "waiting"
      BY <2>3 DEF StatusGranting
    <3>2. PICK i \in 1 .. m : queue'[i] = s
      BY <3>1, <1>3
    <3>3. i \in n + 1 .. m
      BY <3>1, <3>2, <1>1, <1>4
    <3>4. QED
      BY <3>2, <3>3
  <2> DEFINE W == n + 1 .. m
  <2>4. Holders' + 1 .. Len(queue') = W
    BY <1>1, <1>6
  <2>5. /\ \A i \in W : status'[queue'[i]] = "waiting"
        /\ \A i, j \in W : queue'[i] = queue'[j] => i = j
        /\ \A s \in Requests : status'[s] = "waiting" => \E i \in W : queue'[i] = s
    BY <2>1, <2>2, <2>3
  <2> HIDE DEF W
  <2>6. QED
    BY <2>4, <2>5 DEF WaitersFollow
<1>9. NobodyWaitsInVain'
  BY <1>1, <1>6 DEF NobodyWaitsInVain
<1>10. n \in 0 .. Len(Waiting) /\ Fifo!Release(r, n)
  BY <1>2, <1>5, <1>6, TakeOverMaps
<1>11. QED
  BY <1>7, <1>8, <1>9, <1>10 DEF Order

\* One of the shared holders leaves and nobody is granted.
LEMMA HolderLeaves ==
  ASSUME Inv, NEW r \in Held, queue # << >>, ~ IsExclusive(queue[1]),
         queue' = Tail(queue),
         status' = [status EXCEPT ![r] = "idle"],
         ~ StartsExclusive(Tail(queue))
  PROVE  Order' /\ Fifo!Release(r, 0)
<1> DEFINE n == Len(queue)
<1>1. /\ n \in Nat /\ n > 0 /\ Len(queue') = n - 1
      /\ \A i \in 1 .. n - 1 : queue'[i] = queue[i + 1] /\ queue'[i] \in Requests
  BY HeadTailProperties, EmptySeq, ElementOfSeq, LenProperties DEF Inv, TypeOK
<1>2. Held' = Held \ {r}
  BY DEF Held, Inv, TypeOK
<1>3. Holders \in Nat /\ Holders > 0 /\ Holders <= n /\ Holders' = Holders - 1
  <2>1. Holders \in Nat /\ Holders > 0 /\ Holders <= n /\ IsFiniteSet(Held)
    BY HoldersFacts DEF Inv, QueueInv, HoldersLead
  <2>2. Cardinality(Held \ {r}) = Cardinality(Held) - 1
    BY <2>1, FS_RemoveElement
  <2>3. Holders' = Holders - 1
    BY <2>2, <1>2 DEF Holders
  <2>4. QED
    BY <2>1, <2>3
<1>4. HoldersLead'
  <2>1. Holders # 1 => \A i \in 1 .. Holders - 1 : ~ IsExclusive(queue'[i])
    BY <1>1, <1>3 DEF Inv, QueueInv, HoldersLead
  <2>2. ASSUME NEW s \in Held \ {r}
        PROVE  ~ IsExclusive(s) /\ ~ IsExclusive(queue'[1])
    <3>1. Holders # 1
      BY <2>2, HoldersFacts DEF Inv
    <3>2. ~ IsExclusive(s)
      BY <3>1, <2>2 DEF Inv, QueueInv, HoldersLead
    <3>3. 1 \in 1 .. Holders - 1
      BY <3>1, <1>3
    <3>4. QED
      BY <3>1, <3>2, <3>3, <2>1
  <2>3. Holders' = 1 \/ \A i \in 1 .. Holders' : ~ IsExclusive(queue'[i])
    <3>1. CASE Holders = 1
      BY <3>1, <1>3
    <3>2. CASE Holders # 1
      BY <3>2, <2>1, <1>3
    <3>3. QED
      BY <3>1, <3>2
  <2>4. Holders' <= Len(queue')
    BY <1>1, <1>3
  <2>5. \A s \in Held' : ~ IsExclusive(s) /\ ~ IsExclusive(queue'[1])
    BY <2>2, <1>2
  <2>6. QED
    BY <2>3, <2>4, <2>5 DEF HoldersLead
<1>5. WaitersFollow'
  <2>1. \A i \in Holders .. n - 1 : i + 1 \in Holders + 1 .. n /\ i \in 1 .. n - 1
    BY <1>1, <1>3
  <2>2. ASSUME NEW i \in Holders .. n - 1
        PROVE  status'[queue'[i]] = "waiting"
    <3>1. status[queue'[i]] = "waiting" /\ queue'[i] \in Requests
      BY <2>1, <1>1 DEF Inv, QueueInv, WaitersFollow
    <3>2. queue'[i] # r
      BY <3>1 DEF Held
    <3>3. QED
      BY <3>1, <3>2 DEF Inv, TypeOK
  <2>3. ASSUME NEW i \in Holders .. n - 1, NEW j \in Holders .. n - 1, queue'[i] = queue'[j]
        PROVE  i = j
    <3>1. i + 1 = j + 1
      BY <2>1, <2>3, <1>1 DEF Inv, QueueInv, WaitersFollow
    <3>2. QED
      BY <3>1
  <2>4. ASSUME NEW s \in Requests, status'[s] = "waiting"
        PROVE  \E i \in Holders .. n - 1 : queue'[i] = s
    <3>1. status[s] = "waiting"
      BY <2>4 DEF Inv, TypeOK
    <3>2. PICK i \in Holders + 1 .. n : queue[i] = s
      BY <3>1 DEF Inv, QueueInv, WaitersFollow
    <3>3. i - 1 \in Holders .. n - 1 /\ queue'[i - 1] = s
      BY <3>2, <1>1, <1>3
    <3>4. QED
      BY <3>3
  <2>5. (Holders - 1) + 1 = Holders
    BY <1>3
  <2>6. QED
    BY <2>2, <2>3, <2>4, <2>5, <1>1, <1>3 DEF WaitersFollow
<1>6. NobodyWaitsInVain'
  <2> SUFFICES ASSUME Holders - 1 < n - 1
               PROVE  Holders - 1 > 0 /\ IsExclusive(queue'[Holders])
    BY <1>1, <1>3 DEF NobodyWaitsInVain
  <2>1. IsExclusive(queue[Holders + 1]) /\ queue'[Holders] = queue[Holders + 1]
    BY <1>1, <1>3 DEF Inv, QueueInv, NobodyWaitsInVain
  <2>2. ~ IsExclusive(queue'[1])
    <3>1. queue' # << >>
      BY <1>1, <1>3
    <3>2. QED
      BY <3>1 DEF StartsExclusive
  <2>3. QED
    BY <2>1, <2>2, <1>3
<1>7. Fifo!Release(r, 0)
  BY <1>2, <1>3, HolderLeavesMaps
<1>8. QED
  BY <1>4, <1>5, <1>6, <1>7 DEF Order
-----------------------------------------------------------------------------
(* The invariant, action by action.                                        *)

\* With an empty count of exclusive entries everybody in the queue holds.
LEMMA NoExclusiveAllHold ==
  ASSUME Inv, num_ex = 0
  PROVE  /\ \A i \in 1 .. Len(queue) : ~ IsExclusive(queue[i])
         /\ Holders = Len(queue)
<1>1. \A i \in 1 .. Len(queue) : ~ IsExclusive(queue[i])
  BY CountersDecide DEF Inv, QueueInv, TypeOK, CountersExact
<1>2. Len(queue) \in Nat /\ Holders \in Nat /\ Holders <= Len(queue)
  BY HoldersFacts, LenProperties DEF Inv, QueueInv, TypeOK, HoldersLead
<1>3. ~ Holders < Len(queue)
  <2> SUFFICES ASSUME Holders < Len(queue)
               PROVE  FALSE
    OBVIOUS
  <2>1. 1 \in 1 .. Len(queue) /\ Holders + 1 \in 1 .. Len(queue)
    BY <1>2
  <2>2. QED
    BY <2>1, <1>1 DEF Inv, QueueInv, NobodyWaitsInVain
<1>4. QED
  BY <1>1, <1>2, <1>3

LEMMA AcquireSharedOrder ==
  ASSUME Inv, NEW r \in Requests, AcquireShared(r)
  PROVE  Order' /\ (Fifo!Arrive(r) \/ Fifo!ArriveGranted(r))
<1>1. CASE num_ex = 0
  <2>1. status' = [status EXCEPT ![r] = "granted"]
    BY <1>1 DEF AcquireShared
  <2>2. QED
    BY <2>1, <1>1, NoExclusiveAllHold, ArrivesAndHolds DEF AcquireShared
<1>2. CASE num_ex # 0
  <2>1. status' = [status EXCEPT ![r] = "waiting"]
    BY <1>2 DEF AcquireShared
  <2>2. Len(queue) \in Nat /\ queue \in Seq(Requests)
    BY LenProperties DEF Inv, TypeOK
  <2>3. PICK i \in 1 .. Len(queue) : IsExclusive(queue[i])
    BY <1>2, <2>2, CountersDecide DEF Inv, QueueInv, CountersExact
  <2>4. queue # << >>
    BY <2>2, <2>3
  <2>5. ASSUME Holders = Len(queue)
        PROVE  IsExclusive(queue[1])
    <3>1. Holders = 1
      <4>1. i \in 1 .. Holders
        BY <2>3, <2>5
      <4>2. QED
        BY <4>1, <2>3 DEF Inv, QueueInv, HoldersLead
    <3>2. i = 1
      <4>1. Len(queue) = 1
        BY <3>1, <2>5
      <4>2. QED
        BY <4>1, <2>3
    <3>3. QED
      BY <3>2, <2>3
  <2>6. QED
    BY <2>1, <2>4, <2>5, ArrivesAndWaits DEF AcquireShared
<1>3. QED
  BY <1>1, <1>2

LEMMA AcquireExclusiveOrder ==
  ASSUME Inv, NEW r \in Requests, AcquireExclusive(r)
  PROVE  Order' /\ (Fifo!Arrive(r) \/ Fifo!ArriveGranted(r))
<1>1. queue \in Seq(Requests)
  BY DEF Inv, TypeOK
<1>2. num_ex = 0 /\ num_sh = 0 <=> queue = << >>
  <2>1. num_ex = 0 /\ num_sh = 0 <=> Len(queue) = 0
    BY <1>1, CountersDecide DEF Inv, QueueInv, CountersExact
  <2>2. QED
    BY <2>1, <1>1, EmptySeq
<1>3. CASE num_ex = 0 /\ num_sh = 0
  <2>1. status' = [status EXCEPT ![r] = "granted"]
    BY <1>3 DEF AcquireExclusive
  <2>2. QED
    BY <2>1, <1>2, <1>3, NoExclusiveAllHold, ArrivesAndHolds DEF AcquireExclusive
<1>4. CASE ~ (num_ex = 0 /\ num_sh = 0)
  <2>1. status' = [status EXCEPT ![r] = "waiting"]
    BY <1>4 DEF AcquireExclusive
  <2>2. QED
    BY <2>1, <1>2, <1>4, ArrivesAndWaits DEF AcquireExclusive
<1>5. QED
  BY <1>3, <1>4

\* An exclusive request at the head of the rest of the queue takes over.
LEMMA ExclusiveTakesOver ==
  ASSUME Inv, NEW r \in Requests, Held = {r}, queue # << >>,
         queue' = Tail(queue), StartsExclusive(Tail(queue)),
         status' = [StatusGranting({Head(Tail(queue))}) EXCEPT ![r] = "idle"]
  PROVE  Order' /\ 1 \in 0 .. Len(Waiting) /\ Fifo!Release(r, 1)
<1> DEFINE q == Tail(queue)
           R == {Head(q)}
<1>1. q \in Seq(Requests) /\ Len(q) = Len(queue) - 1 /\ Len(queue) \in Nat
  BY HeadTailProperties, LenProperties DEF Inv, TypeOK
<1>2. q # << >> /\ Head(q) = q[1] /\ IsExclusive(q[1])
  BY <1>1 DEF StartsExclusive
<1>3. 1 <= Len(queue) - 1
  BY <1>1, <1>2, EmptySeq
<1> HIDE DEF q
<1>4. Cardinality(R) = 1
  BY FS_Singleton
<1>5. R = {q[i] : i \in 1 .. 1}
  <2>1. 1 .. 1 = {1}
    OBVIOUS
  <2>2. {q[i] : i \in {1}} = {q[1]}
    OBVIOUS
  <2>3. QED
    BY <2>1, <2>2, <1>2
<1> HIDE DEF R
<1>6. status' = [StatusGranting(R) EXCEPT ![r] = "idle"]
  BY DEF q, R
<1>7. 1 \in Nat /\ (1 < Len(queue) - 1 => 1 > 0 /\ IsExclusive(q[1]))
  BY <1>2
<1>8. QED
  BY <1>3, <1>4, <1>5, <1>6, <1>7, NextTakeOver DEF q

LEMMA ReleaseSharedOrder ==
  ASSUME Inv, NEW r \in Requests, ReleaseShared(r)
  PROVE  Order' /\ \E n \in 0 .. Len(Waiting) : Fifo!Release(r, n)
<1>1. r \in Held /\ queue # << >> /\ queue \in Seq(Requests)
  BY DEF Held, ReleaseShared, Inv, TypeOK
<1>2. Head(queue) = queue[1] /\ ~ IsExclusive(queue[1])
  BY <1>1 DEF ReleaseShared
<1>3. CASE StartsExclusive(Tail(queue))
  <2>1. Tail(queue)[1] = queue[2] /\ IsExclusive(queue[2])
    BY <1>1, <1>3, HeadTailProperties, EmptySeq, LenProperties DEF StartsExclusive
  <2>2. Holders \in Nat /\ Holders # 0
    BY <1>1, HoldersFacts DEF Inv
  <2>3. Holders = 1
    BY <2>1, <2>2 DEF Inv, QueueInv, HoldersLead
  <2>4. Held = {r}
    BY <2>3, <1>1, HoldersFacts DEF Inv
  <2>5. status' = [StatusGranting({Head(Tail(queue))}) EXCEPT ![r] = "idle"]
    BY <1>3 DEF ReleaseShared
  <2>6. QED
    BY <2>4, <2>5, <1>1, <1>3, ExclusiveTakesOver DEF ReleaseShared
<1>4. CASE ~ StartsExclusive(Tail(queue))
  <2>1. StatusGranting({}) = status
    BY DEF StatusGranting, Inv, TypeOK
  <2>2. status' = [status EXCEPT ![r] = "idle"]
    BY <2>1, <1>4 DEF ReleaseShared
  <2>3. Order' /\ Fifo!Release(r, 0)
    BY <2>2, <1>1, <1>2, <1>4, HolderLeaves DEF ReleaseShared
  <2>4. 0 \in 0 .. Len(Waiting)
    BY WaitingFacts
  <2>5. QED
    BY <2>3, <2>4
<1>5. QED
  BY <1>3, <1>4

LEMMA ReleaseExclusiveOrder ==
  ASSUME Inv, NEW r \in Requests, ReleaseExclusive(r)
  PROVE  Order' /\ \E n \in 0 .. Len(Waiting) : Fifo!Release(r, n)
<1> DEFINE q == Tail(queue)
<1>1. r \in Held /\ queue # << >> /\ queue \in Seq(Requests)
  BY DEF Held, ReleaseExclusive, Inv, TypeOK
<1>2. Head(queue) = queue[1] /\ IsExclusive(queue[1])
  BY <1>1 DEF ReleaseExclusive
<1>3. Holders = 1 /\ Held = {r}
  <2>1. Holders = 1
    BY <1>1, <1>2 DEF Inv, QueueInv, HoldersLead
  <2>2. QED
    BY <2>1, <1>1, HoldersFacts DEF Inv
<1>4. CASE StartsExclusive(q)
  <2>1. status' = [StatusGranting({Head(q)}) EXCEPT ![r] = "idle"]
    BY <1>4 DEF ReleaseExclusive
  <2>2. QED
    BY <2>1, <1>1, <1>3, <1>4, ExclusiveTakesOver DEF ReleaseExclusive
<1>5. CASE ~ StartsExclusive(q)
  <2>1. /\ q \in Seq(Requests) /\ Len(q) = Len(queue) - 1 /\ Len(q) \in Nat
        /\ \A i \in 1 .. Len(q) : q[i] = queue[i + 1]
    BY <1>1, HeadTailProperties, LenProperties
  <2>2. ASSUME NEW i \in 1 .. Len(q), NEW j \in 1 .. Len(q), q[i] = q[j]
        PROVE  i = j
    <3>1. i + 1 \in Holders + 1 .. Len(queue) /\ j + 1 \in Holders + 1 .. Len(queue)
      BY <2>1, <1>3
    <3>2. i + 1 = j + 1
      BY <3>1, <2>1, <2>2 DEF Inv, QueueInv, WaitersFollow
    <3>3. QED
      BY <3>2
  <2> HIDE DEF q
  <2>3. PICK n \in 0 .. Len(q) :
           /\ LeadingShared(q) = {q[i] : i \in 1 .. n}
           /\ Cardinality(LeadingShared(q)) = n
           /\ \A i \in 1 .. n : ~ IsExclusive(q[i])
           /\ n < Len(q) => IsExclusive(q[n + 1])
    BY <2>1, <2>2, LeadingIsPrefix
  <2>4. n < Len(q) => n > 0
    <3> SUFFICES ASSUME n < Len(q), n = 0
                 PROVE  FALSE
      BY <2>1
    <3>1. q # << >> /\ IsExclusive(q[1])
      BY <2>1, <2>3
    <3>2. QED
      BY <3>1, <1>5 DEF StartsExclusive
  <2>5. status' = [StatusGranting(LeadingShared(q)) EXCEPT ![r] = "idle"]
    BY <1>5 DEF ReleaseExclusive, q
  <2>6. n \in Nat /\ n <= Len(queue) - 1
    BY <2>1
  <2>7. queue' = q
    BY DEF ReleaseExclusive, q
  <2>8. QED
    BY <2>1, <2>3, <2>4, <2>5, <2>6, <2>7, <1>1, <1>3, NextTakeOver DEF q
<1>6. QED
  BY <1>4, <1>5

LEMMA NextInv == Inv /\ [Next]_vars => Inv'
<1> SUFFICES ASSUME Inv, [Next]_vars
             PROVE  Inv'
  OBVIOUS
<1>1. ASSUME NEW r \in Requests, AcquireShared(r)
      PROVE  Inv'
  BY <1>1, AcquireTypeAndCounters, AcquireSharedOrder DEF Acquire, Inv, QueueInv, Order
<1>2. ASSUME NEW r \in Requests, AcquireExclusive(r)
      PROVE  Inv'
  BY <1>2, AcquireTypeAndCounters, AcquireExclusiveOrder DEF Acquire, Inv, QueueInv, Order
<1>3. ASSUME NEW r \in Requests, ReleaseShared(r)
      PROVE  Inv'
  BY <1>3, ReleaseTypeAndCounters, ReleaseSharedOrder DEF Release, Inv, QueueInv, Order
<1>4. ASSUME NEW r \in Requests, ReleaseExclusive(r)
      PROVE  Inv'
  BY <1>4, ReleaseTypeAndCounters, ReleaseExclusiveOrder DEF Release, Inv, QueueInv, Order
<1>5. CASE UNCHANGED vars
  BY <1>5 DEF vars, Inv, TypeOK, QueueInv, CountersExact, HoldersLead, WaitersFollow,
              NobodyWaitsInVain, Holders, Held
<1>6. QED
  BY <1>1, <1>2, <1>3, <1>4, <1>5 DEF Next, Acquire, Release
\* Every step of the server is one of FifoLock, or leaves what it shows alone.
LEMMA NextMaps == Inv /\ [Next]_vars => [Fifo!Next]_(Fifo!fifoVars)
<1> SUFFICES ASSUME Inv, [Next]_vars
             PROVE  [Fifo!Next]_(Fifo!fifoVars)
  OBVIOUS
<1>1. ASSUME NEW r \in Requests, Acquire(r)
      PROVE  Fifo!Next
  BY <1>1, AcquireSharedOrder, AcquireExclusiveOrder DEF Acquire, Fifo!Next
<1>2. ASSUME NEW r \in Requests, Release(r)
      PROVE  Fifo!Next
  <2>1. r \in Held
    BY <1>2 DEF Release, ReleaseShared, ReleaseExclusive, Held
  <2>2. \E n \in 0 .. Len(Waiting) : Fifo!Release(r, n)
    BY <1>2, ReleaseSharedOrder, ReleaseExclusiveOrder DEF Release
  <2>3. QED
    BY <2>1, <2>2 DEF Fifo!Next
<1>3. CASE UNCHANGED vars
  BY <1>3 DEF vars, Fifo!fifoVars, Held, Holders, Waiting
<1>4. QED
  BY <1>1, <1>2, <1>3 DEF Next

-----------------------------------------------------------------------------
(* The theorems.                                                           *)

\* The inductive invariant, of which the theorems below are parts.
THEOREM SpecInv == Spec => []Inv
<1>1. QED
  BY InitInv, NextInv, PTL DEF Spec

\* The queue, counters and replies of server.c keep their types: in particular
\* the unsigned num_ex and num_sh are never decremented at zero.
THEOREM TypeCorrect == Spec => []TypeOK
<1>1. Inv => TypeOK
  BY DEF Inv
<1>2. QED
  BY <1>1, SpecInv, PTL

\* num_ex and num_sh count the queue, the holders lead it, the waiting
\* requests follow in order, and none of them waits in vain.
THEOREM QueueCorrect == Spec => []QueueInv
<1>1. Inv => QueueInv
  BY DEF Inv
<1>2. QED
  BY <1>1, SpecInv, PTL

\* The server never lets a writer hold a lock together with anybody else.
THEOREM Exclusion == Spec => []MutualExclusion
<1>1. Inv => MutualExclusion
  <2> SUFFICES ASSUME Inv, NEW r \in Held, NEW s \in Held, r # s
               PROVE  ~ IsExclusive(r) /\ ~ IsExclusive(s)
    BY DEF MutualExclusion
  <2>1. Holders # 1
    BY HoldersFacts DEF Inv
  <2>2. QED
    BY <2>1 DEF Inv, QueueInv, HoldersLead
<1>2. QED
  BY <1>1, SpecInv, PTL

\* dequeue() is never called on an empty queue by the release of a holder.
THEOREM DequeueSafe == Spec => []ReleaseFindsEntry
<1>1. Inv => ReleaseFindsEntry
  <2> SUFFICES ASSUME Inv, Held # {}, queue = << >>
               PROVE  FALSE
    BY DEF ReleaseFindsEntry
  <2>1. Holders \in Nat /\ Holders # 0
    BY HoldersFacts DEF Inv
  <2>2. Holders <= 0
    BY DEF Inv, QueueInv, HoldersLead
  <2>3. QED
    BY <2>1, <2>2
<1>2. QED
  BY <1>1, SpecInv, PTL

\* The lock server implements the abstract lock: it grants exclusively, in
\* order of arrival except among requests that can share the lock, however
\* many requests there are.
THEOREM ServerImplementsFifoLock == Spec => ImplementsFifoLock
<1>1. Init => Fifo!Init
  <2> SUFFICES ASSUME Init
               PROVE  Fifo!Init
    OBVIOUS
  <2>1. Held = {} /\ queue = << >>
    BY DEF Init, Held
  <2>2. Holders = 0
    BY <2>1, FS_EmptySet DEF Holders
  <2>3. Waiting = << >>
    BY <2>1, <2>2, SubSeqEmpty DEF Waiting
  <2>4. QED
    BY <2>1, <2>3 DEF Fifo!Init
<1>2. QED
  BY <1>1, SpecInv, NextMaps, PTL DEF Spec, ImplementsFifoLock, Fifo!Spec
-----------------------------------------------------------------------------
(* What an implementation of FifoLock is worth: it excludes.               *)

\* Requests that are promoted conflict neither with the holders they join nor
\* with each other.
LEMMA PromoteExcludes ==
  ASSUME NEW n, NEW H,
         \A r, s \in H : r # s => ~ Fifo!Conflict(r, s),
         Fifo!Promote(n, H)
  PROVE  Fifo!Excludes'
<1>1. ASSUME NEW r \in H \cup Fifo!Oldest(n), NEW s \in H \cup Fifo!Oldest(n), r # s
      PROVE  ~ Fifo!Conflict(r, s)
  <2>1. CASE r \in Fifo!Oldest(n)
    BY <1>1, <2>1 DEF Fifo!Promote, Fifo!Clear
  <2>2. CASE s \in Fifo!Oldest(n)
    BY <1>1, <2>2 DEF Fifo!Promote, Fifo!Clear, Fifo!Conflict
  <2> QED  BY <1>1, <2>1, <2>2
<1> QED  BY <1>1 DEF Fifo!Promote, Fifo!Excludes, Fifo!Conflict

\* FifoLock never lets a writer hold the lock together with anybody else,
\* whatever requests there are and however their grants are bunched; so
\* neither does what implements it.
THEOREM FifoExcludes == ImplementsFifoLock => []Fifo!Excludes
<1>1. Fifo!Init => Fifo!Excludes
  BY DEF Fifo!Init, Fifo!Excludes
<1>2. Fifo!Excludes /\ [Fifo!Next]_(Fifo!fifoVars) => Fifo!Excludes'
  <2> SUFFICES ASSUME Fifo!Excludes, [Fifo!Next]_(Fifo!fifoVars)  PROVE Fifo!Excludes'
    OBVIOUS
  <2>1. ASSUME NEW r \in Requests, Fifo!Arrive(r)  PROVE Fifo!Excludes'
    BY <2>1 DEF Fifo!Arrive, Fifo!Excludes, Fifo!Conflict
  <2>2. ASSUME NEW r \in Requests, Fifo!ArriveGranted(r)  PROVE Fifo!Excludes'
    BY <2>2 DEF Fifo!ArriveGranted, Fifo!Clear, Fifo!Excludes, Fifo!Conflict
  <2>3. ASSUME NEW n \in 0 .. Len(Waiting), Fifo!Grant(n)  PROVE Fifo!Excludes'
    BY <2>3, PromoteExcludes DEF Fifo!Grant, Fifo!Excludes
  <2>4. ASSUME NEW n \in 0 .. Len(Waiting), NEW r \in Held, Fifo!Release(r, n)
        PROVE  Fifo!Excludes'
    <3>1. \A q, s \in Held \ {r} : q # s => ~ Fifo!Conflict(q, s)
      BY DEF Fifo!Excludes
    <3> QED  BY <2>4, <3>1, PromoteExcludes DEF Fifo!Release
  <2>5. CASE UNCHANGED Fifo!fifoVars
    BY <2>5 DEF Fifo!fifoVars, Fifo!Excludes, Fifo!Conflict
  <2> QED  BY <2>1, <2>2, <2>3, <2>4, <2>5 DEF Fifo!Next
<1> QED  BY <1>1, <1>2, PTL DEF ImplementsFifoLock, Fifo!Spec
=============================================================================
