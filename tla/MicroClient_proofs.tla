------------------------- MODULE MicroClient_proofs -------------------------
(***************************************************************************)
(* The micro-benchmark client is busy with a lock exactly as long as it    *)
(* has a request of it under way, and holds no lock for nothing, for any   *)
(* number of clients and locks, any traces and any batches.                *)
(***************************************************************************)
EXTENDS MicroClient, Counting

-----------------------------------------------------------------------------
(* How often something occurs in a queue.                                  *)

\* Occurrences are the positions Counting counts.
LEMMA OccurrencesArePositions ==
  ASSUME NEW q, NEW x
  PROVE  Occurrences(q, x) = Cardinality(Positions(q, {x}))
<1>1. {i \in DOMAIN q : q[i] = x} = Positions(q, {x})
  BY DEF Positions
<1> QED  BY <1>1 DEF Occurrences

\* They are finitely many, and none if there is no such entry.
LEMMA OccurrencesFacts ==
  ASSUME NEW T, NEW q \in Seq(T), NEW x
  PROVE  /\ Occurrences(q, x) \in Nat
         /\ Occurrences(q, x) = 0 <=> \A i \in DOMAIN q : q[i] # x
<1>1. IsFiniteSet(Positions(q, {x})) /\ Cardinality(Positions(q, {x})) \in Nat
  BY PositionsFinite
<1>2. Cardinality(Positions(q, {x})) = 0 <=> Positions(q, {x}) = {}
  BY <1>1, FS_EmptySet
<1>3. Positions(q, {x}) = {} <=> \A i \in DOMAIN q : q[i] # x
  BY DEF Positions
<1> QED  BY <1>1, <1>2, <1>3, OccurrencesArePositions

\* Nothing occurs in the empty queue, ...
LEMMA OccurrencesEmpty ==
  ASSUME NEW x
  PROVE  Occurrences(<< >>, x) = 0
<1>1. << >> \in Seq({}) /\ DOMAIN << >> = {}
  BY EmptySeq
<1> QED  BY <1>1, OccurrencesFacts

\* ... an entry more adds one, ...
LEMMA OccurrencesAppend ==
  ASSUME NEW T, NEW q \in Seq(T), NEW e \in T, NEW x
  PROVE  Occurrences(Append(q, e), x) = Occurrences(q, x) + (IF e = x THEN 1 ELSE 0)
<1>1. Cardinality(Positions(Append(q, e), {x})) =
         Cardinality(Positions(q, {x})) + (IF e \in {x} THEN 1 ELSE 0)
  BY AppendPositions
<1>2. e \in {x} <=> e = x
  OBVIOUS
<1> QED  BY <1>1, <1>2, OccurrencesArePositions

\* ... an entry less takes one, ...
LEMMA OccurrencesTail ==
  ASSUME NEW T, NEW q \in Seq(T), q # << >>, NEW x
  PROVE  /\ Head(q) \in T /\ Tail(q) \in Seq(T)
         /\ Occurrences(Tail(q), x) = Occurrences(q, x) - (IF Head(q) = x THEN 1 ELSE 0)
         /\ Occurrences(q, Head(q)) > 0
<1>1. Head(q) \in T /\ Tail(q) \in Seq(T) /\ Head(q) = q[1] /\ 1 \in DOMAIN q
  BY HeadTailProperties, LenProperties, EmptySeq
<1>2. Occurrences(Tail(q), x) = Occurrences(q, x) - (IF Head(q) = x THEN 1 ELSE 0)
  <2>1. Cardinality(Positions(Tail(q), {x})) =
           Cardinality(Positions(q, {x})) - (IF q[1] \in {x} THEN 1 ELSE 0)
    BY TailPositions
  <2>2. q[1] \in {x} <=> Head(q) = x
    BY <1>1
  <2> QED  BY <2>1, <2>2, OccurrencesArePositions
<1>3. Occurrences(q, Head(q)) \in Nat /\ Occurrences(q, Head(q)) # 0
  BY <1>1, OccurrencesFacts
<1>4. Occurrences(q, Head(q)) > 0
  <2> HIDE DEF Occurrences
  <2> QED  BY <1>3
<1> QED  BY <1>1, <1>2, <1>4

\* ... and of two queues in a row they add up.
LEMMA OccurrencesConcat ==
  ASSUME NEW T, NEW q \in Seq(T), NEW r \in Seq(T), NEW x
  PROVE  /\ q \o r \in Seq(T)
         /\ Occurrences(q \o r, x) = Occurrences(q, x) + Occurrences(r, x)
<1>1. q \o r \in Seq(T)
  BY ConcatProperties
<1>2. Cardinality(Positions(q \o r, {x})) =
         Cardinality(Positions(q, {x})) + Cardinality(Positions(r, {x}))
  BY ConcatPositions
<1> QED  BY <1>1, <1>2, OccurrencesArePositions

-----------------------------------------------------------------------------
(* The invariant.                                                          *)

TypeInv ==
  /\ idx \in [Clients -> Nat]
  /\ \A c \in Clients : idx[c] \in 1 .. Len(Trace[c]) + 1
  /\ tx_mbufs \in [Clients -> Seq(Locks)]
  /\ busy \in [Clients -> SUBSET Locks]
  /\ thinkqueue \in [Clients -> Seq(Locks)]
  /\ rx_mbufs \in [Clients -> Seq(Locks)]
  /\ acquires \in [Clients -> [Locks -> Nat]]
  /\ releases \in [Clients -> [Locks -> Nat]]
  /\ grants \in [Clients -> SUBSET Locks]
  /\ holder \in [Locks -> SUBSET Clients]
  /\ waiting \in [Locks -> Seq(Clients)]

\* The grant of l on its way to c.
Granted(c, l) == IF l \in grants[c] THEN 1 ELSE 0

\* The requests of c for l that ask for the lock, and those that answer for
\* having been granted it.
Asking(c, l) == Occurrences(tx_mbufs[c], l) + acquires[c][l] + Occurrences(waiting[l], c)
Holding(c, l) == Granted(c, l) + Occurrences(thinkqueue[c], l)
Leaving(c, l) == Occurrences(rx_mbufs[c], l) + releases[c][l]

BusyInv == \A c \in Clients, l \in Locks :
              Asking(c, l) + Holding(c, l) = IF l \in busy[c] THEN 1 ELSE 0

\* A lock is held once for each grant that is not yet answered by a RELEASE
\* that arrived, and there is at most one.
HoldInv == \A c \in Clients, l \in Locks :
              Holding(c, l) + Leaving(c, l) = IF c \in holder[l] THEN 1 ELSE 0

Inv == TypeInv /\ BusyInv /\ HoldInv

\* Everything that is counted is a number.
LEMMA CountTypes ==
  ASSUME TypeInv, NEW c \in Clients, NEW l \in Locks
  PROVE  /\ Occurrences(tx_mbufs[c], l) \in Nat /\ acquires[c][l] \in Nat
         /\ Occurrences(waiting[l], c) \in Nat
         /\ Granted(c, l) \in {0, 1} /\ Occurrences(thinkqueue[c], l) \in Nat
         /\ Occurrences(rx_mbufs[c], l) \in Nat /\ releases[c][l] \in Nat
<1>1. /\ tx_mbufs[c] \in Seq(Locks) /\ waiting[l] \in Seq(Clients)
      /\ thinkqueue[c] \in Seq(Locks) /\ rx_mbufs[c] \in Seq(Locks)
      /\ acquires[c][l] \in Nat /\ releases[c][l] \in Nat
  BY DEF TypeInv
<1> QED  BY <1>1, OccurrencesFacts DEF Granted

\* The count of grants BusyExact uses.
LEMMA GrantedIsCount ==
  ASSUME NEW c, NEW l
  PROVE  Cardinality(grants[c] \cap {l}) = Granted(c, l)
<1>1. CASE l \in grants[c]
  <2>1. grants[c] \cap {l} = {l}
    BY <1>1
  <2> QED  BY <1>1, <2>1, FS_Singleton DEF Granted
<1>2. CASE l \notin grants[c]
  <2>1. grants[c] \cap {l} = {}
    BY <1>2
  <2> QED  BY <1>2, <2>1, FS_EmptySet DEF Granted
<1> QED  BY <1>1, <1>2

\* The invariant implies the two properties.
LEMMA InvBusyExact == TypeInv /\ BusyInv => BusyExact
<1> SUFFICES ASSUME TypeInv, BusyInv, NEW c \in Clients, NEW l \in Locks
             PROVE  Occurrences(tx_mbufs[c], l) + acquires[c][l]
                       + Occurrences(waiting[l], c) + Cardinality(grants[c] \cap {l})
                       + Occurrences(thinkqueue[c], l) = IF l \in busy[c] THEN 1 ELSE 0
  BY DEF BusyExact
<1>1. Asking(c, l) + Holding(c, l) = IF l \in busy[c] THEN 1 ELSE 0
  BY DEF BusyInv
<1> QED  BY <1>1, CountTypes, GrantedIsCount DEF Asking, Holding

\* Of the counts that add up to one, HeldForAReason names each.
LEMMA InvHeldForAReason == TypeInv /\ HoldInv => HeldForAReason
<1> SUFFICES ASSUME TypeInv, HoldInv, NEW l \in Locks, NEW c \in holder[l]
             PROVE  \/ l \in grants[c] \/ Occurrences(thinkqueue[c], l) > 0
                    \/ Occurrences(rx_mbufs[c], l) + releases[c][l] = 1
  BY DEF HeldForAReason
<1>1. c \in Clients
  BY DEF TypeInv
<1>2. Holding(c, l) + Leaving(c, l) = 1
  BY <1>1 DEF HoldInv
<1> QED  BY <1>1, <1>2, CountTypes DEF Holding, Leaving, Granted

-----------------------------------------------------------------------------
(* The steps.                                                              *)

\* What a step leaves alone it counts as before.
LEMMA CountsUnchanged ==
  ASSUME TypeInv, NEW c \in Clients, NEW l \in Locks
  PROVE  /\ tx_mbufs'[c] = tx_mbufs[c] /\ acquires'[c][l] = acquires[c][l]
            /\ waiting'[l] = waiting[l] => Asking(c, l)' = Asking(c, l)
         /\ grants'[c] = grants[c] /\ thinkqueue'[c] = thinkqueue[c]
            => Holding(c, l)' = Holding(c, l)
         /\ rx_mbufs'[c] = rx_mbufs[c] /\ releases'[c][l] = releases[c][l]
            => Leaving(c, l)' = Leaving(c, l)
BY DEF Asking, Holding, Leaving, Granted, Occurrences

\* At first nothing is counted.
LEMMA InitInv == Init => Inv
<1> SUFFICES ASSUME Init
             PROVE  Inv
  OBVIOUS
<1>1. TypeInv
  <2>1. << >> \in Seq(Locks) /\ << >> \in Seq(Clients)
    BY EmptySeq
  <2>2. \A c \in Clients : Len(Trace[c]) \in Nat
    BY TraceAssumption, LenProperties
  <2> QED  BY <2>1, <2>2 DEF Init, TypeInv
<1>2. ASSUME NEW c \in Clients, NEW l \in Locks
      PROVE  /\ Asking(c, l) = 0 /\ Holding(c, l) = 0 /\ Leaving(c, l) = 0
             /\ l \notin busy[c] /\ c \notin holder[l]
  <2>1. /\ tx_mbufs[c] = << >> /\ waiting[l] = << >> /\ thinkqueue[c] = << >>
        /\ rx_mbufs[c] = << >> /\ acquires[c][l] = 0 /\ releases[c][l] = 0
        /\ grants[c] = {} /\ busy[c] = {} /\ holder[l] = {}
    BY DEF Init
  <2> QED  BY <2>1, OccurrencesEmpty DEF Asking, Holding, Leaving, Granted
<1> QED  BY <1>1, <1>2 DEF Inv, BusyInv, HoldInv

\* The trace entry a client looks at is one of its trace.
LEMMA EntryOfTrace ==
  ASSUME TypeInv, NEW c \in Clients
  PROVE  Entry(c) \in Locks /\ Wrapped(c) + 1 \in 1 .. Len(Trace[c]) + 1
<1>1. Trace[c] \in Seq(Locks) /\ Len(Trace[c]) \in Nat /\ idx[c] \in 1 .. Len(Trace[c]) + 1
  BY TraceAssumption, LenProperties DEF TypeInv
<1>2. Trace[c] # << >>
  <2> SUFFICES ASSUME Trace[c] = << >>
               PROVE  FALSE
    OBVIOUS
  <2>1. LocksOf(c) = {}
    BY EmptySeq DEF LocksOf
  <2>2. Batch[c] \in 1 .. 0
    BY <2>1, FS_EmptySet, TraceAssumption
  <2> QED  BY <2>2
<1>3. Len(Trace[c]) > 0
  BY <1>1, <1>2, EmptySeq
<1>4. Wrapped(c) \in 1 .. Len(Trace[c])
  BY <1>1, <1>3 DEF Wrapped
<1> QED  BY <1>1, <1>4, ElementOfSeq DEF Entry

\* The index stays in the trace, or one behind it.
LEMMA IndexMoves ==
  ASSUME TypeInv, NEW c \in Clients, Moves(c)
  PROVE  idx' \in [Clients -> Nat] /\ \A d \in Clients : idx'[d] \in 1 .. Len(Trace[d]) + 1
<1> DEFINE n == Wrapped(c) + 1
<1>1. /\ idx \in [Clients -> Nat] /\ n \in 1 .. Len(Trace[c]) + 1
      /\ \A d \in Clients : idx[d] \in 1 .. Len(Trace[d]) + 1
  BY EntryOfTrace DEF TypeInv
<1>2. n \in Nat /\ idx' = [idx EXCEPT ![c] = n]
  BY <1>1 DEF Moves
<1> HIDE DEF n
<1>3. \A d \in Clients : idx'[d] = IF d = c THEN n ELSE idx[d]
  BY <1>1, <1>2
<1> QED  BY <1>1, <1>2, <1>3

\* A burst counts what it sends.
LEMMA SentCounts ==
  ASSUME NEW f \in [Clients -> [Locks -> Nat]], NEW c \in Clients, NEW b \in Seq(Locks)
  PROVE  /\ Sent(f, c, b) \in [Clients -> [Locks -> Nat]]
         /\ \A d \in Clients, l \in Locks :
               Sent(f, c, b)[d][l] = IF d = c THEN f[c][l] + Occurrences(b, l) ELSE f[d][l]
<1>1. \A l \in Locks : Occurrences(b, l) \in Nat
  BY OccurrencesFacts
<1>2. [l \in Locks |-> f[c][l] + Occurrences(b, l)] \in [Locks -> Nat]
  BY <1>1
<1> QED  BY <1>2 DEF Sent

\* A lock the client is busy with is skipped.
LEMMA SkipInv ==
  ASSUME Inv, NEW c \in Clients, TxSkip(c)
  PROVE  Inv'
<1>1. TypeInv /\ BusyInv /\ HoldInv /\ Wrapped(c) + 1 \in 1 .. Len(Trace[c]) + 1
  BY EntryOfTrace DEF Inv
<1>2. /\ idx' = [idx EXCEPT ![c] = Wrapped(c) + 1]
      /\ UNCHANGED << tx_mbufs, busy, rxVars, netVars, lockVars >>
  BY DEF TxSkip, Moves
<1>3. idx' \in [Clients -> Nat] /\ \A d \in Clients : idx'[d] \in 1 .. Len(Trace[d]) + 1
  BY <1>1, IndexMoves DEF TxSkip
<1>4. TypeInv'
  BY <1>1, <1>2, <1>3 DEF TypeInv, rxVars, netVars, lockVars
<1>5. ASSUME NEW d \in Clients, NEW l \in Locks
      PROVE  Asking(d, l)' = Asking(d, l) /\ Holding(d, l)' = Holding(d, l)
             /\ Leaving(d, l)' = Leaving(d, l)
  BY <1>1, <1>2, CountsUnchanged DEF rxVars, netVars, lockVars
<1>6. BusyInv' /\ HoldInv'
  BY <1>1, <1>2, <1>5 DEF BusyInv, HoldInv, lockVars
<1> QED  BY <1>4, <1>6 DEF Inv

\* Only the client's requests of the entry's lock are one more.
LEMMA AcquireInv ==
  ASSUME Inv, NEW c \in Clients, TxAcquire(c)
  PROVE  Inv'
<1> DEFINE e == Entry(c)
           q == Append(tx_mbufs[c], e)
           full == Len(q) = Batch[c]
           sent == IF full THEN q ELSE << >>
           kept == IF full THEN << >> ELSE q
<1>1. TypeInv /\ e \in Locks /\ Wrapped(c) + 1 \in 1 .. Len(Trace[c]) + 1
  BY EntryOfTrace DEF Inv
<1>2. q \in Seq(Locks) /\ << >> \in Seq(Locks)
  BY <1>1, AppendProperties, EmptySeq DEF TypeInv
<1>3. sent \in Seq(Locks) /\ kept \in Seq(Locks)
  BY <1>2
<1>4. \A l \in Locks : Occurrences(sent, l) + Occurrences(kept, l)
                          = Occurrences(tx_mbufs[c], l) + (IF e = l THEN 1 ELSE 0)
  <2> SUFFICES ASSUME NEW l \in Locks
               PROVE  Occurrences(sent, l) + Occurrences(kept, l)
                          = Occurrences(tx_mbufs[c], l) + (IF e = l THEN 1 ELSE 0)
    OBVIOUS
  <2>1. Occurrences(q, l) = Occurrences(tx_mbufs[c], l) + (IF e = l THEN 1 ELSE 0)
    BY <1>1, OccurrencesAppend DEF TypeInv
  <2>2. Occurrences(<< >>, l) = 0 /\ Occurrences(q, l) \in Nat
    BY <1>2, OccurrencesEmpty, OccurrencesFacts
  <2> HIDE DEF q
  <2> QED  BY <2>1, <2>2
<1>5. /\ e \notin busy[c]
      /\ busy' = [busy EXCEPT ![c] = @ \cup {e}]
      /\ acquires' = Sent(acquires, c, sent)
      /\ tx_mbufs' = [tx_mbufs EXCEPT ![c] = kept]
      /\ idx' = [idx EXCEPT ![c] = Wrapped(c) + 1]
      /\ UNCHANGED << rxVars, releases, grants, lockVars >>
  BY DEF TxAcquire, Moves
<1> HIDE DEF e, sent, kept
<1>6. /\ acquires' \in [Clients -> [Locks -> Nat]]
      /\ \A d \in Clients, l \in Locks :
            acquires'[d][l] = IF d = c THEN acquires[c][l] + Occurrences(sent, l)
                                       ELSE acquires[d][l]
  <2> DEFINE f == acquires
  <2>1. f \in [Clients -> [Locks -> Nat]] /\ acquires' = Sent(f, c, sent)
    BY <1>1, <1>5 DEF TypeInv
  <2> HIDE DEF f
  <2>2. /\ Sent(f, c, sent) \in [Clients -> [Locks -> Nat]]
        /\ \A d \in Clients, l \in Locks :
              Sent(f, c, sent)[d][l] = IF d = c THEN f[c][l] + Occurrences(sent, l)
                                                ELSE f[d][l]
    BY <1>3, <2>1, SentCounts
  <2> QED  BY <2>1, <2>2 DEF f
<1>7. TypeInv'
  <2>1. idx' \in [Clients -> Nat] /\ \A d \in Clients : idx'[d] \in 1 .. Len(Trace[d]) + 1
    BY <1>1, IndexMoves DEF TxAcquire
  <2>2. tx_mbufs' \in [Clients -> Seq(Locks)] /\ busy' \in [Clients -> SUBSET Locks]
    BY <1>1, <1>3, <1>5 DEF TypeInv
  <2> QED  BY <1>1, <1>5, <1>6, <2>1, <2>2 DEF TypeInv, rxVars, lockVars
<1>8. HoldInv'
  BY <1>1, <1>5, CountsUnchanged DEF Inv, HoldInv, rxVars, lockVars
<1>9. ASSUME NEW d \in Clients, NEW l \in Locks
      PROVE  Asking(d, l)' + Holding(d, l)' = IF l \in busy'[d] THEN 1 ELSE 0
  <2>1. Asking(d, l) + Holding(d, l) = IF l \in busy[d] THEN 1 ELSE 0
    BY DEF Inv, BusyInv
  <2>2. Holding(d, l)' = Holding(d, l)
    BY <1>1, <1>5, CountsUnchanged DEF rxVars
  <2>3. CASE d # c
    <3>1. Asking(d, l)' = Asking(d, l) /\ busy'[d] = busy[d]
      BY <1>1, <1>5, <1>6, <2>3, CountsUnchanged DEF TypeInv, lockVars
    <3> QED  BY <2>1, <2>2, <3>1
  <2>4. CASE d = c
    <3>1. Occurrences(sent, l) + Occurrences(kept, l)
             = Occurrences(tx_mbufs[c], l) + (IF e = l THEN 1 ELSE 0)
      BY <1>4
    <3>2. /\ tx_mbufs'[c] = kept /\ acquires'[c][l] = acquires[c][l] + Occurrences(sent, l)
          /\ waiting'[l] = waiting[l] /\ busy'[c] = busy[c] \cup {e}
      BY <1>1, <1>5, <1>6 DEF TypeInv, lockVars
    <3>3. Asking(c, l)' = Occurrences(kept, l) + (acquires[c][l] + Occurrences(sent, l))
                             + Occurrences(waiting[l], c)
      BY <3>2 DEF Asking, Occurrences
    <3>4. /\ Occurrences(kept, l) \in Nat /\ Occurrences(sent, l) \in Nat
          /\ Occurrences(tx_mbufs[c], l) \in Nat /\ acquires[c][l] \in Nat
          /\ Occurrences(waiting[l], c) \in Nat /\ Holding(c, l) \in Nat
    <4>1. Occurrences(kept, l) \in Nat /\ Occurrences(sent, l) \in Nat
          BY <1>3, OccurrencesFacts
        <4>2. /\ Occurrences(tx_mbufs[c], l) \in Nat /\ acquires[c][l] \in Nat
              /\ Occurrences(waiting[l], c) \in Nat
              /\ Granted(c, l) \in {0, 1} /\ Occurrences(thinkqueue[c], l) \in Nat
          BY <1>1, CountTypes
        <4> QED  BY <4>1, <4>2 DEF Holding
    <3>5. Asking(c, l)' = Asking(c, l) + (IF e = l THEN 1 ELSE 0)
      BY <3>1, <3>3, <3>4 DEF Asking
    <3>6. Asking(c, l) \in Nat
      BY <3>4 DEF Asking
    <3> QED  BY <1>5, <2>1, <2>2, <2>4, <3>2, <3>4, <3>5, <3>6
  <2> QED  BY <2>3, <2>4
<1> QED  BY <1>7, <1>8, <1>9 DEF Inv, BusyInv

\* The sums are numbers.
LEMMA SumTypes ==
  ASSUME TypeInv, NEW c \in Clients, NEW l \in Locks
  PROVE  Asking(c, l) \in Nat /\ Holding(c, l) \in Nat /\ Leaving(c, l) \in Nat
<1>1. /\ Occurrences(tx_mbufs[c], l) \in Nat /\ acquires[c][l] \in Nat
      /\ Occurrences(waiting[l], c) \in Nat
      /\ Granted(c, l) \in {0, 1} /\ Occurrences(thinkqueue[c], l) \in Nat
      /\ Occurrences(rx_mbufs[c], l) \in Nat /\ releases[c][l] \in Nat
  BY CountTypes
<1> QED  BY <1>1 DEF Asking, Holding, Leaving

\* How a client and a lock count, if the invariant holds.
LEMMA InvCounts ==
  ASSUME Inv, NEW c \in Clients, NEW l \in Locks
  PROVE  /\ Asking(c, l) \in Nat /\ Holding(c, l) \in Nat /\ Leaving(c, l) \in Nat
         /\ Asking(c, l) + Holding(c, l) = IF l \in busy[c] THEN 1 ELSE 0
         /\ Holding(c, l) + Leaving(c, l) = IF c \in holder[l] THEN 1 ELSE 0
BY SumTypes DEF Inv, BusyInv, HoldInv

\* A grant that is released at once: from holding to leaving.
LEMMA ReleaseInv ==
  ASSUME Inv, NEW c \in Clients, NEW l \in Locks, RxRelease(c, l)
  PROVE  Inv'
<1>1. TypeInv /\ Len(rx_mbufs[c]) \in Nat /\ rx_mbufs[c] \in Seq(Locks)
  BY LenProperties DEF Inv, TypeInv
<1>2. /\ l \in grants[c]
      /\ rx_mbufs' = [rx_mbufs EXCEPT ![c] = Append(@, l)]
      /\ busy' = [busy EXCEPT ![c] = @ \ {l}]
      /\ grants' = [grants EXCEPT ![c] = @ \ {l}]
      /\ UNCHANGED << idx, tx_mbufs, thinkqueue, acquires, releases, lockVars >>
  BY DEF RxRelease
<1>3. TypeInv'
  <2>1. Append(rx_mbufs[c], l) \in Seq(Locks)
    BY <1>1, AppendProperties
  <2> QED  BY <1>1, <1>2, <2>1 DEF TypeInv, lockVars
<1>4. ASSUME NEW d \in Clients, NEW m \in Locks
      PROVE  /\ Asking(d, m)' + Holding(d, m)' = IF m \in busy'[d] THEN 1 ELSE 0
             /\ Holding(d, m)' + Leaving(d, m)' = IF d \in holder'[m] THEN 1 ELSE 0
  <2>1. /\ Asking(d, m) \in Nat /\ Holding(d, m) \in Nat /\ Leaving(d, m) \in Nat
        /\ Asking(d, m) + Holding(d, m) = IF m \in busy[d] THEN 1 ELSE 0
        /\ Holding(d, m) + Leaving(d, m) = IF d \in holder[m] THEN 1 ELSE 0
    BY InvCounts
  <2>2. Asking(d, m)' = Asking(d, m) /\ holder'[m] = holder[m]
    BY <1>1, <1>2, CountsUnchanged DEF lockVars
  <2>3. CASE d # c
    <3>1. Holding(d, m)' = Holding(d, m) /\ Leaving(d, m)' = Leaving(d, m)
      BY <1>1, <1>2, <2>3, CountsUnchanged DEF TypeInv
    <3>2. busy'[d] = busy[d]
      BY <1>1, <1>2, <2>3 DEF TypeInv
    <3> QED  BY <2>1, <2>2, <3>1, <3>2
  <2>4. CASE d = c
    <3>1. /\ Granted(c, m) = (IF m \in grants[c] THEN 1 ELSE 0)
          /\ Granted(c, m)' = IF m \in grants[c] /\ m # l THEN 1 ELSE 0
      BY <1>1, <1>2 DEF Granted, TypeInv
    <3>2. Holding(c, m)' = Granted(c, m)' + Occurrences(thinkqueue[c], m)
      BY <1>2 DEF Holding
    <3>3. rx_mbufs'[c] = Append(rx_mbufs[c], l) /\ releases'[c][m] = releases[c][m]
      BY <1>1, <1>2 DEF TypeInv
    <3>4. Occurrences(rx_mbufs'[c], m) = Occurrences(rx_mbufs[c], m) + (IF l = m THEN 1 ELSE 0)
      BY <1>1, <3>3, OccurrencesAppend
    <3>5. Leaving(c, m)' = Occurrences(rx_mbufs'[c], m) + releases[c][m]
      BY <3>3 DEF Leaving, Occurrences
    <3>6. /\ Granted(c, m) \in {0, 1} /\ Occurrences(thinkqueue[c], m) \in Nat
          /\ Occurrences(rx_mbufs[c], m) \in Nat /\ releases[c][m] \in Nat
      BY <1>1, CountTypes
    <3>7. Leaving(c, m)' = Leaving(c, m) + (IF l = m THEN 1 ELSE 0)
      BY <3>4, <3>5, <3>6 DEF Leaving
    <3>8. Holding(c, m)' = Holding(c, m) - (IF l = m THEN 1 ELSE 0)
      BY <1>2, <3>1, <3>2, <3>6 DEF Holding
    <3>9. m = l => Holding(c, m) > 0
      BY <1>2, <3>1, <3>6 DEF Holding
    <3>10. busy'[c] = busy[c] \ {l}
      BY <1>1, <1>2 DEF TypeInv
    <3> QED  BY <2>1, <2>2, <2>4, <3>7, <3>8, <3>9, <3>10
  <2> QED  BY <2>3, <2>4
<1> QED  BY <1>3, <1>4 DEF Inv, BusyInv, HoldInv

\* A grant that is queued stays with the holder.
LEMMA ThinkInv ==
  ASSUME Inv, NEW c \in Clients, NEW l \in Locks, RxThink(c, l)
  PROVE  Inv'
<1>1. TypeInv /\ thinkqueue[c] \in Seq(Locks)
  BY DEF Inv, TypeInv
<1>2. /\ l \in grants[c]
      /\ thinkqueue' = [thinkqueue EXCEPT ![c] = Append(@, l)]
      /\ grants' = [grants EXCEPT ![c] = @ \ {l}]
      /\ UNCHANGED << idx, tx_mbufs, busy, rx_mbufs, acquires, releases, lockVars >>
  BY DEF RxThink
<1>3. TypeInv'
  <2>1. Append(thinkqueue[c], l) \in Seq(Locks)
    BY <1>1, AppendProperties
  <2> QED  BY <1>1, <1>2, <2>1 DEF TypeInv, lockVars
<1>4. ASSUME NEW d \in Clients, NEW m \in Locks
      PROVE  /\ Asking(d, m)' = Asking(d, m) /\ Holding(d, m)' = Holding(d, m)
             /\ Leaving(d, m)' = Leaving(d, m)
  <2>1. Asking(d, m)' = Asking(d, m) /\ Leaving(d, m)' = Leaving(d, m)
    BY <1>1, <1>2, CountsUnchanged DEF lockVars
  <2>2. CASE d # c
    BY <1>1, <1>2, <2>1, <2>2, CountsUnchanged DEF TypeInv
  <2>3. CASE d = c
    <3>1. /\ Granted(c, m) = (IF m \in grants[c] THEN 1 ELSE 0)
          /\ Granted(c, m)' = IF m \in grants[c] /\ m # l THEN 1 ELSE 0
      BY <1>1, <1>2 DEF Granted, TypeInv
    <3>2. thinkqueue'[c] = Append(thinkqueue[c], l)
      BY <1>1, <1>2 DEF TypeInv
    <3>3. Occurrences(thinkqueue'[c], m)
             = Occurrences(thinkqueue[c], m) + (IF l = m THEN 1 ELSE 0)
      BY <1>1, <3>2, OccurrencesAppend
    <3>4. Holding(c, m)' = Granted(c, m)' + Occurrences(thinkqueue'[c], m)
      BY DEF Holding, Occurrences
    <3>5. Occurrences(thinkqueue[c], m) \in Nat
      BY <1>1, CountTypes
    <3>6. Holding(c, m)' = Holding(c, m)
      BY <1>2, <3>1, <3>3, <3>4, <3>5 DEF Holding
    <3> QED  BY <2>1, <2>3, <3>6
  <2> QED  BY <2>2, <2>3
<1>5. BusyInv' /\ HoldInv'
  BY <1>2, <1>4 DEF Inv, BusyInv, HoldInv, lockVars
<1> QED  BY <1>3, <1>5 DEF Inv

\* The think queue is drained: what was holding is leaving.
LEMMA DrainInv ==
  ASSUME Inv, NEW c \in Clients, RxDrainThinkQueue(c)
  PROVE  Inv'
<1> DEFINE t == thinkqueue[c]
           drained == {t[i] : i \in DOMAIN t}
<1>1. TypeInv /\ t \in Seq(Locks) /\ rx_mbufs[c] \in Seq(Locks) /\ << >> \in Seq(Locks)
  BY EmptySeq DEF Inv, TypeInv
<1>2. /\ rx_mbufs' = [rx_mbufs EXCEPT ![c] = @ \o t]
      /\ busy' = [busy EXCEPT ![c] = @ \ drained]
      /\ thinkqueue' = [thinkqueue EXCEPT ![c] = << >>]
      /\ UNCHANGED << idx, tx_mbufs, netVars, lockVars >>
  BY DEF RxDrainThinkQueue
<1>3. ASSUME NEW m \in Locks
      PROVE  Occurrences(t, m) \in Nat /\ (Occurrences(t, m) > 0 <=> m \in drained)
  <2>1. Occurrences(t, m) \in Nat /\ (Occurrences(t, m) = 0 <=> \A i \in DOMAIN t : t[i] # m)
    BY <1>1, OccurrencesFacts
  <2> HIDE DEF t
  <2> QED  BY <2>1
<1> HIDE DEF t, drained
<1>4. TypeInv'
  <2>1. rx_mbufs[c] \o t \in Seq(Locks)
    BY <1>1, ConcatProperties
  <2> QED  BY <1>1, <1>2, <2>1 DEF TypeInv, netVars, lockVars
<1>5. ASSUME NEW d \in Clients, NEW m \in Locks
      PROVE  /\ Asking(d, m)' + Holding(d, m)' = IF m \in busy'[d] THEN 1 ELSE 0
             /\ Holding(d, m)' + Leaving(d, m)' = IF d \in holder'[m] THEN 1 ELSE 0
  <2>1. /\ Asking(d, m) \in Nat /\ Holding(d, m) \in Nat /\ Leaving(d, m) \in Nat
        /\ Asking(d, m) + Holding(d, m) = IF m \in busy[d] THEN 1 ELSE 0
        /\ Holding(d, m) + Leaving(d, m) = IF d \in holder[m] THEN 1 ELSE 0
    BY InvCounts
  <2>2. Asking(d, m)' = Asking(d, m) /\ holder'[m] = holder[m]
    BY <1>1, <1>2, CountsUnchanged DEF netVars, lockVars
  <2>3. CASE d # c
    <3>1. Holding(d, m)' = Holding(d, m) /\ Leaving(d, m)' = Leaving(d, m)
      BY <1>1, <1>2, <2>3, CountsUnchanged DEF TypeInv, netVars
    <3>2. busy'[d] = busy[d]
      BY <1>1, <1>2, <2>3 DEF TypeInv
    <3> QED  BY <2>1, <2>2, <3>1, <3>2
  <2>4. CASE d = c
    <3>1. /\ rx_mbufs'[c] = rx_mbufs[c] \o t /\ thinkqueue'[c] = << >>
          /\ releases'[c][m] = releases[c][m] /\ grants'[c] = grants[c]
          /\ busy'[c] = busy[c] \ drained
      BY <1>1, <1>2 DEF TypeInv, netVars
    <3>2. /\ Occurrences(rx_mbufs'[c], m) = Occurrences(rx_mbufs[c], m) + Occurrences(t, m)
          /\ Occurrences(thinkqueue'[c], m) = 0
      BY <1>1, <3>1, OccurrencesConcat, OccurrencesEmpty
    <3>3. /\ Leaving(c, m)' = Occurrences(rx_mbufs'[c], m) + releases[c][m]
          /\ Holding(c, m)' = Granted(c, m) + Occurrences(thinkqueue'[c], m)
          /\ Holding(c, m) = Granted(c, m) + Occurrences(t, m)
      BY <3>1 DEF Leaving, Holding, Granted, Occurrences, t
    <3>4. /\ Granted(c, m) \in {0, 1} /\ Occurrences(rx_mbufs[c], m) \in Nat
          /\ releases[c][m] \in Nat /\ Occurrences(t, m) \in Nat
      BY <1>1, <1>3, CountTypes
    <3>5. Leaving(c, m)' = Leaving(c, m) + Occurrences(t, m)
      BY <3>2, <3>3, <3>4 DEF Leaving
    <3>6. Holding(c, m)' = Holding(c, m) - Occurrences(t, m)
      BY <3>2, <3>3, <3>4
    <3>7. Occurrences(t, m) <= Holding(c, m)
      BY <3>3, <3>4
    <3>8. CASE m \in drained
      <4>1. Occurrences(t, m) > 0
        BY <1>3, <3>8
      <4>2. Holding(c, m) = 1 /\ Asking(c, m) = 0 /\ Occurrences(t, m) = 1
        BY <2>1, <2>4, <3>4, <3>7, <4>1
      <4>3. m \notin busy'[c]
        BY <3>1, <3>8
      <4> QED  BY <2>1, <2>2, <2>4, <3>5, <3>6, <4>2, <4>3
    <3>9. CASE m \notin drained
      <4>1. Occurrences(t, m) = 0
        BY <1>3, <3>4, <3>9
      <4>2. m \in busy'[c] <=> m \in busy[c]
        BY <3>1, <3>9
      <4> QED  BY <2>1, <2>2, <2>4, <3>5, <3>6, <4>1, <4>2
    <3> QED  BY <3>8, <3>9
  <2> QED  BY <2>3, <2>4
<1> QED  BY <1>4, <1>5 DEF Inv, BusyInv, HoldInv

\* RELEASEs leave the buffer for the network.
LEMMA BurstInv ==
  ASSUME Inv, NEW c \in Clients, RxBurst(c)
  PROVE  Inv'
<1>1. /\ TypeInv /\ rx_mbufs[c] \in Seq(Locks) /\ << >> \in Seq(Locks)
      /\ releases \in [Clients -> [Locks -> Nat]]
  BY EmptySeq DEF Inv, TypeInv
<1>2. /\ releases' = Sent(releases, c, rx_mbufs[c])
      /\ rx_mbufs' = [rx_mbufs EXCEPT ![c] = << >>]
      /\ UNCHANGED << idx, tx_mbufs, busy, thinkqueue, acquires, grants, lockVars >>
  BY DEF RxBurst
<1>3. /\ releases' \in [Clients -> [Locks -> Nat]]
      /\ \A d \in Clients, l \in Locks :
            releases'[d][l] = IF d = c THEN releases[c][l] + Occurrences(rx_mbufs[c], l)
                                       ELSE releases[d][l]
  <2> DEFINE b == rx_mbufs[c]
             f == releases
  <2>1. b \in Seq(Locks) /\ f \in [Clients -> [Locks -> Nat]] /\ releases' = Sent(f, c, b)
    BY <1>1, <1>2
  <2> HIDE DEF b, f
  <2>2. /\ Sent(f, c, b) \in [Clients -> [Locks -> Nat]]
        /\ \A d \in Clients, l \in Locks :
              Sent(f, c, b)[d][l] = IF d = c THEN f[c][l] + Occurrences(b, l) ELSE f[d][l]
    BY <2>1, SentCounts
  <2> QED  BY <2>1, <2>2 DEF b, f
<1>4. TypeInv'
  BY <1>1, <1>2, <1>3 DEF TypeInv, lockVars
<1>5. ASSUME NEW d \in Clients, NEW m \in Locks
      PROVE  /\ Asking(d, m)' = Asking(d, m) /\ Holding(d, m)' = Holding(d, m)
             /\ Leaving(d, m)' = Leaving(d, m)
  <2>1. Asking(d, m)' = Asking(d, m) /\ Holding(d, m)' = Holding(d, m)
    BY <1>1, <1>2, CountsUnchanged DEF lockVars
  <2>2. CASE d # c
    <3>1. rx_mbufs'[d] = rx_mbufs[d] /\ releases'[d][m] = releases[d][m]
      BY <1>1, <1>2, <1>3, <2>2 DEF TypeInv
    <3> QED  BY <1>1, <2>1, <3>1, CountsUnchanged
  <2>3. CASE d = c
    <3>1. rx_mbufs'[c] = << >>
      BY <1>1, <1>2 DEF TypeInv
    <3>2. Occurrences(rx_mbufs'[c], m) = 0
      BY <3>1, OccurrencesEmpty
    <3>3. releases'[c][m] = releases[c][m] + Occurrences(rx_mbufs[c], m)
      BY <1>3
    <3>4. Leaving(c, m)' = Occurrences(rx_mbufs'[c], m) + releases'[c][m]
      BY DEF Leaving, Occurrences
    <3>5. Occurrences(rx_mbufs[c], m) \in Nat /\ releases[c][m] \in Nat
      BY <1>1, CountTypes
    <3> QED  BY <2>1, <2>3, <3>2, <3>3, <3>4, <3>5 DEF Leaving
  <2> QED  BY <2>2, <2>3
<1>6. BusyInv' /\ HoldInv'
  BY <1>2, <1>5 DEF Inv, BusyInv, HoldInv, lockVars
<1> QED  BY <1>4, <1>6 DEF Inv

\* An ACQUIRE arrives: the request asks still.
LEMMA ArriveInv ==
  ASSUME Inv, NEW c \in Clients, NEW l \in Locks, LockAcquire(c, l)
  PROVE  Inv'
<1>1. TypeInv /\ waiting[l] \in Seq(Clients) /\ acquires[c][l] \in Nat
  BY DEF Inv, TypeInv
<1>2. /\ acquires[c][l] > 0
      /\ waiting' = [waiting EXCEPT ![l] = Append(@, c)]
      /\ acquires' = [acquires EXCEPT ![c][l] = @ - 1]
      /\ UNCHANGED << idx, tx_mbufs, busy, rxVars, releases, grants, holder >>
  BY DEF LockAcquire
<1>3. TypeInv'
  <2>1. Append(waiting[l], c) \in Seq(Clients) /\ acquires[c][l] - 1 \in Nat
    BY <1>1, <1>2, AppendProperties
  <2> QED  BY <1>1, <1>2, <2>1 DEF TypeInv, rxVars
<1>4. ASSUME NEW d \in Clients, NEW m \in Locks
      PROVE  /\ Asking(d, m)' = Asking(d, m) /\ Holding(d, m)' = Holding(d, m)
             /\ Leaving(d, m)' = Leaving(d, m)
  <2>1. Holding(d, m)' = Holding(d, m) /\ Leaving(d, m)' = Leaving(d, m)
    BY <1>1, <1>2, CountsUnchanged DEF rxVars
  <2>2. CASE m # l
    <3>1. waiting'[m] = waiting[m] /\ acquires'[d][m] = acquires[d][m]
      BY <1>1, <1>2, <2>2 DEF TypeInv
    <3> QED  BY <1>1, <1>2, <2>1, <3>1, CountsUnchanged
  <2>3. CASE m = l
    <3>1. /\ waiting'[l] = Append(waiting[l], c)
          /\ acquires'[d][l] = acquires[d][l] - (IF c = d THEN 1 ELSE 0)
      <4>1. acquires \in [Clients -> [Locks -> Nat]] /\ waiting \in [Locks -> Seq(Clients)]
        BY <1>1 DEF TypeInv
      <4>2. acquires[d][l] \in Nat
        BY <4>1
      <4>3. CASE c = d
        BY <1>2, <4>1, <4>3
      <4>4. CASE c # d
        BY <1>2, <4>1, <4>2, <4>4
      <4> QED  BY <4>3, <4>4
    <3>2. Occurrences(waiting'[l], d) = Occurrences(waiting[l], d) + (IF c = d THEN 1 ELSE 0)
      BY <1>1, <3>1, OccurrencesAppend
    <3>3. Asking(d, l)' = Occurrences(tx_mbufs[d], l) + acquires'[d][l]
                             + Occurrences(waiting'[l], d)
      BY <1>2 DEF Asking, Occurrences
    <3>4. /\ Occurrences(tx_mbufs[d], l) \in Nat /\ acquires[d][l] \in Nat
          /\ Occurrences(waiting[l], d) \in Nat
      BY <1>1, CountTypes
    <3>5. Asking(d, l)' = Asking(d, l)
      BY <3>1, <3>2, <3>3, <3>4 DEF Asking
    <3> QED  BY <2>1, <2>3, <3>5
  <2> QED  BY <2>2, <2>3
<1>5. BusyInv' /\ HoldInv'
  BY <1>2, <1>4 DEF Inv, BusyInv, HoldInv
<1> QED  BY <1>3, <1>5 DEF Inv

\* A RELEASE arrives: its client holds the lock, for this reason only.
LEMMA LeaveInv ==
  ASSUME Inv, NEW c \in Clients, NEW l \in Locks, LockRelease(c, l)
  PROVE  Inv'
<1>1. /\ TypeInv /\ releases \in [Clients -> [Locks -> Nat]] /\ releases[c][l] \in Nat
      /\ holder \in [Locks -> SUBSET Clients]
  BY DEF Inv, TypeInv
<1>2. /\ releases[c][l] > 0
      /\ holder' = [holder EXCEPT ![l] = @ \ {c}]
      /\ releases' = [releases EXCEPT ![c][l] = @ - 1]
      /\ UNCHANGED << idx, tx_mbufs, busy, rxVars, acquires, grants, waiting >>
  BY DEF LockRelease
<1>3. TypeInv'
  <2>1. releases[c][l] - 1 \in Nat
    BY <1>1, <1>2
  <2> QED  BY <1>1, <1>2, <2>1 DEF TypeInv, rxVars
<1>4. ASSUME NEW d \in Clients, NEW m \in Locks
      PROVE  /\ Asking(d, m)' + Holding(d, m)' = IF m \in busy'[d] THEN 1 ELSE 0
             /\ Holding(d, m)' + Leaving(d, m)' = IF d \in holder'[m] THEN 1 ELSE 0
  <2>1. /\ Asking(d, m) \in Nat /\ Holding(d, m) \in Nat /\ Leaving(d, m) \in Nat
        /\ Asking(d, m) + Holding(d, m) = IF m \in busy[d] THEN 1 ELSE 0
        /\ Holding(d, m) + Leaving(d, m) = IF d \in holder[m] THEN 1 ELSE 0
    BY InvCounts
  <2>2. Asking(d, m)' = Asking(d, m) /\ Holding(d, m)' = Holding(d, m) /\ busy' = busy
    BY <1>1, <1>2, CountsUnchanged DEF rxVars
  <2>3. CASE ~ (d = c /\ m = l)
    <3>1. rx_mbufs'[d] = rx_mbufs[d] /\ releases'[d][m] = releases[d][m]
      BY <1>1, <1>2, <2>3 DEF rxVars
    <3>2. Leaving(d, m)' = Leaving(d, m)
      BY <1>1, <3>1, CountsUnchanged
    <3>3. d \in holder'[m] <=> d \in holder[m]
      BY <1>1, <1>2, <2>3
    <3> QED  BY <2>1, <2>2, <3>2, <3>3
  <2>4. CASE d = c /\ m = l
    <3>1. releases'[c][l] = releases[c][l] - 1 /\ rx_mbufs' = rx_mbufs
      BY <1>1, <1>2 DEF rxVars
    <3>2. Occurrences(rx_mbufs[c], l) \in Nat
      BY <1>1, CountTypes
    <3>3. Leaving(c, l)' = Occurrences(rx_mbufs[c], l) + releases'[c][l]
      BY <3>1 DEF Leaving, Occurrences
    <3>4. Leaving(c, l)' = Leaving(c, l) - 1 /\ Leaving(c, l) > 0
      BY <1>1, <1>2, <3>1, <3>2, <3>3 DEF Leaving
    <3>5. c \notin holder'[l]
      BY <1>1, <1>2
    <3> QED  BY <2>1, <2>2, <2>4, <3>4, <3>5
  <2> QED  BY <2>3, <2>4
<1> QED  BY <1>3, <1>4 DEF Inv, BusyInv, HoldInv

\* The oldest waiting client is granted: from asking to holding.
LEMMA GrantInv ==
  ASSUME Inv, NEW l \in Locks, LockGrant(l)
  PROVE  Inv'
<1> DEFINE c == Head(waiting[l])
<1>1. /\ TypeInv /\ waiting[l] \in Seq(Clients)
      /\ holder \in [Locks -> SUBSET Clients] /\ grants \in [Clients -> SUBSET Locks]
      /\ waiting \in [Locks -> Seq(Clients)]
  BY DEF Inv, TypeInv
<1>2. /\ waiting[l] # << >> /\ holder[l] = {}
      /\ holder' = [holder EXCEPT ![l] = {c}]
      /\ grants' = [grants EXCEPT ![c] = @ \cup {l}]
      /\ waiting' = [waiting EXCEPT ![l] = Tail(@)]
      /\ UNCHANGED << idx, tx_mbufs, busy, rxVars, acquires, releases >>
  BY DEF LockGrant
<1>3. c \in Clients /\ Tail(waiting[l]) \in Seq(Clients) /\ Occurrences(waiting[l], c) > 0
  <2>1. Head(waiting[l]) \in Clients /\ Tail(waiting[l]) \in Seq(Clients)
        /\ Occurrences(waiting[l], Head(waiting[l])) > 0
    BY <1>1, <1>2, OccurrencesTail
  <2> QED  BY <2>1
<1> HIDE DEF c
<1>4. l \notin grants[c]
  <2>1. /\ Asking(c, l) \in Nat /\ Holding(c, l) \in Nat
        /\ Asking(c, l) + Holding(c, l) = IF l \in busy[c] THEN 1 ELSE 0
    BY <1>3, InvCounts
  <2>2. /\ Occurrences(tx_mbufs[c], l) \in Nat /\ acquires[c][l] \in Nat
        /\ Occurrences(waiting[l], c) \in Nat
        /\ Granted(c, l) \in {0, 1} /\ Occurrences(thinkqueue[c], l) \in Nat
    BY <1>1, <1>3, CountTypes
  <2>3. Asking(c, l) > 0
    BY <1>3, <2>2 DEF Asking
  <2>4. Granted(c, l) = 0
    BY <2>1, <2>2, <2>3 DEF Holding
  <2> QED  BY <2>4 DEF Granted
<1>5. TypeInv'
  BY <1>1, <1>2, <1>3 DEF TypeInv, rxVars
<1>6. ASSUME NEW d \in Clients, NEW m \in Locks
      PROVE  /\ Asking(d, m)' + Holding(d, m)' = IF m \in busy'[d] THEN 1 ELSE 0
             /\ Holding(d, m)' + Leaving(d, m)' = IF d \in holder'[m] THEN 1 ELSE 0
  <2>1. /\ Asking(d, m) \in Nat /\ Holding(d, m) \in Nat /\ Leaving(d, m) \in Nat
        /\ Asking(d, m) + Holding(d, m) = IF m \in busy[d] THEN 1 ELSE 0
        /\ Holding(d, m) + Leaving(d, m) = IF d \in holder[m] THEN 1 ELSE 0
    BY InvCounts
  <2>2. Leaving(d, m)' = Leaving(d, m) /\ busy' = busy
    BY <1>1, <1>2, CountsUnchanged DEF rxVars
  <2>3. CASE m # l
    <3>1. waiting'[m] = waiting[m] /\ holder'[m] = holder[m] /\ acquires' = acquires
          /\ tx_mbufs' = tx_mbufs
      BY <1>1, <1>2, <2>3
    <3>2. Asking(d, m)' = Asking(d, m)
      BY <1>1, <3>1, CountsUnchanged
    <3>3. thinkqueue' = thinkqueue /\ (m \in grants'[d] <=> m \in grants[d])
      BY <1>1, <1>2, <1>3, <2>3 DEF rxVars
    <3>4. Holding(d, m)' = Holding(d, m)
      BY <3>3 DEF Holding, Granted, Occurrences
    <3> QED  BY <2>1, <2>2, <3>1, <3>2, <3>4
  <2>4. CASE m = l
    <3>1. /\ waiting'[l] = Tail(waiting[l]) /\ holder'[l] = {c}
          /\ acquires' = acquires /\ tx_mbufs' = tx_mbufs /\ thinkqueue' = thinkqueue
          /\ l \in grants'[d] <=> l \in grants[d] \/ d = c
      BY <1>1, <1>2, <1>3 DEF rxVars
    <3>2. Occurrences(waiting'[l], d) = Occurrences(waiting[l], d) - (IF c = d THEN 1 ELSE 0)
      <4>1. Occurrences(Tail(waiting[l]), d)
               = Occurrences(waiting[l], d) - (IF Head(waiting[l]) = d THEN 1 ELSE 0)
        BY <1>1, <1>2, OccurrencesTail
      <4> QED  BY <3>1, <4>1 DEF c
    <3>3. Asking(d, l)' = Occurrences(tx_mbufs[d], l) + acquires[d][l]
                             + Occurrences(waiting'[l], d)
      BY <3>1 DEF Asking, Occurrences
    <3>4. /\ Granted(d, l)' = IF l \in grants'[d] THEN 1 ELSE 0
          /\ Granted(d, l) = IF l \in grants[d] THEN 1 ELSE 0
      BY DEF Granted
    <3>5. Holding(d, l)' = Granted(d, l)' + Occurrences(thinkqueue[d], l)
      BY <3>1 DEF Holding, Occurrences
    <3>6. /\ Occurrences(tx_mbufs[d], l) \in Nat /\ acquires[d][l] \in Nat
          /\ Occurrences(waiting[l], d) \in Nat /\ Occurrences(thinkqueue[d], l) \in Nat
      BY <1>1, CountTypes
    <3>7. Asking(d, l)' = Asking(d, l) - (IF c = d THEN 1 ELSE 0)
      BY <3>2, <3>3, <3>6 DEF Asking
    <3>8. Holding(d, l)' = Holding(d, l) + (IF c = d THEN 1 ELSE 0)
      BY <1>4, <3>1, <3>4, <3>5, <3>6 DEF Holding
    <3>9. d \notin holder[l] /\ (d \in holder'[l] <=> c = d)
      BY <1>2, <3>1
    <3> QED  BY <2>1, <2>2, <2>4, <3>7, <3>8, <3>9
  <2> QED  BY <2>3, <2>4
<1> QED  BY <1>5, <1>6 DEF Inv, BusyInv, HoldInv

\* Every step keeps the invariant.
LEMMA NextInv == Inv /\ [Next]_vars => Inv'
<1> SUFFICES ASSUME Inv, [Next]_vars
             PROVE  Inv'
  OBVIOUS
<1>1. ASSUME NEW c \in Clients, Tx(c)
      PROVE  Inv'
  BY <1>1, SkipInv, AcquireInv DEF Tx
<1>2. ASSUME NEW c \in Clients, RxDrainThinkQueue(c) \/ RxBurst(c)
      PROVE  Inv'
  BY <1>2, DrainInv, BurstInv
<1>3. ASSUME NEW c \in Clients, NEW l \in Locks, RxRelease(c, l) \/ RxThink(c, l)
      PROVE  Inv'
  BY <1>3, ReleaseInv, ThinkInv
<1>4. ASSUME NEW c \in Clients, NEW l \in Locks, LockAcquire(c, l) \/ LockRelease(c, l)
      PROVE  Inv'
  BY <1>4, ArriveInv, LeaveInv
<1>5. ASSUME NEW l \in Locks, LockGrant(l)
      PROVE  Inv'
  BY <1>5, GrantInv
<1>6. CASE UNCHANGED vars
  <2>1. UNCHANGED << idx, tx_mbufs, busy, rxVars, netVars, lockVars >>
    BY <1>6 DEF vars
  <2>2. TypeInv /\ TypeInv'
    BY <2>1 DEF Inv, TypeInv, rxVars, netVars, lockVars
  <2>3. ASSUME NEW c \in Clients, NEW l \in Locks
        PROVE  Asking(c, l)' = Asking(c, l) /\ Holding(c, l)' = Holding(c, l)
               /\ Leaving(c, l)' = Leaving(c, l)
    BY <2>1, <2>2, CountsUnchanged DEF rxVars, netVars, lockVars
  <2> QED  BY <2>1, <2>2, <2>3 DEF Inv, BusyInv, HoldInv, lockVars
<1> QED  BY <1>1, <1>2, <1>3, <1>4, <1>5, <1>6 DEF Next

\* The busy flag, which two lcores write without a lock, is exact: a client is
\* busy with a lock exactly as long as it has one request of it under way.
THEOREM BusyCorrectness == Spec => []BusyExact
<1>1. Inv => BusyExact
  BY InvBusyExact DEF Inv
<1>2. QED
  BY <1>1, InitInv, NextInv, PTL DEF Spec

\* A lock is held only as long as its holder is busy with it or its RELEASE is
\* on the way, though ACQUIREs and RELEASEs overtake each other.
THEOREM HoldersHaveReason == Spec => []HeldForAReason
<1>1. Inv => HeldForAReason
  BY InvHeldForAReason DEF Inv
<1>2. QED
  BY <1>1, InitInv, NextInv, PTL DEF Spec
=============================================================================
