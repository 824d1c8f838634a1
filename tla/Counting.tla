------------------------------ MODULE Counting ------------------------------
(***************************************************************************)
(* Counting the entries of a queue, and the positions of a ring: lemmas    *)
(* the proofs about LockServer, NetLock and MicroClient share.             *)
(***************************************************************************)
EXTENDS SequenceTheorems, FiniteSetTheorems, FunctionTheorems, TLAPS

\* The positions of the queue q that hold a member of S.
Positions(q, S) == {i \in DOMAIN q : q[i] \in S}

\* Any queue has finitely many of them.
LEMMA PositionsFinite ==
  ASSUME NEW T, NEW q \in Seq(T), NEW S
  PROVE  IsFiniteSet(Positions(q, S)) /\ Cardinality(Positions(q, S)) \in Nat
<1>1. IsFiniteSet(1 .. Len(q))
  BY FS_Interval, LenProperties
<1>2. Positions(q, S) \subseteq 1 .. Len(q)
  BY LenProperties DEF Positions
<1>3. QED
  BY <1>1, <1>2, FS_Subset, FS_CardinalityType

\* Appending e adds one position if e is in S.
LEMMA AppendPositions ==
  ASSUME NEW T, NEW q \in Seq(T), NEW e \in T, NEW S
  PROVE  Cardinality(Positions(Append(q, e), S)) =
            Cardinality(Positions(q, S)) + (IF e \in S THEN 1 ELSE 0)
<1> DEFINE p == Append(q, e)
           n == Len(q) + 1
<1>1. /\ p \in Seq(T) /\ Len(p) = n /\ p[n] = e
      /\ \A i \in 1 .. Len(q) : p[i] = q[i]
  BY AppendProperties
<1>2. /\ Len(q) \in Nat /\ DOMAIN q = 1 .. Len(q) /\ DOMAIN p = 1 .. n
  BY <1>1, LenProperties
<1> HIDE DEF p
<1>3. CASE e \in S
  <2>1. Positions(p, S) = Positions(q, S) \cup {n}
    BY <1>1, <1>2, <1>3 DEF Positions
  <2>2. n \notin Positions(q, S)
    BY <1>2 DEF Positions
  <2>3. Cardinality(Positions(q, S) \cup {n}) = Cardinality(Positions(q, S)) + 1
    BY <2>2, PositionsFinite, FS_AddElement
  <2>4. QED
    BY <2>1, <2>3, <1>3, PositionsFinite DEF p
<1>4. CASE e \notin S
  <2>1. Positions(p, S) = Positions(q, S)
    BY <1>1, <1>2, <1>4 DEF Positions
  <2>2. QED
    BY <2>1, <1>4, PositionsFinite DEF p
<1>5. QED
  BY <1>3, <1>4

\* Sets of which each is the other moved by one have the same size.
LEMMA ShiftCardinality ==
  ASSUME NEW A \in SUBSET Nat, IsFiniteSet(A), NEW B \in SUBSET Nat,
         \A i \in Nat : i \in B <=> i + 1 \in A,
         0 \notin A
  PROVE  Cardinality(B) = Cardinality(A)
<1> DEFINE f == [i \in A |-> i - 1]
<1>1. f \in [A -> B]
  <2> SUFFICES ASSUME NEW i \in A
               PROVE  i - 1 \in B
    OBVIOUS
  <2>1. i \in Nat /\ i # 0
    OBVIOUS
  <2>2. i - 1 \in Nat /\ (i - 1) + 1 = i
    BY <2>1
  <2>3. QED
    BY <2>2
<1>2. \A i, j \in A : f[i] = f[j] => i = j
  OBVIOUS
<1>3. \A t \in B : \E i \in A : f[i] = t
  <2> SUFFICES ASSUME NEW t \in B
               PROVE  t + 1 \in A /\ f[t + 1] = t
    OBVIOUS
  <2>1. QED
    OBVIOUS
<1>4. f \in Bijection(A, B)
  BY <1>1, <1>2, <1>3, Fun_IsBij
<1>5. ExistsBijection(A, B)
  BY <1>4 DEF ExistsBijection
<1>6. QED
  BY <1>5, FS_Bijection

\* Removing the head removes one position if the head is in S.
LEMMA TailPositions ==
  ASSUME NEW T, NEW q \in Seq(T), q # << >>, NEW S
  PROVE  Cardinality(Positions(Tail(q), S)) =
            Cardinality(Positions(q, S)) - (IF q[1] \in S THEN 1 ELSE 0)
<1> DEFINE p == Tail(q)
           A == Positions(q, S) \ {1}
<1>1. /\ p \in Seq(T) /\ Len(p) = Len(q) - 1
      /\ \A i \in 1 .. Len(p) : p[i] = q[i + 1]
  BY HeadTailProperties
<1>2. /\ Len(q) \in Nat \ {0} /\ DOMAIN q = 1 .. Len(q) /\ DOMAIN p = 1 .. Len(q) - 1
  BY <1>1, LenProperties, EmptySeq
<1> HIDE DEF p
<1>3. Cardinality(Positions(p, S)) = Cardinality(A)
  <2>1. A \in SUBSET Nat /\ 0 \notin A /\ Positions(p, S) \in SUBSET Nat
    BY <1>2 DEF Positions
  <2>2. IsFiniteSet(A)
    BY PositionsFinite, FS_RemoveElement
  <2>3. \A i \in Nat : i \in Positions(p, S) <=> i + 1 \in A
    BY <1>1, <1>2 DEF Positions
  <2> HIDE DEF A
  <2>4. QED
    BY <2>1, <2>2, <2>3, ShiftCardinality
<1>4. Cardinality(A) = Cardinality(Positions(q, S)) - (IF q[1] \in S THEN 1 ELSE 0)
  <2>1. 1 \in Positions(q, S) <=> q[1] \in S
    BY <1>2 DEF Positions
  <2>2. Cardinality(A) = IF 1 \in Positions(q, S)
                         THEN Cardinality(Positions(q, S)) - 1
                         ELSE Cardinality(Positions(q, S))
    BY PositionsFinite, FS_RemoveElement
  <2>3. QED
    BY <2>1, <2>2, PositionsFinite
<1>5. QED
  BY <1>3, <1>4 DEF p

\* Sets of which each is the other moved by n have the same size.
LEMMA MovedCardinality ==
  ASSUME NEW A \in SUBSET Nat, IsFiniteSet(A), NEW n \in Nat, NEW B \in SUBSET Nat,
         \A i \in A : i + n \in B,
         \A j \in B : j >= n /\ j - n \in A
  PROVE  IsFiniteSet(B) /\ Cardinality(B) = Cardinality(A)
<1> DEFINE f == [i \in A |-> i + n]
<1>1. f \in [A -> B] /\ \A i, j \in A : f[i] = f[j] => i = j
  OBVIOUS
<1>2. ASSUME NEW j \in B
      PROVE  \E i \in A : f[i] = j
  <2>1. j - n \in A /\ (j - n) + n = j
    OBVIOUS
  <2> QED  BY <2>1
<1>3. ExistsBijection(A, B)
  BY <1>1, <1>2, Fun_IsBij DEF ExistsBijection
<1> QED  BY <1>3, FS_Bijection

\* The positions of two queues in a row are those of either.
LEMMA ConcatPositions ==
  ASSUME NEW T, NEW q \in Seq(T), NEW r \in Seq(T), NEW S
  PROVE  Cardinality(Positions(q \o r, S)) =
            Cardinality(Positions(q, S)) + Cardinality(Positions(r, S))
<1> DEFINE p == q \o r
           n == Len(q)
           A == Positions(q, S)
           B == {i \in Positions(p, S) : i > n}
<1>1. /\ p \in Seq(T) /\ Len(p) = n + Len(r)
      /\ \A i \in 1 .. n + Len(r) : p[i] = IF i <= n THEN q[i] ELSE r[i - n]
  BY ConcatProperties
<1>2. /\ n \in Nat /\ Len(r) \in Nat /\ DOMAIN q = 1 .. n
      /\ DOMAIN r = 1 .. Len(r) /\ DOMAIN p = 1 .. n + Len(r)
  BY <1>1, LenProperties
<1> HIDE DEF p, n
<1>3. Positions(p, S) = A \cup B /\ A \cap B = {}
  BY <1>1, <1>2 DEF Positions
<1>4. IsFiniteSet(B) /\ Cardinality(B) = Cardinality(Positions(r, S))
  <2>1. Positions(r, S) \in SUBSET Nat /\ B \in SUBSET Nat
    BY <1>2 DEF Positions
  <2>2. \A i \in Positions(r, S) : i + n \in B
    BY <1>1, <1>2 DEF Positions
  <2>3. \A j \in B : j >= n /\ j - n \in Positions(r, S)
    BY <1>1, <1>2 DEF Positions
  <2>4. IsFiniteSet(Positions(r, S))
    BY PositionsFinite
  <2> HIDE DEF B
  <2> QED  BY <1>2, <2>1, <2>2, <2>3, <2>4, MovedCardinality
<1>5. IsFiniteSet(A) /\ Cardinality(A) \in Nat
  BY PositionsFinite
<1>6. Cardinality(B) \in Nat
  BY <1>4, FS_CardinalityType
<1>7. Cardinality(A \cup B) = Cardinality(A) + Cardinality(B)
  <2> HIDE DEF A, B
  <2>1. Cardinality(A \cup B) = Cardinality(A) + Cardinality(B) - Cardinality(A \cap B)
    BY <1>4, <1>5, FS_Union
  <2>2. Cardinality(A \cap B) = 0
    BY <1>3, FS_EmptySet
  <2> QED  BY <1>5, <1>6, <2>1, <2>2
<1> QED  BY <1>3, <1>4, <1>7 DEF p
-----------------------------------------------------------------------------
(* What a queue contains, whatever the order.                              *)

\* A queue has no more elements than entries.
LEMMA RangeBound ==
  ASSUME NEW T, NEW q \in Seq(T), NEW S \in SUBSET DOMAIN q
  PROVE  LET R == {q[i] : i \in S}
         IN  IsFiniteSet(R) /\ IsFiniteSet(S) /\ Cardinality(R) <= Cardinality(S)
<1> DEFINE R == {q[i] : i \in S}
           f == [i \in S |-> q[i]]
<1>1. IsFiniteSet(S)
  BY FS_Interval, FS_Subset, LenProperties
<1>2. f \in [S -> R] /\ \A t \in R : \E i \in S : f[i] = t
  OBVIOUS
<1>3. f \in Surjection(S, R)
  BY <1>2, Fun_IsSurj
<1> HIDE DEF f, R
<1>4. IsFiniteSet(R) /\ Cardinality(R) <= Cardinality(S)
  BY <1>1, <1>3, FS_Surjection
<1> QED  BY <1>1, <1>4 DEF R

LEMMA RangeFinite ==
  ASSUME NEW T, NEW q \in Seq(T)
  PROVE  IsFiniteSet(Range(q)) /\ Cardinality(Range(q)) <= Len(q)
<1>1. DOMAIN q = 1 .. Len(q) /\ Len(q) \in Nat
  BY LenProperties
<1>2. Cardinality(DOMAIN q) = Len(q)
  <2>1. Cardinality(1 .. Len(q)) = IF 1 > Len(q) THEN 0 ELSE Len(q) - 1 + 1
    BY <1>1, FS_Interval
  <2> QED  BY <1>1, <2>1
<1>3. Range(q) = {q[i] : i \in DOMAIN q}
  BY DEF Range
<1>4. DOMAIN q \in SUBSET DOMAIN q
  OBVIOUS
<1> DEFINE D == DOMAIN q
<1> HIDE DEF D
<1>5. IsFiniteSet({q[i] : i \in D}) /\ Cardinality({q[i] : i \in D}) <= Cardinality(D)
  BY <1>4, RangeBound DEF D
<1> QED  BY <1>2, <1>3, <1>5 DEF D

LEMMA RangeAppend ==
  ASSUME NEW T, NEW q \in Seq(T), NEW e \in T
  PROVE  Range(Append(q, e)) = Range(q) \cup {e}
<1>1. Len(q) \in Nat /\ Append(q, e) \in Seq(T) /\ Len(Append(q, e)) = Len(q) + 1
  BY AppendProperties, LenProperties
<1>2. /\ \A i \in 1 .. Len(q) : Append(q, e)[i] = q[i]
      /\ Append(q, e)[Len(q) + 1] = e
  BY AppendProperties
<1>3. /\ Range(q) = {q[i] : i \in 1 .. Len(q)}
      /\ Range(Append(q, e)) = {Append(q, e)[i] : i \in 1 .. Len(q) + 1}
  BY <1>1, RangeEquality
<1>4. 1 .. Len(q) + 1 = (1 .. Len(q)) \cup {Len(q) + 1}
  BY <1>1
<1> QED  BY <1>2, <1>3, <1>4

LEMMA RangeTail ==
  ASSUME NEW T, NEW q \in Seq(T), q # << >>
  PROVE  Range(q) = Range(Tail(q)) \cup {Head(q)}
<1>1. /\ Len(q) \in Nat /\ Len(q) >= 1 /\ Head(q) = q[1]
      /\ Tail(q) \in Seq(T) /\ Len(Tail(q)) = Len(q) - 1
      /\ \A i \in 1 .. Len(q) - 1 : Tail(q)[i] = q[i + 1]
  BY HeadTailProperties, LenProperties, EmptySeq
<1>2. /\ Range(q) = {q[i] : i \in 1 .. Len(q)}
      /\ Range(Tail(q)) = {Tail(q)[i] : i \in 1 .. Len(q) - 1}
  <2>1. Range(q) = {q[i] : i \in 1 .. Len(q)}
    BY RangeEquality
  <2>2. Tail(q) \in Seq(T) /\ Len(Tail(q)) = Len(q) - 1
    BY <1>1
  <2>3. Range(Tail(q)) = {Tail(q)[i] : i \in 1 .. Len(Tail(q))}
    BY <2>2, RangeEquality
  <2> QED  BY <2>1, <2>2, <2>3
<1>3. ASSUME NEW i \in 1 .. Len(q)
      PROVE  q[i] \in Range(Tail(q)) \cup {q[1]}
  <2>1. CASE i = 1
    BY <2>1
  <2>2. CASE i # 1
    <3>1. i - 1 \in 1 .. Len(q) - 1 /\ (i - 1) + 1 = i
      BY <1>1, <2>2
    <3> QED  BY <3>1, <1>1, <1>2
  <2> QED  BY <2>1, <2>2
<1>4. ASSUME NEW i \in 1 .. Len(q) - 1
      PROVE  Tail(q)[i] \in Range(q)
  <2>1. i + 1 \in 1 .. Len(q) /\ Tail(q)[i] = q[i + 1]
    BY <1>1
  <2> QED  BY <2>1, <1>2
<1>5. q[1] \in Range(q)
  BY <1>1, <1>2
<1> QED  BY <1>1, <1>2, <1>3, <1>4, <1>5

\* A queue cut in two keeps its elements.
LEMMA RangeSplit ==
  ASSUME NEW T, NEW q \in Seq(T), NEW k \in 0 .. Len(q)
  PROVE  Range(q) = Range(SubSeq(q, 1, k)) \cup Range(SubSeq(q, k + 1, Len(q)))
<1> DEFINE a == SubSeq(q, 1, k)
           b == SubSeq(q, k + 1, Len(q))
<1>1. Len(q) \in Nat /\ k \in Nat /\ k <= Len(q) /\ \A i \in 1 .. Len(q) : q[i] \in T
  BY LenProperties, ElementOfSeq
<1>2. a \in Seq(T) /\ Len(a) = k /\ \A i \in 1 .. k : a[i] = q[i]
  <2>1. /\ a \in Seq(T) /\ Len(a) = IF 1 <= k THEN k - 1 + 1 ELSE 0
        /\ \A i \in 1 .. k - 1 + 1 : a[i] = q[1 + i - 1]
    BY <1>1, SubSeqProperties
  <2> HIDE DEF a
  <2>2. k - 1 + 1 = k /\ (~ 1 <= k => k = 0)
    BY <1>1
  <2>3. Len(a) = k
    BY <2>1, <2>2
  <2>4. ASSUME NEW i \in 1 .. k
        PROVE  a[i] = q[i]
    <3>1. 1 + i - 1 = i /\ i \in 1 .. k - 1 + 1
      BY <2>2
    <3> QED  BY <3>1, <2>1
  <2> QED  BY <2>1, <2>3, <2>4
<1>3. b \in Seq(T) /\ Len(b) = Len(q) - k /\ \A i \in 1 .. Len(q) - k : b[i] = q[k + i]
  <2>1. /\ b \in Seq(T) /\ Len(b) = IF k + 1 <= Len(q) THEN Len(q) - (k + 1) + 1 ELSE 0
        /\ \A i \in 1 .. Len(q) - (k + 1) + 1 : b[i] = q[k + 1 + i - 1]
    BY <1>1, SubSeqProperties
  <2> HIDE DEF b
  <2>2. Len(q) - (k + 1) + 1 = Len(q) - k /\ (~ k + 1 <= Len(q) => Len(q) - k = 0)
    BY <1>1
  <2>3. Len(b) = Len(q) - k
    BY <2>1, <2>2
  <2>4. ASSUME NEW i \in 1 .. Len(q) - k
        PROVE  b[i] = q[k + i]
    <3>1. i \in 1 .. Len(q) - (k + 1) + 1
      BY <2>2
    <3>2. i \in Int /\ k + 1 + i - 1 = k + i
      BY <1>1
    <3> QED  BY <3>1, <3>2, <2>1
  <2> QED  BY <2>1, <2>3, <2>4
<1> HIDE DEF a, b
<1>4. /\ Range(q) = {q[i] : i \in 1 .. Len(q)}
      /\ Range(a) = {a[i] : i \in 1 .. k}
      /\ Range(b) = {b[i] : i \in 1 .. Len(q) - k}
  <2>1. Range(q) = {q[i] : i \in 1 .. Len(q)}
    BY RangeEquality
  <2>2. a \in Seq(T) /\ b \in Seq(T) /\ Len(a) = k /\ Len(b) = Len(q) - k
    BY <1>2, <1>3
  <2>3. Range(a) = {a[i] : i \in 1 .. Len(a)}
    BY <2>2, RangeEquality
  <2>4. Range(b) = {b[i] : i \in 1 .. Len(b)}
    BY <2>2, RangeEquality
  <2> QED  BY <2>1, <2>2, <2>3, <2>4
<1>5. ASSUME NEW i \in 1 .. Len(q)
      PROVE  q[i] \in Range(a) \cup Range(b)
  <2>1. CASE i <= k
    <3>1. i \in 1 .. k
      BY <1>1, <2>1
    <3> QED  BY <3>1, <1>2, <1>4
  <2>2. CASE i > k
    <3>1. i - k \in 1 .. Len(q) - k /\ k + (i - k) = i
      BY <1>1, <2>2
    <3> QED  BY <3>1, <1>3, <1>4
  <2> QED  BY <2>1, <2>2, <1>1
<1>6. ASSUME NEW i \in 1 .. k
      PROVE  a[i] \in Range(q)
  <2>1. i \in 1 .. Len(q)
    BY <1>1
  <2> QED  BY <2>1, <1>2, <1>4
<1>7. ASSUME NEW i \in 1 .. Len(q) - k
      PROVE  b[i] \in Range(q)
  <2>1. k + i \in 1 .. Len(q)
    BY <1>1
  <2> QED  BY <2>1, <1>3, <1>4
<1> QED  BY <1>4, <1>5, <1>6, <1>7 DEF a, b

-----------------------------------------------------------------------------
(* Positions in a ring of c slots: remainders modulo c.                    *)

LEMMA ModDef ==
  ASSUME NEW k \in Nat, NEW c \in Nat, c > 0
  PROVE  /\ k % c \in 0 .. c - 1
         /\ k \div c \in Nat
         /\ k = c * (k \div c) + (k % c)
BY SMTT(30)

LEMMA ProdStep ==
  ASSUME NEW c \in Nat, c > 0, NEW p \in Int, NEW q \in Int, p < q
  PROVE  c * p + c <= c * q
<1>1. q - p >= 1
  OBVIOUS
<1>2. c * (q - p) >= c
  BY <1>1, SMTT(30)
<1>3. c * (q - p) = c * q - c * p
  BY SMTT(30)
<1>4. c * q \in Int /\ c * p \in Int
  OBVIOUS
<1> QED  BY <1>2, <1>3, <1>4

\* Quotient and remainder are determined.
LEMMA DivUnique ==
  ASSUME NEW c \in Nat, c > 0, NEW p \in Int, NEW q \in Int,
         NEW r \in 0 .. c - 1, NEW s \in 0 .. c - 1, c * p + r = c * q + s
  PROVE  p = q /\ r = s
<1> c * p \in Int /\ c * q \in Int
  OBVIOUS
<1>1. CASE p < q
  BY <1>1, ProdStep
<1>2. CASE q < p
  BY <1>2, ProdStep
<1>3. CASE p = q
  BY <1>3
<1> QED  BY <1>1, <1>2, <1>3

LEMMA ModUnique ==
  ASSUME NEW k \in Nat, NEW c \in Nat, c > 0, NEW q \in Int, NEW r \in 0 .. c - 1,
         k = c * q + r
  PROVE  k % c = r
BY ModDef, DivUnique

\* One position on.
LEMMA ModStep ==
  ASSUME NEW k \in Nat, NEW c \in Nat, c > 0
  PROVE  (k + 1) % c = IF k % c = c - 1 THEN 0 ELSE (k % c) + 1
<1> DEFINE q == k \div c
           r == k % c
<1>1. q \in Nat /\ r \in 0 .. c - 1 /\ k = c * q + r
  BY ModDef
<1> HIDE DEF q, r
<1>2. c * q \in Int /\ c * (q + 1) = c * q + c
  BY <1>1, SMTT(30)
<1>3. CASE r = c - 1
  <2>1. k + 1 = c * (q + 1) + 0 /\ k + 1 \in Nat /\ q + 1 \in Int /\ 0 \in 0 .. c - 1
    BY <1>1, <1>2, <1>3
  <2>2. (k + 1) % c = 0
    BY <2>1, ModUnique
  <2> QED  BY <2>2, <1>3 DEF r
<1>4. CASE r # c - 1
  <2>1. k + 1 = c * q + (r + 1) /\ r + 1 \in 0 .. c - 1
    BY <1>1, <1>2, <1>4
  <2>2. (k + 1) % c = r + 1
    BY <2>1, <1>1, ModUnique
  <2> QED  BY <2>2, <1>4 DEF r
<1> QED  BY <1>3, <1>4

\* Less than a round apart, positions have slots of their own.
LEMMA ModDist ==
  ASSUME NEW k \in Nat, NEW l \in Nat, NEW c \in Nat, c > 0, k < l, l < k + c
  PROVE  k % c # l % c
<1> DEFINE p == k \div c
           q == l \div c
           r == k % c
<1> SUFFICES ASSUME r = l % c
             PROVE  FALSE
  OBVIOUS
<1>1. p \in Nat /\ q \in Nat /\ r \in 0 .. c - 1 /\ k = c * p + r /\ l = c * q + r
  BY ModDef
<1> HIDE DEF p, q, r
<1>2. c * p \in Int /\ c * q \in Int
  BY <1>1
<1>3. CASE q <= p
  <2>1. CASE q = p
    BY <2>1, <1>1, <1>2
  <2>2. CASE q < p
    BY <2>2, <1>1, <1>2, ProdStep
  <2> QED  BY <1>3, <2>1, <2>2, <1>1
<1>4. CASE p < q
  BY <1>4, <1>1, <1>2, ProdStep
<1> QED  BY <1>3, <1>4, <1>1

\* A round apart, they share one.
LEMMA ModFull ==
  ASSUME NEW k \in Nat, NEW c \in Nat, c > 0
  PROVE  (k + c) % c = k % c
<1> DEFINE q == k \div c
           r == k % c
<1>1. q \in Nat /\ r \in 0 .. c - 1 /\ k = c * q + r
  BY ModDef
<1> HIDE DEF q, r
<1>2. c * q \in Int /\ c * (q + 1) = c * q + c
  BY <1>1, SMTT(30)
<1>3. k + c = c * (q + 1) + r
  BY <1>1, <1>2
<1>4. k + c \in Nat /\ q + 1 \in Int
  BY <1>1
<1>5. (k + c) % c = r
  BY <1>1, <1>3, <1>4, ModUnique
<1> QED  BY <1>5 DEF r

LEMMA ModSmall ==
  ASSUME NEW x \in Int, NEW c \in Nat, c > 0, x > -c, x < c, x # 0
  PROVE  x % c > 0
BY SMTT(30)

-----------------------------------------------------------------------------
(* The part of a sequence behind what was popped.                          *)

\* The positions of q behind h that hold a member of S.
Window(q, h, S) == {k \in h + 1 .. Len(q) : q[k] \in S}

LEMMA WindowFinite ==
  ASSUME NEW T, NEW q \in Seq(T), NEW h \in Nat, h <= Len(q), NEW S
  PROVE  /\ IsFiniteSet(Window(q, h, S)) /\ Cardinality(Window(q, h, S)) \in Nat
         /\ Cardinality(Window(q, h, S)) <= Len(q) - h
         /\ Cardinality(Window(q, h, S)) = 0 <=> \A k \in h + 1 .. Len(q) : q[k] \notin S
<1>1. Len(q) \in Nat
  BY LenProperties
<1> DEFINE A == h + 1 .. Len(q)
           W == Window(q, h, S)
<1>2. IsFiniteSet(A) /\ Cardinality(A) = Len(q) - h
  <2>1. h + 1 \in Int /\ Len(q) \in Int
    BY <1>1
  <2>2. /\ IsFiniteSet(A)
        /\ Cardinality(A) = IF h + 1 > Len(q) THEN 0 ELSE Len(q) - (h + 1) + 1
    BY <2>1, FS_Interval
  <2> QED  BY <1>1, <2>2
<1>3. W \in SUBSET A /\ (W = {} <=> \A k \in A : q[k] \notin S)
  BY DEF Window
<1> HIDE DEF A, W
<1>4. IsFiniteSet(W) /\ Cardinality(W) <= Cardinality(A) /\ Cardinality(W) \in Nat
  BY <1>2, <1>3, FS_Subset, FS_CardinalityType
<1>5. Cardinality(W) = 0 <=> W = {}
  BY <1>4, FS_EmptySet
<1> QED  BY <1>2, <1>3, <1>4, <1>5 DEF A, W

LEMMA WindowAppend ==
  ASSUME NEW T, NEW q \in Seq(T), NEW e \in T, NEW h \in Nat, h <= Len(q), NEW S
  PROVE  Cardinality(Window(Append(q, e), h, S)) =
            Cardinality(Window(q, h, S)) + (IF e \in S THEN 1 ELSE 0)
<1> DEFINE p == Append(q, e)
           n == Len(q) + 1
           V == Window(q, h, S)
           W == Window(p, h, S)
<1>1. /\ Len(q) \in Nat /\ p \in Seq(T) /\ Len(p) = n /\ p[n] = e
      /\ \A i \in 1 .. Len(q) : p[i] = q[i]
  BY AppendProperties, LenProperties
<1> HIDE DEF p
<1>2. W = IF e \in S THEN V \cup {n} ELSE V
  <2>1. \A k \in Nat : k \in h + 1 .. Len(p) <=> k \in h + 1 .. Len(q) \/ k = n
    BY <1>1
  <2>2. \A k \in h + 1 .. Len(q) : p[k] = q[k] /\ k # n
    BY <1>1
  <2>3. n \in Nat /\ n \notin h + 1 .. Len(q)
    BY <1>1
  <2> QED  BY <1>1, <2>1, <2>2, <2>3 DEF Window
<1>3. n \notin V
  BY <1>1 DEF Window
<1>4. IsFiniteSet(V) /\ Cardinality(V) \in Nat
  BY WindowFinite
<1> HIDE DEF V, W, n
<1>5. Cardinality(V \cup {n}) = Cardinality(V) + 1
  BY <1>3, <1>4, FS_AddElement
<1> QED  BY <1>2, <1>4, <1>5 DEF V, W, p

LEMMA WindowPop ==
  ASSUME NEW T, NEW q \in Seq(T), NEW h \in Nat, h < Len(q), NEW S
  PROVE  Cardinality(Window(q, h + 1, S)) =
            Cardinality(Window(q, h, S)) - (IF q[h + 1] \in S THEN 1 ELSE 0)
<1> DEFINE V == Window(q, h, S)
           W == Window(q, h + 1, S)
           n == h + 1
<1>1. Len(q) \in Nat
  BY LenProperties
<1>2. W = V \ {n} /\ (n \in V <=> q[n] \in S)
  BY <1>1 DEF Window
<1>3. IsFiniteSet(V) /\ Cardinality(V) \in Nat
  BY <1>1, WindowFinite
<1> HIDE DEF V, W, n
<1>4. Cardinality(V \ {n}) = IF n \in V THEN Cardinality(V) - 1 ELSE Cardinality(V)
  BY <1>3, FS_RemoveElement
<1>5. Cardinality(W) = Cardinality(V) - (IF q[n] \in S THEN 1 ELSE 0)
  BY <1>2, <1>3, <1>4
<1> QED  BY <1>5 DEF V, W, n


\* A set of natural numbers has a least one.
LEMMA LeastElement ==
  ASSUME NEW S \in SUBSET Nat, S # {}
  PROVE  \E x \in S : \A y \in S : x <= y
<1>1. PICK n \in S : n \in Nat
  OBVIOUS
<1> DEFINE I == {j \in 0 .. n : \A y \in S : j <= y}
           m == Cardinality(I)
<1>2. IsFiniteSet(0 .. n) /\ I \in SUBSET (0 .. n)
  BY <1>1, FS_Interval
<1>3. IsFiniteSet(I) /\ m \in Nat
  BY <1>2, FS_Subset, FS_CardinalityType
<1>4. \A i \in I : 0 .. i \in SUBSET I
  BY <1>1
<1>5. 0 \in I
  BY <1>1
<1>6. \A j \in Nat : j \in I <=> \A y \in S : j <= y
  BY <1>1
<1> HIDE DEF I
<1>7. \A i \in I : i + 1 <= m
  <2> SUFFICES ASSUME NEW i \in I
               PROVE  i + 1 <= m
    OBVIOUS
  <2>1. i \in Nat /\ 0 .. i \in SUBSET I
    BY <1>1, <1>2, <1>4
  <2>2. Cardinality(0 .. i) = i + 1
    BY <2>1, FS_Interval
  <2> QED  BY <2>1, <2>2, <1>3, FS_Subset
<1>8. m >= 1 /\ m - 1 \in Nat /\ (m - 1) + 1 = m
  BY <1>3, <1>5, <1>7
<1> DEFINE x == m - 1
           J == 0 .. x
<1>9. I = J
  <2>1. IsFiniteSet(J) /\ Cardinality(J) = m
    <3>1. 0 \in Int /\ x \in Int /\ ~ 0 > x /\ x - 0 + 1 = m
      BY <1>8
    <3> QED  BY <3>1, FS_Interval
  <2>2. I \in SUBSET J
    BY <1>1, <1>2, <1>3, <1>7
  <2> HIDE DEF J
  <2> QED  BY <2>1, <2>2, FS_Subset
<1>10. x \in I /\ m \notin I
  BY <1>8, <1>9
<1>11. \A y \in S : x <= y
  BY <1>6, <1>8, <1>10
<1>12. x \in S
  <2> SUFFICES ASSUME x \notin S
               PROVE  m \in I
    BY <1>10
  <2>1. \A y \in S : m <= y
    BY <1>8, <1>11
  <2> QED  BY <1>3, <1>6, <2>1
<1> QED  BY <1>11, <1>12

\* Induction, for a property given as a set.
LEMMA SetInduction ==
  ASSUME NEW S, 0 \in S, \A n \in Nat : n \in S => n + 1 \in S
  PROVE  \A n \in Nat : n \in S
<1> SUFFICES ASSUME {n \in Nat : n \notin S} # {}
             PROVE  FALSE
  OBVIOUS
<1> DEFINE M == {n \in Nat : n \notin S}
<1>1. PICK x \in M : \A y \in M : x <= y
  BY LeastElement
<1>2. x \in Nat /\ x # 0 /\ x \notin S
  BY <1>1
<1>3. x - 1 \in Nat /\ (x - 1) + 1 = x
  BY <1>2
<1>4. x - 1 \in M
  BY <1>2, <1>3
<1>5. x <= x - 1
  BY <1>1, <1>4
<1> QED  BY <1>2, <1>5

\* The sums of the first members of g: a recursive function has a value.
LEMMA RunningSum ==
  ASSUME NEW k \in Nat, NEW g, \A m \in 1 .. k : g[m] \in Int
  PROVE  \E f : /\ f = [m \in 0 .. k |-> IF m = 0 THEN 0 ELSE f[m - 1] + g[m]]
                /\ \A m \in 0 .. k : f[m] \in Int
<1> DEFINE Sums(j) == {f \in [0 .. j -> Int] :
                         f[0] = 0 /\ \A m \in 1 .. j : f[m] = f[m - 1] + g[m]}
           S == {j \in Nat : j <= k => Sums(j) # {}}
<1>1. 0 \in S
  <2>1. [m \in 0 .. 0 |-> 0] \in Sums(0)
    OBVIOUS
  <2> QED  BY <2>1
<1>2. ASSUME NEW n \in Nat, n \in S  PROVE n + 1 \in S
  <2> SUFFICES ASSUME n + 1 <= k  PROVE Sums(n + 1) # {}
    OBVIOUS
  <2>1. PICK f \in [0 .. n -> Int] : f[0] = 0 /\ \A m \in 1 .. n : f[m] = f[m - 1] + g[m]
    BY <1>2
  <2> DEFINE h == [m \in 0 .. n + 1 |-> IF m <= n THEN f[m] ELSE f[n] + g[n + 1]]
  <2>2. f[n] \in Int /\ g[n + 1] \in Int /\ \A m \in 0 .. n : f[m] \in Int
    BY <2>1
  <2>3. h \in [0 .. n + 1 -> Int] /\ h[0] = 0
    BY <2>1, <2>2
  <2>4. ASSUME NEW m \in 1 .. n + 1  PROVE h[m] = h[m - 1] + g[m]
    <3>1. m - 1 \in 0 .. n /\ h[m - 1] = f[m - 1]
      OBVIOUS
    <3>2. CASE m <= n
      BY <2>1, <3>1, <3>2
    <3>3. CASE m = n + 1
      BY <3>1, <3>3
    <3> QED  BY <3>2, <3>3
  <2> HIDE DEF h
  <2>5. h \in Sums(n + 1)
    BY <2>3, <2>4
  <2> QED  BY <2>5
<1>3. k \in S
  <2> HIDE DEF S
  <2> QED  BY <1>1, <1>2, SetInduction
<1>4. PICK f \in [0 .. k -> Int] : f[0] = 0 /\ \A m \in 1 .. k : f[m] = f[m - 1] + g[m]
  BY <1>3
<1>5. \A m \in 0 .. k : f[m] = IF m = 0 THEN 0 ELSE f[m - 1] + g[m]
  BY <1>4
<1>6. f = [m \in 0 .. k |-> IF m = 0 THEN 0 ELSE f[m - 1] + g[m]]
  <2>1. DOMAIN f = 0 .. k
    BY <1>4
  <2> QED  BY <1>4, <1>5, <2>1
<1> QED  BY <1>4, <1>6

LEMMA RunningSumType ==
  ASSUME NEW k \in Nat, NEW g, \A m \in 1 .. k : g[m] \in Int,
         NEW f, f = [m \in 0 .. k |-> IF m = 0 THEN 0 ELSE f[m - 1] + g[m]]
  PROVE  \A m \in 0 .. k : f[m] \in Int
<1> DEFINE S == {m \in Nat : m <= k => f[m] \in Int}
<1>0. \A m \in 0 .. k : f[m] = IF m = 0 THEN 0 ELSE f[m - 1] + g[m]
  OBVIOUS
<1>1. 0 \in S
  BY <1>0
<1>2. ASSUME NEW m \in Nat, m \in S  PROVE m + 1 \in S
  <2> SUFFICES ASSUME m + 1 <= k  PROVE f[m + 1] \in Int
    OBVIOUS
  <2>1. f[m] \in Int /\ g[m + 1] \in Int /\ m + 1 \in 0 .. k /\ (m + 1) - 1 = m
    BY <1>2
  <2> QED  BY <1>0, <2>1
<1> HIDE DEF S
<1>3. \A m \in Nat : m \in S
  BY <1>1, <1>2, SetInduction
<1> QED  BY <1>3 DEF S
=============================================================================
