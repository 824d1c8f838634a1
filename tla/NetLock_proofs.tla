--------------------------- MODULE NetLock_proofs ---------------------------
(***************************************************************************)
(* Proofs about one lock of the switch, for any finite set of requests,    *)
(* any bounds and width of the registers and any layout of the server: the *)
(* type invariant, and the exactness of the count of requests at the       *)
(* server that the switch keeps.  Both hold in every regime: rings that    *)
(* overflow, slow recirculation, and grants that should not have been.     *)
(* For locks that are only shared, where no pass notifies anybody, also    *)
(* the exactness of the count of empty slots and that no reader is left    *)
(* behind, though the ring overflows and requests come back.  For rings    *)
(* with a slot for every request, readers and writers: exclusion, whom a   *)
(* recirculated pass notifies, that nobody is left behind, the count of    *)
(* empty slots, and that the switch implements FifoLock.                   *)
(***************************************************************************)
EXTENDS NetLockFifo, Counting

USE RequestsAssumption, BoundsAssumption, WidthAssumption, LayoutAssumption

-----------------------------------------------------------------------------
(* Registers.                                                              *)

LEMMA RegisterOps ==
  ASSUME NEW n \in Register
  PROVE  Incr(n) \in Register /\ Decr(n) \in Register
BY DEF Register, Incr, Decr

LEMMA SlotOps ==
  ASSUME NEW i \in Slots
  PROVE  After(i) \in Slots
BY DEF Slots, After

LEMMA InitTypeOK == Init => TypeOK
<1> SUFFICES ASSUME Init
             PROVE  TypeOK
  OBVIOUS
<1>1. Left \in Slots /\ Capacity \in Register /\ 0 \in Register
  BY DEF Slots, Capacity, Register
<1>2. SwitchTypeOK
  BY <1>1 DEF Init, SwitchInit, SwitchTypeOK
<1>3. QED
  BY <1>2 DEF Init, TypeOK

LEMMA EnqueueType ==
  ASSUME SwitchTypeOK, NEW r \in Requests, Enqueue(r),
         emptySlots' \in Register, lengthInServer' \in Register
  PROVE  SwitchTypeOK'
<1>1. tail' \in Slots /\ head' \in Slots
  BY SlotOps DEF SwitchTypeOK, Enqueue
<1>2. numExclusive' \in Register /\ numShared' \in Register
  BY RegisterOps DEF SwitchTypeOK, Enqueue
<1>3. slot' \in [Slots -> Requests \cup {NoRequest}]
  BY DEF SwitchTypeOK, Enqueue
<1>4. QED
  BY <1>1, <1>2, <1>3 DEF SwitchTypeOK

LEMMA FollowUpType ==
  ASSUME SwitchTypeOK
  PROVE  FollowUp \in Seq(RecirculatedPacket)
<1>1. head \in Slots /\ After(head) \in Slots /\ tail \in Slots
  BY SlotOps DEF SwitchTypeOK
<1>2. IsExclusive(slot[head]) \in BOOLEAN
  BY DEF IsExclusive
<1>3. [flag |-> 1, dequeuedExclusive |-> IsExclusive(slot[head]),
       curHead |-> After(head), curTail |-> tail] \in RecirculatedPacket
  BY <1>1, <1>2 DEF RecirculatedPacket
<1>4. QED
  BY <1>3 DEF FollowUp

LEMMA NextPassType ==
  ASSUME NEW p \in RecirculatedPacket
  PROVE  NextPass(p) \in Seq(RecirculatedPacket)
<1>1. [p EXCEPT !.flag = 2, !.curHead = After(@)] \in RecirculatedPacket
  BY SlotOps DEF RecirculatedPacket
<1>2. QED
  BY <1>1 DEF NextPass

\* The server pushes back the first requests of its buffer and keeps the rest.
LEMMA PushBackSplits ==
  ASSUME buffer \in Seq(Requests)
  PROVE  /\ SubSeq(buffer, 1, PushBackCount) \in Seq(Requests)
         /\ SubSeq(buffer, PushBackCount + 1, Len(buffer)) \in Seq(Requests)
         /\ Len(SubSeq(buffer, 1, PushBackCount))
              + Len(SubSeq(buffer, PushBackCount + 1, Len(buffer))) = Len(buffer)
<1>1. Len(buffer) \in Nat /\ PushBackCount \in 0 .. Len(buffer)
  BY LenProperties DEF PushBackCount
<1>2. \A i \in 1 .. Len(buffer) : buffer[i] \in Requests
  BY ElementOfSeq
<1> DEFINE k == PushBackCount
           n == Len(buffer)
<1> HIDE DEF k, n
<1>3. k \in Nat /\ n \in Nat /\ k <= n
  BY <1>1 DEF k, n
<1>4. SubSeq(buffer, 1, k) \in Seq(Requests) /\ Len(SubSeq(buffer, 1, k)) = k
  <2>1. \A i \in 1 .. k : buffer[i] \in Requests
    BY <1>2, <1>3 DEF n
  <2>2. Len(SubSeq(buffer, 1, k)) = IF 1 <= k THEN k - 1 + 1 ELSE 0
    BY <2>1, <1>3, SubSeqProperties
  <2>3. QED
    BY <2>1, <2>2, <1>3, SubSeqProperties
<1>5. /\ SubSeq(buffer, k + 1, n) \in Seq(Requests)
      /\ Len(SubSeq(buffer, k + 1, n)) = n - k
  <2>1. \A i \in k + 1 .. n : buffer[i] \in Requests
    BY <1>2, <1>3 DEF n
  <2>2. Len(SubSeq(buffer, k + 1, n)) = IF k + 1 <= n THEN n - (k + 1) + 1 ELSE 0
    BY <2>1, <1>3, SubSeqProperties
  <2>3. QED
    BY <2>1, <2>2, <1>3, SubSeqProperties
<1>6. /\ SubSeq(buffer, 1, k) \in Seq(Requests)
      /\ SubSeq(buffer, k + 1, n) \in Seq(Requests)
      /\ Len(SubSeq(buffer, 1, k)) + Len(SubSeq(buffer, k + 1, n)) = n
  BY <1>3, <1>4, <1>5
<1>7. QED
  BY <1>6 DEF k, n
-----------------------------------------------------------------------------
(* The type invariant.                                                     *)

LEMMA NextTypeOK == TypeOK /\ [Next]_vars => TypeOK'
<1> SUFFICES ASSUME TypeOK, [Next]_vars
             PROVE  TypeOK'
  OBVIOUS
<1>0. /\ SwitchTypeOK
      /\ status \in [Requests -> {"idle", "waiting", "granted"}]
      /\ recirculating \in Seq(RecirculatedPacket)
      /\ toServer \in Seq(Packet)
      /\ buffer \in Seq(Requests)
      /\ fromServer \in Seq(Requests)
  BY DEF TypeOK
<1>1. ASSUME NEW r \in Requests, AcquireAtSwitch(r)
      PROVE  TypeOK'
  <2>1. emptySlots' \in Register /\ lengthInServer' \in Register /\ Enqueue(r)
    BY <1>0, <1>1, RegisterOps DEF AcquireAtSwitch, QueueAcquire, SwitchTypeOK
  <2>2. SwitchTypeOK'
    BY <1>0, <2>1, EnqueueType
  <2>3. QED
    BY <1>0, <1>1, <2>2 DEF AcquireAtSwitch, TypeOK, serverVars
<1>2. ASSUME NEW r \in Requests, AcquireForwarded(r)
      PROVE  TypeOK'
  <2>1. SwitchTypeOK'
    BY <1>0, <1>2, RegisterOps DEF AcquireForwarded, ForwardAcquire, SwitchTypeOK
  <2>2. [op |-> "acquire", request |-> r] \in Packet
    BY DEF Packet
  <2>3. toServer' \in Seq(Packet)
    BY <1>0, <1>2, <2>2, AppendProperties DEF AcquireForwarded, Send
  <2>4. QED
    BY <1>0, <1>2, <2>1, <2>3 DEF AcquireForwarded, TypeOK
<1>3. ASSUME NEW r \in Requests, ReleaseAtSwitch(r)
      PROVE  TypeOK'
  <2>1. SwitchTypeOK'
    BY <1>0, <1>3, RegisterOps, SlotOps DEF ReleaseAtSwitch, PopOnRelease, SwitchTypeOK
  <2>2. recirculating' \in Seq(RecirculatedPacket)
    BY <1>0, <1>3, FollowUpType, ConcatProperties DEF ReleaseAtSwitch
  <2>3. QED
    BY <1>0, <1>3, <2>1, <2>2 DEF ReleaseAtSwitch, TypeOK, serverVars
<1>4. ASSUME NEW r \in Requests, ReleaseForwarded(r)
      PROVE  TypeOK'
  <2>1. SwitchTypeOK'
    BY <1>0, <1>4, RegisterOps DEF ReleaseForwarded, ForwardRelease, SwitchTypeOK
  <2>2. [op |-> "release", request |-> r] \in Packet
    BY DEF Packet
  <2>3. toServer' \in Seq(Packet)
    BY <1>0, <1>4, <2>2, AppendProperties DEF ReleaseForwarded, Send
  <2>4. QED
    BY <1>0, <1>4, <2>1, <2>3 DEF ReleaseForwarded, TypeOK
<1>5. ASSUME Recirculate
      PROVE  TypeOK'
  <2> DEFINE p == Head(recirculating)
  <2>1. p \in RecirculatedPacket /\ Tail(recirculating) \in Seq(RecirculatedPacket)
    BY <1>0, <1>5, HeadTailProperties DEF Recirculate
  <2> HIDE DEF p
  <2>2. p.curHead \in Slots
    BY <2>1 DEF RecirculatedPacket
  <2>3. slot[p.curHead] \in Requests \cup {NoRequest}
    BY <1>0, <2>2 DEF SwitchTypeOK
  <2>4. status' \in [Requests -> {"idle", "waiting", "granted"}]
    BY <1>0, <1>5, <2>3 DEF Recirculate, p
  <2>5. recirculating' = Tail(recirculating) \o NextPass(p)
    BY <1>5 DEF Recirculate, p
  <2>6. recirculating' \in Seq(RecirculatedPacket)
    BY <2>1, <2>5, NextPassType, ConcatProperties
  <2>7. SwitchTypeOK'
    BY <1>0, <1>5 DEF Recirculate, switchVars, SwitchTypeOK
  <2>8. QED
    BY <1>0, <1>5, <2>4, <2>6, <2>7 DEF Recirculate, TypeOK, serverVars
<1>6. ASSUME PushBackAtSwitch
      PROVE  TypeOK'
  <2> DEFINE r == Head(fromServer)
  <2>1. r \in Requests /\ Tail(fromServer) \in Seq(Requests)
    BY <1>0, <1>6, HeadTailProperties DEF PushBackAtSwitch
  <2> HIDE DEF r
  <2>2. emptySlots' \in Register /\ lengthInServer' \in Register /\ Enqueue(r)
    BY <1>0, <1>6, RegisterOps DEF PushBackAtSwitch, QueuePushBack, SwitchTypeOK, r
  <2>3. SwitchTypeOK'
    BY <1>0, <2>1, <2>2, EnqueueType
  <2>4. status' \in [Requests -> {"idle", "waiting", "granted"}]
    BY <1>0, <1>6, <2>1 DEF PushBackAtSwitch, r
  <2>5. QED
    BY <1>0, <1>6, <2>1, <2>3, <2>4 DEF PushBackAtSwitch, TypeOK
<1>7. ASSUME ServerBuffers
      PROVE  TypeOK'
  <2>1. Head(toServer) \in Packet /\ Tail(toServer) \in Seq(Packet)
    BY <1>0, <1>7, HeadTailProperties DEF ServerBuffers
  <2>2. buffer' \in Seq(Requests)
    BY <1>0, <1>7, <2>1, AppendProperties DEF ServerBuffers, Packet
  <2>3. SwitchTypeOK'
    BY <1>0, <1>7 DEF ServerBuffers, switchVars, SwitchTypeOK
  <2>4. QED
    BY <1>0, <1>7, <2>1, <2>2, <2>3 DEF ServerBuffers, TypeOK
<1>8. ASSUME ServerPushesBack
      PROVE  TypeOK'
  <2>1. Tail(toServer) \in Seq(Packet)
    BY <1>0, <1>8, HeadTailProperties DEF ServerPushesBack
  <2>2. buffer' \in Seq(Requests) /\ fromServer' \in Seq(Requests)
    BY <1>0, <1>8, PushBackSplits, ConcatProperties DEF ServerPushesBack
  <2>3. SwitchTypeOK'
    BY <1>0, <1>8 DEF ServerPushesBack, switchVars, SwitchTypeOK
  <2>4. QED
    BY <1>0, <1>8, <2>1, <2>2, <2>3 DEF ServerPushesBack, TypeOK
<1>9. CASE UNCHANGED vars
  BY <1>0, <1>9 DEF vars, switchVars, serverVars, TypeOK, SwitchTypeOK
<1>10. QED
  BY <1>1, <1>2, <1>3, <1>4, <1>5, <1>6, <1>7, <1>8, <1>9 DEF Next, Acquire, Release

\* Registers stay within their width and cursors within the lock's bounds,
\* packets, buffer and slots hold requests, whatever overflows or overlaps.
THEOREM TypeCorrect == Spec => []TypeOK
<1>1. QED
  BY InitTypeOK, NextTypeOK, PTL DEF Spec
-----------------------------------------------------------------------------
(* The length of the server's queue, as the switch counts it.              *)

LEMMA AcquiresArePositions ==
  ASSUME NEW q \in Seq(Packet)
  PROVE  Acquires(q) = Positions(q, {p \in Packet : p.op = "acquire"})
<1>1. \A i \in DOMAIN q : q[i] \in Packet
  BY ElementOfSeq, LenProperties
<1>2. QED
  BY <1>1 DEF Acquires, Positions

LEMMA AcquiresCount ==
  ASSUME NEW q \in Seq(Packet)
  PROVE  Cardinality(Acquires(q)) \in Nat
BY AcquiresArePositions, PositionsFinite

LEMMA AppendAcquires ==
  ASSUME NEW q \in Seq(Packet), NEW p \in Packet
  PROVE  Cardinality(Acquires(Append(q, p))) =
            Cardinality(Acquires(q)) + (IF p.op = "acquire" THEN 1 ELSE 0)
<1> DEFINE S == {x \in Packet : x.op = "acquire"}
<1>1. Append(q, p) \in Seq(Packet)
  BY AppendProperties
<1>2. p \in S <=> p.op = "acquire"
  OBVIOUS
<1>3. Acquires(q) = Positions(q, S) /\ Acquires(Append(q, p)) = Positions(Append(q, p), S)
  BY <1>1, AcquiresArePositions
<1> HIDE DEF S
<1>4. QED
  BY <1>2, <1>3, AppendPositions

LEMMA TailAcquires ==
  ASSUME NEW q \in Seq(Packet), q # << >>
  PROVE  Cardinality(Acquires(Tail(q))) =
            Cardinality(Acquires(q)) - (IF Head(q).op = "acquire" THEN 1 ELSE 0)
<1> DEFINE S == {x \in Packet : x.op = "acquire"}
<1>1. Tail(q) \in Seq(Packet) /\ Head(q) = q[1] /\ q[1] \in Packet
  BY HeadTailProperties
<1>2. q[1] \in S <=> Head(q).op = "acquire"
  BY <1>1
<1>3. Acquires(q) = Positions(q, S) /\ Acquires(Tail(q)) = Positions(Tail(q), S)
  BY <1>1, AcquiresArePositions
<1> HIDE DEF S
<1>4. QED
  BY <1>2, <1>3, TailPositions

LEMMA PathLengthType ==
  ASSUME TypeOK
  PROVE  /\ Cardinality(Acquires(toServer)) \in Nat
         /\ Len(buffer) \in Nat /\ Len(fromServer) \in Nat
         /\ ServerPathLength \in Nat
<1>1. Cardinality(Acquires(toServer)) \in Nat
  BY AcquiresCount DEF TypeOK
<1>2. Len(buffer) \in Nat /\ Len(fromServer) \in Nat
  BY LenProperties DEF TypeOK
<1>3. QED
  BY <1>1, <1>2 DEF ServerPathLength

LEMMA InitServerLength == Init => ServerLengthExact
<1> SUFFICES ASSUME Init
             PROVE  ServerLengthExact
  OBVIOUS
<1>1. Acquires(toServer) = {}
  BY DEF Init, Acquires
<1>2. ServerPathLength = 0
  <2>1. Cardinality(Acquires(toServer)) = 0
    BY <1>1, FS_EmptySet
  <2>2. Len(buffer) = 0 /\ Len(fromServer) = 0
    BY DEF Init
  <2>3. QED
    BY <2>1, <2>2 DEF ServerPathLength
<1>3. QED
  BY <1>2 DEF Init, SwitchInit, ServerLengthExact

LEMMA NextServerLength ==
  TypeOK /\ ServerLengthExact /\ [Next]_vars => ServerLengthExact'
<1> SUFFICES ASSUME TypeOK, ServerLengthExact, [Next]_vars
             PROVE  ServerLengthExact'
  OBVIOUS
<1>0. /\ toServer \in Seq(Packet) /\ buffer \in Seq(Requests) /\ fromServer \in Seq(Requests)
      /\ Cardinality(Acquires(toServer)) \in Nat
      /\ Len(buffer) \in Nat /\ Len(fromServer) \in Nat
  BY PathLengthType DEF TypeOK
<1>1. ASSUME UNCHANGED << serverVars, lengthInServer >>
      PROVE  ServerLengthExact'
  BY <1>1 DEF serverVars, ServerLengthExact, ServerPathLength
<1>2. ASSUME NEW r \in Requests, AcquireForwarded(r)
      PROVE  ServerLengthExact'
  <2> DEFINE p == [op |-> "acquire", request |-> r]
  <2>1. p \in Packet /\ p.op = "acquire"
    BY DEF Packet
  <2>2. toServer' = Append(toServer, p) /\ UNCHANGED << buffer, fromServer >>
    BY <1>2 DEF AcquireForwarded, Send
  <2> HIDE DEF p
  <2>3. Cardinality(Acquires(toServer')) = Cardinality(Acquires(toServer)) + 1
    BY <1>0, <2>1, <2>2, AppendAcquires
  <2>4. ServerPathLength' = ServerPathLength + 1
    BY <1>0, <2>2, <2>3 DEF ServerPathLength
  <2>5. lengthInServer' = lengthInServer + 1
    BY <1>2, <1>0 DEF AcquireForwarded, ForwardAcquire, LengthFits, Incr, ServerLengthExact
  <2>6. QED
    BY <2>4, <2>5 DEF ServerLengthExact
<1>3. ASSUME NEW r \in Requests, ReleaseForwarded(r)
      PROVE  ServerLengthExact'
  <2> DEFINE p == [op |-> "release", request |-> r]
  <2>1. p \in Packet /\ p.op # "acquire"
    BY DEF Packet
  <2>2. /\ toServer' = Append(toServer, p)
        /\ UNCHANGED << buffer, fromServer, lengthInServer >>
    BY <1>3 DEF ReleaseForwarded, ForwardRelease, Send
  <2> HIDE DEF p
  <2>3. Cardinality(Acquires(toServer')) = Cardinality(Acquires(toServer))
    BY <1>0, <2>1, <2>2, AppendAcquires
  <2>4. QED
    BY <2>2, <2>3 DEF ServerLengthExact, ServerPathLength
<1>4. ASSUME PushBackAtSwitch
      PROVE  ServerLengthExact'
  <2>1. fromServer # << >> /\ fromServer' = Tail(fromServer) /\ UNCHANGED << toServer, buffer >>
    BY <1>4 DEF PushBackAtSwitch
  <2>2. Len(fromServer) > 0 /\ Len(fromServer') = Len(fromServer) - 1
    BY <1>0, <2>1, HeadTailProperties, EmptySeq
  <2>3. ServerPathLength > 0 /\ ServerPathLength' = ServerPathLength - 1
    BY <1>0, <2>1, <2>2 DEF ServerPathLength
  <2>4. lengthInServer' = lengthInServer - 1
    BY <2>3, <1>4 DEF PushBackAtSwitch, QueuePushBack, Decr, ServerLengthExact
  <2>5. QED
    BY <2>3, <2>4 DEF ServerLengthExact
<1>5. ASSUME ServerBuffers
      PROVE  ServerLengthExact'
  <2>1. /\ toServer # << >> /\ toServer' = Tail(toServer)
        /\ Head(toServer).op = "acquire" /\ Head(toServer) \in Packet
    BY <1>0, <1>5, HeadTailProperties DEF ServerBuffers
  <2>2. Len(buffer') = Len(buffer) + 1
    BY <1>0, <1>5, <2>1, AppendProperties DEF ServerBuffers, Packet
  <2>3. Cardinality(Acquires(toServer')) = Cardinality(Acquires(toServer)) - 1
    BY <1>0, <2>1, TailAcquires
  <2>4. UNCHANGED << fromServer, lengthInServer >>
    BY <1>5 DEF ServerBuffers, switchVars
  <2>5. ServerPathLength' = ServerPathLength
    BY <1>0, <2>2, <2>3, <2>4 DEF ServerPathLength
  <2>6. QED
    BY <2>4, <2>5 DEF ServerLengthExact
<1>6. ASSUME ServerPushesBack
      PROVE  ServerLengthExact'
  <2>1. /\ toServer # << >> /\ toServer' = Tail(toServer)
        /\ Head(toServer).op # "acquire"
    BY <1>6 DEF ServerPushesBack
  <2>2. Cardinality(Acquires(toServer')) = Cardinality(Acquires(toServer))
    BY <1>0, <2>1, TailAcquires
  <2>3. PICK a, b \in Nat : /\ a + b = Len(buffer)
                           /\ Len(fromServer') = Len(fromServer) + a
                           /\ Len(buffer') = b
    <3>1. /\ SubSeq(buffer, 1, PushBackCount) \in Seq(Requests)
          /\ SubSeq(buffer, PushBackCount + 1, Len(buffer)) \in Seq(Requests)
          /\ Len(SubSeq(buffer, 1, PushBackCount))
               + Len(SubSeq(buffer, PushBackCount + 1, Len(buffer))) = Len(buffer)
      BY <1>0, PushBackSplits
    <3>2. /\ Len(SubSeq(buffer, 1, PushBackCount)) \in Nat
          /\ Len(SubSeq(buffer, PushBackCount + 1, Len(buffer))) \in Nat
      BY <3>1, LenProperties
    <3>3. Len(fromServer') = Len(fromServer) + Len(SubSeq(buffer, 1, PushBackCount))
      BY <1>0, <1>6, <3>1, ConcatProperties DEF ServerPushesBack
    <3>4. Len(buffer') = Len(SubSeq(buffer, PushBackCount + 1, Len(buffer)))
      BY <1>6 DEF ServerPushesBack
    <3>5. QED
      BY <3>1, <3>2, <3>3, <3>4
  <2>4. lengthInServer' = lengthInServer
    BY <1>6 DEF ServerPushesBack, switchVars
  <2>5. ServerPathLength' = ServerPathLength
    <3> DEFINE c == Cardinality(Acquires(toServer))
               f == Len(fromServer)
    <3>1. /\ ServerPathLength = c + (a + b) + f
          /\ ServerPathLength' = c + b + (f + a)
      BY <2>2, <2>3 DEF ServerPathLength
    <3>2. c \in Nat /\ f \in Nat
      BY <1>0
    <3> HIDE DEF c, f
    <3>3. QED
      BY <3>1, <3>2
  <2>6. QED
    BY <2>4, <2>5 DEF ServerLengthExact
<1>7. CASE \E r \in Requests : AcquireAtSwitch(r) \/ ReleaseAtSwitch(r)
  BY <1>1, <1>7 DEF AcquireAtSwitch, QueueAcquire, ReleaseAtSwitch, PopOnRelease
<1>8. CASE Recirculate
  BY <1>1, <1>8 DEF Recirculate, switchVars
<1>9. CASE UNCHANGED vars
  BY <1>1, <1>9 DEF vars, switchVars
<1>10. QED
  BY <1>2, <1>3, <1>4, <1>5, <1>6, <1>7, <1>8, <1>9 DEF Next, Acquire, Release

\* meta.length_in_server, which sends a request to the server or keeps it at
\* the switch, counts the requests that are on their way to the server, in its
\* buffer or on their way back, in every order of the packets, and does not
\* wrap.
THEOREM ServerLengthCorrect == Spec => []ServerLengthExact
<1>1. QED
  BY InitTypeOK, NextTypeOK, InitServerLength, NextServerLength, PTL DEF Spec
-----------------------------------------------------------------------------
(* Locks that are only shared, on rings of any size.                       *)
(*                                                                         *)
(* The switch grants every request it queues, so those who wait are those  *)
(* on the path to the server and back.  That nobody is there twice follows *)
(* from counting: the path has as many places as there are who wait.       *)

Waiters == {r \in Requests : status[r] = "waiting"}

\* What the register reads when n requests have a slot.
SlotsFor(n) == IF Capacity - n < 0 THEN Capacity - n + RegisterModulus ELSE Capacity - n

SharedInv ==
  /\ numExclusive = 0
  /\ \A p \in Range(recirculating) : p.flag = 1 /\ ~ p.dequeuedExclusive
  /\ InServerPath = Waiters
  /\ Cardinality(Waiters) = ServerPathLength
  /\ emptySlots = SlotsFor(Cardinality(Held))

LEMMA SlotsForSteps ==
  ASSUME NEW n \in Nat, n + 1 <= Cardinality(Requests)
  PROVE  /\ Decr(SlotsFor(n)) = SlotsFor(n + 1)
         /\ Incr(SlotsFor(n + 1)) = SlotsFor(n)
<1> DEFINE k == Cardinality(Requests)
<1>1. k \in Nat /\ Capacity \in Nat /\ Capacity < RegisterModulus /\ k < RegisterModulus
  BY FS_CardinalityType DEF Capacity
<1>2. n + 1 <= k
  OBVIOUS
<1> HIDE DEF k
<1>3. Decr(SlotsFor(n)) = SlotsFor(n + 1)
  BY <1>1, <1>2 DEF SlotsFor, Decr
<1>4. Incr(SlotsFor(n + 1)) = SlotsFor(n)
  BY <1>1, <1>2 DEF SlotsFor, Incr
<1>5. QED
  BY <1>3, <1>4

LEMMA RequestSets ==
  ASSUME TypeOK
  PROVE  /\ IsFiniteSet(Held) /\ Cardinality(Held) \in Nat
         /\ Cardinality(Held) <= Cardinality(Requests)
         /\ IsFiniteSet(Waiters) /\ Cardinality(Waiters) \in Nat
<1>1. Held \in SUBSET Requests /\ Waiters \in SUBSET Requests
  BY DEF Held, Waiters
<1>2. QED
  BY <1>1, FS_Subset, FS_CardinalityType

AcquireOf(r) == [op |-> "acquire", request |-> r]

LEMMA PathByElements ==
  InServerPath = {r \in Requests : \/ AcquireOf(r) \in Range(toServer)
                                   \/ r \in Range(buffer)
                                   \/ r \in Range(fromServer)}
BY DEF InServerPath, AcquireOf, Range

LEMMA UnionBound ==
  ASSUME NEW S, NEW T, IsFiniteSet(S), IsFiniteSet(T)
  PROVE  IsFiniteSet(S \cup T) /\ Cardinality(S \cup T) <= Cardinality(S) + Cardinality(T)
<1>1. /\ IsFiniteSet(S \cup T) /\ IsFiniteSet(S \cap T)
      /\ Cardinality(S \cup T) = Cardinality(S) + Cardinality(T) - Cardinality(S \cap T)
  BY FS_Union, FS_Intersection
<1>2. /\ Cardinality(S) \in Nat /\ Cardinality(T) \in Nat
      /\ Cardinality(S \cap T) \in Nat
  BY <1>1, FS_CardinalityType
<1>3. QED
  BY <1>1, <1>2

\* No more requests are on the path than it has places.
LEMMA PathBound ==
  ASSUME NEW sent \in Seq(Packet), NEW kept \in Seq(Requests), NEW back \in Seq(Requests)
  PROVE  Cardinality({r \in Requests : \/ AcquireOf(r) \in Range(sent)
                                      \/ r \in Range(kept)
                                      \/ r \in Range(back)})
            <= Cardinality(Acquires(sent)) + Len(kept) + Len(back)
<1> DEFINE A == {sent[i] : i \in Acquires(sent)}
           P == {r \in Requests : AcquireOf(r) \in A}
           B == Range(kept)
           F == Range(back)
           X == {r \in Requests : AcquireOf(r) \in Range(sent) \/ r \in B \/ r \in F}
<1>1. /\ Cardinality(Acquires(sent)) \in Nat
      /\ Len(kept) \in Nat /\ Len(back) \in Nat
  BY AcquiresCount, LenProperties
<1>2. IsFiniteSet(A) /\ Cardinality(A) <= Cardinality(Acquires(sent))
  <2>1. Acquires(sent) \in SUBSET DOMAIN sent
    BY DEF Acquires
  <2>2. QED
    BY <1>1, <2>1, RangeBound
<1>3. IsFiniteSet(P) /\ Cardinality(P) <= Cardinality(A)
  <2> DEFINE f == [r \in P |-> AcquireOf(r)]
  <2>1. f \in [P -> A]
    OBVIOUS
  <2>2. \A r, t \in P : f[r] = f[t] => r = t
    BY DEF AcquireOf
  <2> HIDE DEF f, P, A
  <2>3. f \in Injection(P, A)
    BY <2>1, <2>2, Fun_IsInj
  <2>4. QED
    BY <2>3, <1>2, FS_Injection
<1>4. IsFiniteSet(B) /\ Cardinality(B) <= Len(kept)
  BY RangeFinite
<1>5. IsFiniteSet(F) /\ Cardinality(F) <= Len(back)
  BY RangeFinite
<1>6. X \in SUBSET ((P \cup B) \cup F)
  <2> SUFFICES ASSUME NEW r \in X, r \notin B, r \notin F
               PROVE  r \in P
    OBVIOUS
  <2>1. r \in Requests /\ AcquireOf(r) \in Range(sent)
    OBVIOUS
  <2>2. PICK i \in DOMAIN sent : sent[i] = AcquireOf(r)
    BY <2>1 DEF Range
  <2>3. i \in Acquires(sent)
    BY <2>2 DEF Acquires, AcquireOf
  <2>4. QED
    BY <2>1, <2>2, <2>3
<1> HIDE DEF A, P, B, F, X
<1>7. /\ IsFiniteSet((P \cup B) \cup F)
      /\ Cardinality((P \cup B) \cup F) <= Cardinality(P) + Cardinality(B) + Cardinality(F)
  <2>1. IsFiniteSet(P \cup B) /\ Cardinality(P \cup B) <= Cardinality(P) + Cardinality(B)
    BY <1>3, <1>4, UnionBound
  <2>2. /\ IsFiniteSet((P \cup B) \cup F)
        /\ Cardinality((P \cup B) \cup F) <= Cardinality(P \cup B) + Cardinality(F)
    BY <2>1, <1>5, UnionBound
  <2>3. /\ Cardinality(P) \in Nat /\ Cardinality(B) \in Nat /\ Cardinality(F) \in Nat
        /\ Cardinality(P \cup B) \in Nat /\ Cardinality((P \cup B) \cup F) \in Nat
    BY <1>3, <1>4, <1>5, <2>1, <2>2, FS_CardinalityType
  <2>4. QED
    BY <2>1, <2>2, <2>3
<1>8. /\ IsFiniteSet(X)
      /\ Cardinality(X) <= Cardinality((P \cup B) \cup F)
  BY <1>6, <1>7, FS_Subset
<1>9. /\ Cardinality(P) \in Nat /\ Cardinality(A) \in Nat /\ Cardinality(B) \in Nat
      /\ Cardinality(F) \in Nat /\ Cardinality((P \cup B) \cup F) \in Nat
      /\ Cardinality(X) \in Nat
  BY <1>2, <1>3, <1>4, <1>5, <1>7, <1>8, FS_CardinalityType
<1>10. Cardinality(X) <= Cardinality(Acquires(sent)) + Len(kept) + Len(back)
  BY <1>1, <1>2, <1>3, <1>4, <1>5, <1>7, <1>8, <1>9
<1>11. QED
  BY <1>10 DEF X, B, F

LEMMA InitShared == Init => SharedInv
<1> SUFFICES ASSUME Init
             PROVE  SharedInv
  OBVIOUS
<1>1. Held = {} /\ Waiters = {}
  BY DEF Init, Held, Waiters
<1>2. InServerPath = {} /\ Range(recirculating) = {}
  BY DEF Init, InServerPath, Range
<1>3. lengthInServer = 0 /\ lengthInServer = ServerPathLength
  BY InitServerLength DEF Init, SwitchInit, ServerLengthExact
<1>4. emptySlots = SlotsFor(0)
  BY DEF Init, SwitchInit, SlotsFor, Capacity
<1>5. numExclusive = 0
  BY DEF Init, SwitchInit
<1>6. Cardinality({}) = 0
  BY FS_EmptySet
<1>7. QED
  BY <1>1, <1>2, <1>3, <1>4, <1>5, <1>6 DEF SharedInv

LEMMA AcquireAtSwitchShared ==
  ASSUME Exclusive = {}, TypeOK, SharedInv, NEW r \in Requests, AcquireAtSwitch(r)
  PROVE  SharedInv'
<1>1. ~ IsExclusive(r) /\ GrantedOnArrival(r)
  BY DEF IsExclusive, GrantedOnArrival, SharedInv
<1>2. status' = [status EXCEPT ![r] = "granted"] /\ status[r] = "idle"
  BY <1>1 DEF AcquireAtSwitch
<1>3. Held' = Held \cup {r} /\ r \notin Held /\ Waiters' = Waiters
  BY <1>2 DEF Held, Waiters, TypeOK
<1>4. UNCHANGED << serverVars, recirculating, numExclusive >>
  BY <1>1 DEF AcquireAtSwitch, QueueAcquire, Enqueue
<1>5. InServerPath' = InServerPath /\ ServerPathLength' = ServerPathLength
  BY <1>4 DEF serverVars, InServerPath, ServerPathLength
<1>6. emptySlots' = SlotsFor(Cardinality(Held'))
  <2>1. Cardinality(Held') = Cardinality(Held) + 1
    BY <1>3, RequestSets, FS_AddElement
  <2>2. Cardinality(Held') <= Cardinality(Requests)
    <3>1. Held' \in SUBSET Requests
      BY DEF Held
    <3>2. QED
      BY <3>1, FS_Subset
  <2>3. emptySlots' = Decr(emptySlots)
    BY DEF AcquireAtSwitch, QueueAcquire
  <2>4. QED
    BY <2>1, <2>2, <2>3, RequestSets, SlotsForSteps DEF SharedInv
<1>7. QED
  BY <1>3, <1>4, <1>5, <1>6 DEF SharedInv

\* A release, popped at the switch or forwarded, takes a request from the
\* holders and counts its slot.
LEMMA ReleaseHolder ==
  ASSUME TypeOK, SharedInv, NEW r \in Requests, status[r] = "granted",
         status' = [status EXCEPT ![r] = "idle"], emptySlots' = Incr(emptySlots)
  PROVE  /\ Held' = Held \ {r} /\ r \in Held /\ Waiters' = Waiters
         /\ Cardinality(Held') = Cardinality(Held) - 1
         /\ emptySlots' = SlotsFor(Cardinality(Held'))
<1>1. Held' = Held \ {r} /\ r \in Held /\ Waiters' = Waiters
  BY DEF Held, Waiters, TypeOK
<1>2. Cardinality(Held') = Cardinality(Held) - 1
  BY <1>1, RequestSets, FS_RemoveElement
<1>3. Cardinality(Held') \in Nat
  BY <1>1, RequestSets, FS_RemoveElement, FS_CardinalityType
<1>4. Cardinality(Held') + 1 = Cardinality(Held)
  BY <1>2, <1>3, RequestSets
<1>5. emptySlots' = SlotsFor(Cardinality(Held'))
  BY <1>3, <1>4, RequestSets, SlotsForSteps DEF SharedInv
<1>6. QED
  BY <1>1, <1>2, <1>5

LEMMA ReleaseAtSwitchShared ==
  ASSUME Exclusive = {}, TypeOK, SharedInv, NEW r \in Requests, ReleaseAtSwitch(r)
  PROVE  SharedInv'
<1>1. Waiters' = Waiters /\ emptySlots' = SlotsFor(Cardinality(Held'))
  BY ReleaseHolder DEF ReleaseAtSwitch, PopOnRelease
<1>2. UNCHANGED << serverVars, numExclusive >>
  BY DEF ReleaseAtSwitch, PopOnRelease, IsExclusive
<1>3. InServerPath' = InServerPath /\ ServerPathLength' = ServerPathLength
  BY <1>2 DEF serverVars, InServerPath, ServerPathLength
<1>4. \A p \in Range(recirculating') : p.flag = 1 /\ ~ p.dequeuedExclusive
  <2>1. recirculating \in Seq(RecirculatedPacket) /\ FollowUp \in Seq(RecirculatedPacket)
    BY FollowUpType DEF TypeOK
  <2>2. Range(recirculating') = Range(recirculating) \cup Range(FollowUp)
    BY <2>1, RangeConcatenation DEF ReleaseAtSwitch
  <2>3. ASSUME NEW p \in Range(FollowUp)
        PROVE  p.flag = 1 /\ ~ p.dequeuedExclusive
    <3> DEFINE q == [flag |-> 1, dequeuedExclusive |-> IsExclusive(slot[head]),
                     curHead |-> After(head), curTail |-> tail]
    <3>1. FollowUp = << >> \/ FollowUp = << q >>
      BY DEF FollowUp
    <3>2. q.flag = 1 /\ ~ q.dequeuedExclusive
      BY DEF IsExclusive
    <3> HIDE DEF q
    <3>3. p = q
      BY <3>1, <2>3 DEF Range
    <3>4. QED
      BY <3>2, <3>3
  <2>4. QED
    BY <2>2, <2>3 DEF SharedInv
<1>5. QED
  BY <1>1, <1>2, <1>3, <1>4 DEF SharedInv

LEMMA ReleaseForwardedShared ==
  ASSUME TypeOK, SharedInv, NEW r \in Requests, ReleaseForwarded(r)
  PROVE  SharedInv'
<1> DEFINE p == [op |-> "release", request |-> r]
<1>1. Waiters' = Waiters /\ emptySlots' = SlotsFor(Cardinality(Held'))
  BY ReleaseHolder DEF ReleaseForwarded, ForwardRelease
<1>2. /\ UNCHANGED << buffer, fromServer, recirculating, numExclusive >>
      /\ toServer' = Append(toServer, p)
  BY DEF ReleaseForwarded, ForwardRelease, Send
<1>3. toServer \in Seq(Packet) /\ p \in Packet /\ p.op # "acquire"
  BY DEF TypeOK, Packet
<1>4. \A t \in Requests : AcquireOf(t) # p
  BY <1>3 DEF AcquireOf
<1> HIDE DEF p
<1>5. Range(toServer') = Range(toServer) \cup {p}
  BY <1>2, <1>3, RangeAppend
<1>6. InServerPath' = InServerPath
  <2>1. InServerPath' = {t \in Requests : \/ AcquireOf(t) \in Range(toServer')
                                          \/ t \in Range(buffer')
                                          \/ t \in Range(fromServer')}
    BY DEF InServerPath, AcquireOf, Range
  <2>2. QED
    BY <2>1, <1>2, <1>4, <1>5, PathByElements
<1>7. ServerPathLength' = ServerPathLength
  BY <1>2, <1>3, AppendAcquires, PathLengthType DEF ServerPathLength
<1>8. QED
  BY <1>1, <1>2, <1>6, <1>7 DEF SharedInv

LEMMA AcquireForwardedShared ==
  ASSUME TypeOK, SharedInv, NEW r \in Requests, AcquireForwarded(r)
  PROVE  SharedInv'
<1>1. /\ UNCHANGED << buffer, fromServer, recirculating, numExclusive, emptySlots >>
      /\ toServer' = Append(toServer, AcquireOf(r))
  BY DEF AcquireForwarded, ForwardAcquire, Send, AcquireOf
<1>2. toServer \in Seq(Packet) /\ AcquireOf(r) \in Packet /\ AcquireOf(r).op = "acquire"
  BY DEF TypeOK, Packet, AcquireOf
<1>3. Held' = Held /\ Waiters' = Waiters \cup {r} /\ r \notin Waiters
  BY DEF AcquireForwarded, Held, Waiters, TypeOK
<1>4. Range(toServer') = Range(toServer) \cup {AcquireOf(r)}
  BY <1>1, <1>2, RangeAppend
<1>5. InServerPath' = InServerPath \cup {r}
  <2>1. InServerPath' = {t \in Requests : \/ AcquireOf(t) \in Range(toServer')
                                          \/ t \in Range(buffer')
                                          \/ t \in Range(fromServer')}
    BY DEF InServerPath, AcquireOf, Range
  <2>2. \A t \in Requests : AcquireOf(t) = AcquireOf(r) <=> t = r
    BY DEF AcquireOf
  <2>3. QED
    BY <2>1, <2>2, <1>1, <1>4, PathByElements
<1>6. Cardinality(Waiters') = Cardinality(Waiters) + 1
  BY <1>3, RequestSets, FS_AddElement
<1>7. ServerPathLength' = ServerPathLength + 1
  <2>1. Cardinality(Acquires(toServer')) = Cardinality(Acquires(toServer)) + 1
    BY <1>1, <1>2, AppendAcquires
  <2>2. QED
    BY <1>1, <2>1, PathLengthType DEF ServerPathLength
<1>8. QED
  BY <1>1, <1>3, <1>5, <1>6, <1>7 DEF SharedInv

LEMMA RecirculateShared ==
  ASSUME Exclusive = {}, TypeOK, SharedInv, Recirculate
  PROVE  SharedInv' /\ UNCHANGED << switchVars, serverVars, status >>
<1> DEFINE p == Head(recirculating)
<1>1. /\ recirculating \in Seq(RecirculatedPacket) /\ recirculating # << >>
      /\ UNCHANGED << switchVars, serverVars >>
  BY DEF Recirculate, TypeOK
<1>2. Range(recirculating) = Range(Tail(recirculating)) \cup {p}
  BY <1>1, RangeTail
<1>3. p.flag = 1 /\ ~ p.dequeuedExclusive
  BY <1>2 DEF SharedInv
<1> HIDE DEF p
<1>4. ~ Notifies(p)
  BY <1>3 DEF Notifies, IsExclusive
<1>5. NextPass(p) = << >>
  BY <1>4 DEF NextPass, Continues
<1>6. status' = status /\ recirculating' = Tail(recirculating) \o << >>
  BY <1>4, <1>5 DEF Recirculate, p
<1>7. recirculating' = Tail(recirculating)
  BY <1>1, <1>6, HeadTailProperties, ConcatEmptySeq
<1>8. /\ Held' = Held /\ Waiters' = Waiters
      /\ InServerPath' = InServerPath /\ ServerPathLength' = ServerPathLength
  BY <1>1, <1>6 DEF Held, Waiters, InServerPath, ServerPathLength, serverVars
<1>9. QED
  BY <1>1, <1>2, <1>6, <1>7, <1>8 DEF SharedInv, switchVars

\* The request that comes back is nowhere else on the path, for the path has
\* one place less now and holds all who wait but this one.
LEMMA PushBackAtSwitchShared ==
  ASSUME Exclusive = {}, TypeOK, TypeOK', SharedInv, PushBackAtSwitch
  PROVE  SharedInv' /\ Held' # {}
<1> DEFINE r == Head(fromServer)
<1>1. /\ fromServer \in Seq(Requests) /\ fromServer # << >>
      /\ fromServer' = Tail(fromServer)
      /\ UNCHANGED << recirculating, toServer, buffer >>
  BY DEF PushBackAtSwitch, TypeOK
<1>2. r \in Requests
  BY <1>1, HeadTailProperties
<1>3. /\ QueuePushBack(r)
      /\ status' = IF GrantedOnArrival(r) THEN [status EXCEPT ![r] = "granted"] ELSE status
  BY DEF PushBackAtSwitch
<1>4. Range(fromServer) = Range(fromServer') \cup {r}
  BY <1>1, RangeTail
<1> HIDE DEF r
<1>5. ~ IsExclusive(r) /\ GrantedOnArrival(r) /\ numExclusive' = numExclusive
  BY <1>3 DEF IsExclusive, GrantedOnArrival, SharedInv, QueuePushBack, Enqueue
<1>6. InServerPath' \cup {r} = InServerPath
  <2>1. InServerPath' = {t \in Requests : \/ AcquireOf(t) \in Range(toServer')
                                          \/ t \in Range(buffer')
                                          \/ t \in Range(fromServer')}
    BY DEF InServerPath, AcquireOf, Range
  <2>2. QED
    BY <2>1, <1>1, <1>2, <1>4, PathByElements
<1>7. r \in Waiters
  BY <1>6 DEF SharedInv
<1>8. Waiters' = Waiters \ {r} /\ Held' = Held \cup {r} /\ r \notin Held
  BY <1>3, <1>5, <1>7 DEF Waiters, Held, TypeOK
<1>9. ServerPathLength \in Nat /\ ServerPathLength' = ServerPathLength - 1
  <2>1. Len(fromServer') = Len(fromServer) - 1
    BY <1>1, HeadTailProperties
  <2>2. QED
    BY <2>1, <1>1, PathLengthType DEF ServerPathLength
<1>10. Cardinality(Waiters') = ServerPathLength'
  BY <1>7, <1>8, <1>9, RequestSets, FS_RemoveElement DEF SharedInv
<1>11. r \notin InServerPath'
  <2> SUFFICES ASSUME r \in InServerPath'
               PROVE  FALSE
    OBVIOUS
  <2>1. InServerPath' = Waiters
    BY <1>6 DEF SharedInv
  <2>2. Cardinality(InServerPath') <= ServerPathLength'
    <3>1. /\ toServer' \in Seq(Packet) /\ buffer' \in Seq(Requests)
          /\ fromServer' \in Seq(Requests)
      BY DEF TypeOK
    <3>2. InServerPath' = {t \in Requests : \/ AcquireOf(t) \in Range(toServer')
                                            \/ t \in Range(buffer')
                                            \/ t \in Range(fromServer')}
      BY DEF InServerPath, AcquireOf, Range
    <3>3. QED
      BY <3>1, <3>2, PathBound DEF ServerPathLength
  <2>3. QED
    BY <2>1, <2>2, <1>9 DEF SharedInv
<1>12. InServerPath' = Waiters'
  BY <1>6, <1>8, <1>11 DEF SharedInv
<1>13. emptySlots' = SlotsFor(Cardinality(Held'))
  <2>1. Cardinality(Held') = Cardinality(Held) + 1
    BY <1>8, RequestSets, FS_AddElement
  <2>2. Cardinality(Held') <= Cardinality(Requests)
    <3>1. Held' \in SUBSET Requests
      BY DEF Held
    <3>2. QED
      BY <3>1, FS_Subset
  <2>3. emptySlots' = Decr(emptySlots)
    BY <1>3 DEF QueuePushBack
  <2>4. QED
    BY <2>1, <2>2, <2>3, RequestSets, SlotsForSteps DEF SharedInv
<1>14. QED
  BY <1>1, <1>5, <1>8, <1>10, <1>12, <1>13 DEF SharedInv

LEMMA ServerBuffersShared ==
  ASSUME TypeOK, ServerLengthExact, SharedInv, ServerBuffers, ServerLengthExact'
  PROVE  SharedInv'
<1> DEFINE p == Head(toServer)
<1>1. /\ toServer \in Seq(Packet) /\ toServer # << >> /\ buffer \in Seq(Requests)
      /\ toServer' = Tail(toServer) /\ p.op = "acquire"
      /\ buffer' = Append(buffer, p.request)
      /\ UNCHANGED << switchVars, status, recirculating, fromServer >>
  BY DEF ServerBuffers, TypeOK
<1>2. p \in Packet
  BY <1>1, HeadTailProperties
<1>3. Range(toServer) = Range(toServer') \cup {p}
  BY <1>1, RangeTail
<1> HIDE DEF p
<1>4. p.request \in Requests /\ \A t \in Requests : AcquireOf(t) = p <=> t = p.request
  BY <1>1, <1>2 DEF Packet, AcquireOf
<1>5. Range(buffer') = Range(buffer) \cup {p.request}
  BY <1>1, <1>4, RangeAppend
<1>6. InServerPath' = InServerPath
  <2>1. InServerPath' = {t \in Requests : \/ AcquireOf(t) \in Range(toServer')
                                          \/ t \in Range(buffer')
                                          \/ t \in Range(fromServer')}
    BY DEF InServerPath, AcquireOf, Range
  <2>2. QED
    BY <2>1, <1>1, <1>3, <1>4, <1>5, PathByElements
<1>7. QED
  BY <1>1, <1>6 DEF SharedInv, Held, Waiters, switchVars, ServerLengthExact

LEMMA ServerPushesBackShared ==
  ASSUME TypeOK, ServerLengthExact, SharedInv, ServerPushesBack, ServerLengthExact'
  PROVE  SharedInv'
<1> DEFINE p == Head(toServer)
           k == PushBackCount
<1>1. /\ toServer \in Seq(Packet) /\ toServer # << >>
      /\ buffer \in Seq(Requests) /\ fromServer \in Seq(Requests)
      /\ toServer' = Tail(toServer) /\ p.op = "release"
      /\ UNCHANGED << switchVars, status, recirculating >>
  BY DEF ServerPushesBack, TypeOK
<1>2. Range(toServer) = Range(toServer') \cup {p}
  BY <1>1, RangeTail
<1>3. \A t \in Requests : AcquireOf(t) # p
  BY <1>1 DEF AcquireOf
<1> HIDE DEF p
<1>4. Range(fromServer') \cup Range(buffer') = Range(fromServer) \cup Range(buffer)
  <2>1. k \in 0 .. Len(buffer)
    BY <1>1, LenProperties DEF PushBackCount
  <2>2. Range(buffer) = Range(SubSeq(buffer, 1, k)) \cup Range(buffer')
    BY <1>1, <2>1, RangeSplit DEF ServerPushesBack
  <2>3. Range(fromServer') = Range(fromServer) \cup Range(SubSeq(buffer, 1, k))
    <3> DEFINE sent == SubSeq(buffer, 1, k)
    <3>1. /\ fromServer \in Seq(Requests) /\ sent \in Seq(Requests)
          /\ fromServer' = fromServer \o sent
      BY <1>1, PushBackSplits DEF ServerPushesBack
    <3> HIDE DEF sent
    <3>2. Range(fromServer \o sent) = Range(fromServer) \cup Range(sent)
      BY <3>1, RangeConcatenation
    <3>3. QED
      BY <3>1, <3>2 DEF sent
  <2>4. QED
    BY <2>2, <2>3
<1>5. InServerPath' = InServerPath
  <2>1. InServerPath' = {t \in Requests : \/ AcquireOf(t) \in Range(toServer')
                                          \/ t \in Range(buffer')
                                          \/ t \in Range(fromServer')}
    BY DEF InServerPath, AcquireOf, Range
  <2>2. QED
    BY <2>1, <1>2, <1>3, <1>4, PathByElements
<1>6. QED
  BY <1>1, <1>5 DEF SharedInv, Held, Waiters, switchVars, ServerLengthExact

LEMMA NextShared ==
  ASSUME Exclusive = {}
  PROVE  /\ TypeOK /\ TypeOK' /\ ServerLengthExact /\ ServerLengthExact' /\ SharedInv
         /\ [Next]_vars
         => SharedInv'
<1> SUFFICES ASSUME TypeOK, TypeOK', ServerLengthExact, ServerLengthExact', SharedInv,
                    [Next]_vars
             PROVE  SharedInv'
  OBVIOUS
<1>1. CASE \E r \in Requests : Acquire(r)
  BY <1>1, AcquireAtSwitchShared, AcquireForwardedShared DEF Acquire
<1>2. CASE \E r \in Requests : Release(r)
  BY <1>2, ReleaseAtSwitchShared, ReleaseForwardedShared DEF Release
<1>3. CASE Recirculate
  BY <1>3, RecirculateShared
<1>4. CASE PushBackAtSwitch
  BY <1>4, PushBackAtSwitchShared
<1>5. CASE ServerBuffers
  BY <1>5, ServerBuffersShared
<1>6. CASE ServerPushesBack
  BY <1>6, ServerPushesBackShared
<1>7. CASE UNCHANGED vars
  BY <1>7 DEF vars, switchVars, serverVars, SharedInv, Held, Waiters, InServerPath,
              ServerPathLength
<1>8. QED
  BY <1>1, <1>2, <1>3, <1>4, <1>5, <1>6, <1>7 DEF Next

\* The empty-slot count of a lock that is only shared counts every slot taken
\* and given back once, popped or forwarded, on a ring of any size that
\* overflows as it likes, and also after more requests were pushed back than
\* there was room for.
THEOREM SharedSlotsCorrect ==
  ASSUME Exclusive = {}
  PROVE  Spec => []SlotsExact
<1>1. TypeOK /\ SharedInv => SlotsExact
  <2> SUFFICES ASSUME TypeOK, SharedInv
               PROVE  SlotsExact
    OBVIOUS
  <2>1. InSwitch = Held
    BY DEF SharedInv, InSwitch, Held, Waiters, TypeOK
  <2>2. QED
    BY <2>1 DEF SharedInv, SlotsExact, SlotsFor
<1>2. QED
  BY <1>1, InitTypeOK, NextTypeOK, InitServerLength, NextServerLength, InitShared,
     NextShared, PTL DEF Spec
-----------------------------------------------------------------------------
(* Who waits while nobody holds: a reader that overflowed to the server is *)
(* brought back by the forwarded release of the last holder.               *)

\* A release is on its way to the server that will find a request buffered.
ReleaseComing ==
  \E j \in DOMAIN toServer :
     /\ toServer[j].op = "release"
     /\ buffer # << >> \/ \E i \in 1 .. j - 1 : toServer[i].op = "acquire"

Drains == lengthInServer > 0 => Held # {} \/ fromServer # << >> \/ ReleaseComing

\* Only the release of the last holder leaves one slot less than all empty.
LEMMA SlotsTell ==
  ASSUME TypeOK, SharedInv
  PROVE  /\ Held = {} => emptySlots = Capacity
         /\ Cardinality(Held) = 1 => emptySlots = Capacity - 1
<1>1. Capacity \in Nat /\ Capacity >= 1
  BY DEF Capacity
<1>2. emptySlots = SlotsFor(Cardinality(Held))
  BY DEF SharedInv
<1>3. Held = {} => Cardinality(Held) = 0
  BY FS_EmptySet
<1>4. QED
  BY <1>1, <1>2, <1>3 DEF SlotsFor

LEMMA AcquireForwardedDrains ==
  ASSUME TypeOK, SharedInv, Drains, NEW r \in Requests, AcquireForwarded(r)
  PROVE  Drains'
<1> DEFINE p == [op |-> "acquire", request |-> r]
<1>1. /\ toServer' = Append(toServer, p) /\ UNCHANGED << buffer, fromServer >>
      /\ ~ QueueHere /\ toServer \in Seq(Packet)
  BY DEF AcquireForwarded, ForwardAcquire, Send, TypeOK
<1>2. Held' = Held
  BY DEF AcquireForwarded, Held, TypeOK
<1>3. CASE Held # {} \/ fromServer # << >>
  BY <1>1, <1>2, <1>3 DEF Drains
<1>4. CASE Held = {} /\ fromServer = << >>
  <2>1. emptySlots > 0
    BY <1>4, SlotsTell DEF Capacity
  <2>2. lengthInServer > 0
    BY <1>1, <2>1 DEF QueueHere, TypeOK, SwitchTypeOK, Register
  <2>3. PICK j \in DOMAIN toServer :
           /\ toServer[j].op = "release"
           /\ buffer # << >> \/ \E i \in 1 .. j - 1 : toServer[i].op = "acquire"
    BY <1>4, <2>2 DEF Drains, ReleaseComing
  <2> HIDE DEF p
  <2>4. p \in Packet
    BY DEF Packet, p
  <2>5. /\ Len(toServer) \in Nat /\ DOMAIN toServer = 1 .. Len(toServer)
        /\ DOMAIN toServer' = 1 .. Len(toServer) + 1
        /\ \A i \in 1 .. Len(toServer) : toServer'[i] = toServer[i]
    BY <1>1, <2>4, AppendProperties, LenProperties
  <2>6. j \in DOMAIN toServer' /\ \A i \in 1 .. j : toServer'[i] = toServer[i]
    BY <2>5
  <2>7. toServer'[j].op = "release"
    BY <2>3, <2>5
  <2>8. buffer' # << >> \/ \E i \in 1 .. j - 1 : toServer'[i].op = "acquire"
    BY <2>3, <2>5, <1>1
  <2>9. QED
    BY <2>6, <2>7, <2>8 DEF Drains, ReleaseComing
<1>5. QED
  BY <1>3, <1>4

\* A release that pops while requests are at the server is not the last one.
LEMMA ReleaseAtSwitchDrains ==
  ASSUME TypeOK, SharedInv, NEW r \in Requests, ReleaseAtSwitch(r)
  PROVE  Drains'
<1> SUFFICES ASSUME lengthInServer' > 0, Held' = {}
             PROVE  FALSE
  BY DEF Drains
<1>1. lengthInServer > 0 /\ emptySlots # Right - Left
  BY DEF ReleaseAtSwitch, PopOnRelease, ForwardsRelease, EmptySlotsBeforePop, SizeOfQueue
<1>2. Cardinality(Held') = Cardinality(Held) - 1
  BY ReleaseHolder DEF ReleaseAtSwitch, PopOnRelease
<1>3. Cardinality(Held') = 0
  BY FS_EmptySet
<1>4. Cardinality(Held) = 1
  BY <1>2, <1>3, RequestSets
<1>5. QED
  BY <1>1, <1>4, SlotsTell DEF Capacity

\* A forwarded release is behind every request that was forwarded before it.
LEMMA ReleaseForwardedDrains ==
  ASSUME TypeOK, ServerLengthExact, NEW r \in Requests, ReleaseForwarded(r)
  PROVE  Drains'
<1> DEFINE p == [op |-> "release", request |-> r]
           n == Len(toServer)
<1>1. /\ toServer' = Append(toServer, p) /\ toServer \in Seq(Packet)
      /\ UNCHANGED << buffer, fromServer, lengthInServer >>
  BY DEF ReleaseForwarded, ForwardRelease, Send, TypeOK
<1>2. p \in Packet /\ p.op = "release"
  BY DEF Packet
<1> HIDE DEF p
<1>3. /\ n \in Nat /\ DOMAIN toServer = 1 .. n /\ DOMAIN toServer' = 1 .. n + 1
      /\ \A i \in 1 .. n : toServer'[i] = toServer[i]
      /\ toServer'[n + 1] = p
  BY <1>1, <1>2, AppendProperties, LenProperties
<1> HIDE DEF n
<1> SUFFICES ASSUME lengthInServer > 0, fromServer = << >>
             PROVE  ReleaseComing'
  BY <1>1 DEF Drains
<1>4. buffer # << >> \/ \E i \in 1 .. n : toServer[i].op = "acquire"
  <2> SUFFICES ASSUME buffer = << >>, \A i \in 1 .. n : toServer[i].op # "acquire"
               PROVE  FALSE
    OBVIOUS
  <2>1. Acquires(toServer) = {}
    BY <1>3 DEF Acquires
  <2>2. Cardinality(Acquires(toServer)) = 0 /\ Len(buffer) = 0 /\ Len(fromServer) = 0
    BY <2>1, FS_EmptySet
  <2>3. QED
    BY <2>2 DEF ServerLengthExact, ServerPathLength
<1>5. n + 1 \in DOMAIN toServer' /\ toServer'[n + 1].op = "release"
  BY <1>2, <1>3
<1>6. buffer' # << >> \/ \E i \in 1 .. (n + 1) - 1 : toServer'[i].op = "acquire"
  BY <1>1, <1>3, <1>4
<1>7. QED
  BY <1>5, <1>6 DEF ReleaseComing

LEMMA ServerBuffersDrains ==
  ASSUME TypeOK, Drains, ServerBuffers
  PROVE  Drains'
<1>1. /\ toServer \in Seq(Packet) /\ toServer # << >> /\ toServer' = Tail(toServer)
      /\ Head(toServer).op = "acquire" /\ buffer \in Seq(Requests)
      /\ buffer' = Append(buffer, Head(toServer).request)
      /\ UNCHANGED << switchVars, status, fromServer >>
  BY DEF ServerBuffers, TypeOK
<1>2. Held' = Held /\ lengthInServer' = lengthInServer
  BY <1>1 DEF Held, switchVars
<1>3. CASE Held # {} \/ fromServer # << >>
  BY <1>1, <1>2, <1>3 DEF Drains
<1>4. CASE Held = {} /\ fromServer = << >> /\ lengthInServer > 0
  <2>1. PICK j \in DOMAIN toServer : toServer[j].op = "release"
    BY <1>4 DEF Drains, ReleaseComing
  <2>2. /\ Len(toServer) \in Nat /\ DOMAIN toServer = 1 .. Len(toServer)
        /\ Head(toServer) = toServer[1]
        /\ toServer' \in Seq(Packet) /\ Len(toServer') = Len(toServer) - 1
        /\ \A i \in 1 .. Len(toServer) - 1 : toServer'[i] = toServer[i + 1]
    BY <1>1, HeadTailProperties, LenProperties
  <2>3. j # 1
    BY <1>1, <2>1, <2>2
  <2>4. j - 1 \in 1 .. Len(toServer) - 1 /\ (j - 1) + 1 = j
    BY <2>2, <2>3
  <2>5. j - 1 \in DOMAIN toServer' /\ toServer'[j - 1].op = "release"
    BY <2>1, <2>2, <2>4, LenProperties
  <2>6. buffer' # << >>
    <3>1. Head(toServer) \in Packet
      BY <1>1, HeadTailProperties
    <3>2. QED
      BY <1>1, <3>1, AppendProperties DEF Packet
  <2>7. QED
    BY <2>5, <2>6 DEF Drains, ReleaseComing
<1>5. QED
  BY <1>2, <1>3, <1>4 DEF Drains

LEMMA ServerPushesBackDrains ==
  ASSUME TypeOK, Drains, ServerPushesBack, LenInSwitch > 0
  PROVE  Drains'
<1> DEFINE k == PushBackCount
           a == SubSeq(buffer, 1, k)
<1>1. /\ toServer \in Seq(Packet) /\ toServer # << >> /\ toServer' = Tail(toServer)
      /\ Head(toServer).op = "release"
      /\ buffer \in Seq(Requests) /\ fromServer \in Seq(Requests)
      /\ fromServer' = fromServer \o a
      /\ UNCHANGED << switchVars, status >>
  BY DEF ServerPushesBack, TypeOK
<1>2. Held' = Held /\ lengthInServer' = lengthInServer
  BY <1>1 DEF Held, switchVars
<1>3. /\ a \in Seq(Requests) /\ Len(a) \in Nat /\ Len(fromServer) \in Nat
      /\ Len(fromServer') = Len(fromServer) + Len(a) /\ fromServer' \in Seq(Requests)
  BY <1>1, PushBackSplits, ConcatProperties, LenProperties
<1>4. CASE fromServer # << >>
  <2>1. Len(fromServer') > 0
    BY <1>1, <1>3, <1>4, EmptySeq
  <2>2. fromServer' # << >>
    BY <2>1
  <2>3. QED
    BY <2>2 DEF Drains
<1>5. CASE buffer # << >>
  <2>1. Len(buffer) \in Nat /\ Len(buffer) > 0
    BY <1>1, <1>5, EmptySeq, LenProperties
  <2>2. k \in Nat /\ k > 0 /\ k <= Len(buffer)
    BY <2>1 DEF PushBackCount
  <2> HIDE DEF k
  <2>3. \A i \in 1 .. k : buffer[i] \in Requests
    BY <1>1, <2>1, <2>2, ElementOfSeq
  <2>4. Len(a) = k - 1 + 1
    BY <2>2, <2>3, SubSeqProperties
  <2> HIDE DEF a
  <2>5. Len(fromServer') > 0
    BY <2>2, <2>4, <1>3
  <2>6. fromServer' # << >>
    BY <2>5
  <2>7. QED
    BY <2>6 DEF Drains
<1>6. CASE buffer = << >> /\ fromServer = << >> /\ Held = {} /\ lengthInServer > 0
  <2>1. PICK j \in DOMAIN toServer :
           /\ toServer[j].op = "release"
           /\ \E i \in 1 .. j - 1 : toServer[i].op = "acquire"
    BY <1>6 DEF Drains, ReleaseComing
  <2>2. PICK i \in 1 .. j - 1 : toServer[i].op = "acquire"
    BY <2>1
  <2>3. /\ Len(toServer) \in Nat /\ DOMAIN toServer = 1 .. Len(toServer)
        /\ Head(toServer) = toServer[1]
        /\ toServer' \in Seq(Packet) /\ Len(toServer') = Len(toServer) - 1
        /\ \A l \in 1 .. Len(toServer) - 1 : toServer'[l] = toServer[l + 1]
    BY <1>1, HeadTailProperties, LenProperties
  <2>4. i # 1
    BY <1>1, <2>2, <2>3
  <2>5. /\ j \in 1 .. Len(toServer) /\ j - 1 \in 1 .. Len(toServer) - 1
        /\ i - 1 \in 1 .. (j - 1) - 1 /\ i - 1 \in 1 .. Len(toServer) - 1
        /\ (j - 1) + 1 = j /\ (i - 1) + 1 = i
    BY <2>2, <2>3, <2>4
  <2>6. j - 1 \in DOMAIN toServer' /\ toServer'[j - 1].op = "release"
    BY <2>1, <2>3, <2>5, LenProperties
  <2>7. toServer'[i - 1].op = "acquire"
    BY <2>2, <2>3, <2>5
  <2>8. QED
    BY <2>5, <2>6, <2>7 DEF Drains, ReleaseComing
<1>7. CASE Held # {} \/ ~ lengthInServer > 0
  BY <1>2, <1>7 DEF Drains
<1>8. QED
  BY <1>4, <1>5, <1>6, <1>7

LEMMA NextDrains ==
  ASSUME Exclusive = {}, LenInSwitch > 0
  PROVE  /\ TypeOK /\ TypeOK' /\ ServerLengthExact /\ SharedInv /\ Drains
         /\ [Next]_vars
         => Drains'
<1> SUFFICES ASSUME TypeOK, TypeOK', ServerLengthExact, SharedInv, Drains, [Next]_vars
             PROVE  Drains'
  OBVIOUS
<1>1. ASSUME NEW r \in Requests, AcquireAtSwitch(r)
      PROVE  Drains'
  BY <1>1 DEF AcquireAtSwitch, QueueAcquire, QueueHere, Drains
<1>2. ASSUME NEW r \in Requests, AcquireForwarded(r)
      PROVE  Drains'
  BY <1>2, AcquireForwardedDrains
<1>3. ASSUME NEW r \in Requests, Release(r)
      PROVE  Drains'
  BY <1>3, ReleaseAtSwitchDrains, ReleaseForwardedDrains DEF Release
<1>4. CASE Recirculate
  <2>1. UNCHANGED << switchVars, serverVars, status >>
    BY <1>4, RecirculateShared
  <2>2. QED
    BY <2>1 DEF switchVars, serverVars, Drains, ReleaseComing, Held
<1>5. CASE PushBackAtSwitch
  BY <1>5, PushBackAtSwitchShared DEF Drains
<1>6. CASE ServerBuffers
  BY <1>6, ServerBuffersDrains
<1>7. CASE ServerPushesBack
  BY <1>7, ServerPushesBackDrains
<1>8. CASE UNCHANGED vars
  BY <1>8 DEF vars, switchVars, serverVars, Drains, ReleaseComing, Held
<1>9. QED
  BY <1>1, <1>2, <1>3, <1>4, <1>5, <1>6, <1>7, <1>8 DEF Next, Acquire

\* No reader waits for a lock that is only shared when nobody holds it and no
\* packet is in flight: the release of the last holder is forwarded, and what
\* waits in the server's buffer comes back, if a push-back brings anything.
THEOREM SharedNobodyStranded ==
  ASSUME Exclusive = {}, LenInSwitch > 0
  PROVE  Spec => []NoStrandedWaiter
<1>1. TypeOK /\ ServerLengthExact /\ SharedInv /\ Drains => NoStrandedWaiter
  <2> SUFFICES ASSUME TypeOK, ServerLengthExact, SharedInv, Drains,
                      ~ PacketsInFlight, Held = {}, NEW r \in Requests
               PROVE  status[r] = "idle"
    BY DEF NoStrandedWaiter
  <2>1. toServer = << >> /\ fromServer = << >>
    BY DEF PacketsInFlight
  <2>2. ~ lengthInServer > 0
    BY <2>1 DEF Drains, ReleaseComing
  <2>3. ServerPathLength = 0
    BY <2>2, PathLengthType DEF ServerLengthExact
  <2>4. Waiters = {}
    BY <2>3, RequestSets, FS_EmptySet DEF SharedInv
  <2>5. QED
    BY <2>4 DEF Waiters, Held, TypeOK
<1>2. Init => Drains
  BY DEF Init, SwitchInit, Drains
<1>3. QED
  BY <1>1, <1>2, InitTypeOK, NextTypeOK, InitServerLength, NextServerLength, InitShared,
     NextShared, NextDrains, PTL DEF Spec

-----------------------------------------------------------------------------
(* Rings that hold every request, readers and writers.                     *)
(*                                                                         *)
(* Let q be every request that was ever queued, in order, and h how many   *)
(* were popped.  The ring holds the rest, and of what was popped the       *)
(* latest.  Positions from w on wait; so do positions a .. b - 1, popped   *)
(* or not, which the one recirculating packet that notifies is about to    *)
(* grant; the others between h and w are matched by as many holders.       *)

\* What the deployment needs: recirculation is faster than a ring fills, and
\* the ring has a slot for every request, and two at least.
HasRoom == /\ FastRecirculation
           /\ Cardinality(Requests) <= Capacity
           /\ Left < Right

Live == {r \in Requests : status[r] # "idle"}

\* The slot of the k-th request.
RingSlot(k) == Left + ((k - 1) % Capacity)

RingHolds(q, h) ==
  /\ h <= Len(q) /\ Len(q) - h <= Capacity
  /\ head = RingSlot(h + 1) /\ tail = RingSlot(Len(q) + 1)
  /\ \A k \in 1 .. Len(q) : Len(q) - k < Capacity => slot[RingSlot(k)] = q[k]

RegistersCount(q, h) ==
  /\ toServer = << >> /\ buffer = << >> /\ fromServer = << >> /\ lengthInServer = 0
  /\ emptySlots = Capacity - (Len(q) - h)
  /\ numExclusive = Cardinality(Window(q, h, Exclusive))
  /\ numShared = Cardinality(Window(q, h, Requests \ Exclusive))
  /\ Cardinality(Live) = Len(q) - h

\* The packet p is yet to read positions c .. e - 1, which the ring still holds.
Reads(q, p, c, e) ==
  /\ 1 <= c /\ c < e /\ e <= Len(q) + 1
  /\ Len(q) - c < Capacity /\ e - c < Capacity
  /\ p.curHead = RingSlot(c) /\ p.curTail = RingSlot(e)

\* What is at the front of the ring: a writer alone, or all the readers up to
\* the first writer.
WriterFront(q, h, w) == h < Len(q) /\ w = h + 2 /\ IsExclusive(q[h + 1])
ReaderFront(q, h, w) == /\ \A k \in h + 1 .. w - 1 : ~ IsExclusive(q[k])
                        /\ w <= Len(q) => IsExclusive(q[w])

FrontEnds(q, h, w) ==
  /\ h + 1 <= w /\ w <= Len(q) + 1
  /\ h < Len(q) => h + 1 < w
  /\ WriterFront(q, h, w) \/ ReaderFront(q, h, w)

Waits(n, w, a, b) == (a .. b - 1) \cup (w .. n)

WaitersAre(q, w, a, b) ==
  /\ \A k \in Waits(Len(q), w, a, b) : status[q[k]] = "waiting"
  /\ \A k, l \in Waits(Len(q), w, a, b) : q[k] = q[l] => k = l
  /\ \A r \in Waiters : \E k \in Waits(Len(q), w, a, b) : q[k] = r

\* p can read on, and if it notifies, grants a .. b - 1.
Serves(p, q, w, a, b) ==
  \E c, e \in Nat :
     /\ Reads(q, p, c, e)
     /\ Notifies(p) => a < b /\ c = a /\ b <= e /\ b \in {e, w}

\* Every packet in P can read on, and one at most notifies.
PacketsRead(P, q, w, a, b) ==
  /\ \A i \in DOMAIN P : Serves(P[i], q, w, a, b)
  /\ \A i, j \in DOMAIN P : Notifies(P[i]) /\ Notifies(P[j]) => i = j
  /\ a < b => \E i \in DOMAIN P : Notifies(P[i])

GrantsAre(q, h, w, a, b) ==
  /\ 1 <= a /\ a <= b /\ b <= w
  /\ a < b => \/ WriterFront(q, h, w) /\ a = h + 1
              \/ ReaderFront(q, h, w) /\ \A k \in a .. b - 1 : ~ IsExclusive(q[k])
  /\ \A r \in Held : IsExclusive(r) <=> WriterFront(q, h, w)
  /\ Cardinality(Held) + (b - a) = w - 1 - h

QueueIs(q, h, w, a, b) ==
  /\ RingHolds(q, h)
  /\ RegistersCount(q, h)
  /\ FrontEnds(q, h, w)
  /\ WaitersAre(q, w, a, b)
  /\ PacketsRead(recirculating, q, w, a, b)
  /\ GrantsAre(q, h, w, a, b)

RoomInv == \E q \in Seq(Requests) : \E h, w, a, b \in Nat : QueueIs(q, h, w, a, b)

LEMMA CapacityType == Capacity \in Nat /\ Capacity > 0 /\ Right = Left + Capacity - 1
BY DEF Capacity

\* Positions come round: neighbours are neighbours, and a ring's length of
\* positions has slots of its own.
LEMMA RingSlots ==
  /\ RingSlot(1) = Left
  /\ \A k \in Nat : k > 0 => RingSlot(k) \in Slots /\ After(RingSlot(k)) = RingSlot(k + 1)
  /\ \A k, l \in Nat : 0 < k /\ k < l /\ l - k < Capacity => RingSlot(k) # RingSlot(l)
  /\ \A k \in Nat : k > 0 => RingSlot(k + Capacity) = RingSlot(k)
<1> DEFINE c == Capacity
<1>1. c \in Nat /\ c > 0 /\ Right = Left + c - 1 /\ Left \in Nat
  BY CapacityType
<1> HIDE DEF c
<1>2. RingSlot(1) = Left
  <2>1. 0 % c \in 0 .. c - 1 /\ 0 \div c \in Nat /\ 0 = c * (0 \div c) + (0 % c)
    BY <1>1, ModDef
  <2>2. 0 % c = 0
    BY <1>1, 0 = c * 0 + 0, ModUnique
  <2> QED  BY <1>1, <2>2 DEF RingSlot, c
<1>3. ASSUME NEW k \in Nat, k > 0
      PROVE  RingSlot(k) \in Slots /\ After(RingSlot(k)) = RingSlot(k + 1)
  <2> DEFINE m == (k - 1) % c
  <2>1. k - 1 \in Nat /\ (k - 1) + 1 = k /\ (k + 1) - 1 = k
    BY <1>3
  <2>2. m \in 0 .. c - 1
    BY <1>1, <2>1, ModDef
  <2>3. k % c = IF m = c - 1 THEN 0 ELSE m + 1
    <3>1. ((k - 1) + 1) % c = IF m = c - 1 THEN 0 ELSE m + 1
      BY <1>1, <2>1, ModStep
    <3> QED  BY <2>1, <3>1
  <2>4. RingSlot(k) = Left + m
    BY DEF RingSlot, c
  <2>5. RingSlot(k + 1) = Left + (k % c)
    BY <2>1 DEF RingSlot, c
  <2> HIDE DEF m
  <2>6. Left + m = Right <=> m = c - 1
    BY <1>1, <2>2
  <2> QED  BY <1>1, <2>2, <2>3, <2>4, <2>5, <2>6 DEF Slots, After
<1>4. ASSUME NEW k \in Nat, NEW l \in Nat, 0 < k, k < l, l - k < c
      PROVE  RingSlot(k) # RingSlot(l)
  <2> DEFINE m == (k - 1) % c
             n == (l - 1) % c
  <2>1. k - 1 \in Nat /\ l - 1 \in Nat /\ k - 1 < l - 1 /\ l - 1 < (k - 1) + c
    BY <1>1, <1>4
  <2>2. m # n /\ m \in 0 .. c - 1 /\ n \in 0 .. c - 1
    BY <1>1, <2>1, ModDist, ModDef
  <2>3. RingSlot(k) = Left + m /\ RingSlot(l) = Left + n
    BY DEF RingSlot, c
  <2> HIDE DEF m, n
  <2> QED  BY <1>1, <2>2, <2>3
<1>5. ASSUME NEW k \in Nat, k > 0
      PROVE  RingSlot(k + c) = RingSlot(k)
  <2>1. k - 1 \in Nat /\ (k + c) - 1 = (k - 1) + c
    BY <1>1, <1>5
  <2>2. ((k - 1) + c) % c = (k - 1) % c
    BY <1>1, <2>1, ModFull
  <2> QED  BY <2>1, <2>2 DEF RingSlot, c
<1> QED  BY <1>2, <1>3, <1>4, <1>5 DEF c

\* If the tail may be written, it is not at a position yet to be read.
LEMMA TailIsApart ==
  ASSUME NEW q \in Seq(Requests), NEW p, NEW c \in Nat, NEW e \in Nat,
         Reads(q, p, c, e), tail = RingSlot(Len(q) + 1), tail \notin YetToRead(p)
  PROVE  Len(q) + 1 - c < Capacity
<1> DEFINE n == Len(q)
           m == Capacity
           x == RingSlot(c)
           y == RingSlot(e)
<1>1. n \in Nat /\ m \in Nat /\ m > 0 /\ Right = Left + m - 1 /\ Left \in Nat /\ Right \in Nat
  BY CapacityType, LenProperties
<1>2. /\ 1 <= c /\ c < e /\ e <= n + 1 /\ n - c < m /\ e - c < m
      /\ p.curHead = x /\ p.curTail = y
  BY DEF Reads
<1>3. x \in Slots /\ y \in Slots /\ x # y
  <2>1. c > 0 /\ e > 0 /\ c < e /\ e - c < Capacity
    BY <1>2
  <2>2. x \in Slots /\ y \in Slots
    BY <2>1, RingSlots
  <2>3. x # y
    BY <2>1, RingSlots
  <2> QED  BY <2>2, <2>3
<1> SUFFICES ASSUME n + 1 - c >= m
             PROVE  FALSE
  BY <1>1 DEF n, m
<1>4. n + 1 = c + m
  BY <1>1, <1>2
<1>5. tail = x
  BY <1>2, <1>4, RingSlots
<1>6. tail \in Slots /\ (tail - x) % m = 0
  <2>1. x \in Int /\ x - x = 0
    BY <1>3, <1>1 DEF Slots
  <2>2. 0 % m = 0
    BY <1>1, 0 = m * 0 + 0, ModUnique
  <2> QED  BY <1>3, <1>5, <2>1, <2>2
<1>7. (y - x) % m > 0
  <2>1. y - x \in Int /\ y - x > -m /\ y - x < m /\ y - x # 0
    BY <1>1, <1>3 DEF Slots
  <2> HIDE DEF m, x, y
  <2> QED  BY <1>1, <2>1, ModSmall
<1>8. tail \in YetToRead(p)
  BY <1>2, <1>6, <1>7 DEF YetToRead
<1> QED  BY <1>8

\* A packet reads what was queued at its position.
LEMMA ReadsQueued ==
  ASSUME NEW q \in Seq(Requests), NEW h, NEW p, NEW c \in Nat, NEW e \in Nat,
         RingHolds(q, h), Reads(q, p, c, e)
  PROVE  c \in 1 .. Len(q) /\ slot[p.curHead] = q[c] /\ q[c] \in Requests
<1>1. Len(q) \in Nat /\ c \in 1 .. Len(q) /\ Len(q) - c < Capacity
  BY LenProperties DEF Reads
<1>2. slot[RingSlot(c)] = q[c]
  BY <1>1 DEF RingHolds
<1> QED  BY <1>1, <1>2, ElementOfSeq DEF Reads

-----------------------------------------------------------------------------
(* An ACQUIRE is queued.                                                   *)

LEMMA LiveBound ==
  ASSUME TypeOK
  PROVE  /\ IsFiniteSet(Live) /\ Cardinality(Live) \in Nat
         /\ Cardinality(Live) <= Cardinality(Requests)
         /\ \A r \in Requests \ Live : Cardinality(Live) < Cardinality(Requests)
<1>1. Live \in SUBSET Requests
  BY DEF Live
<1>2. /\ IsFiniteSet(Live) /\ Cardinality(Live) <= Cardinality(Requests)
      /\ Cardinality(Live) = Cardinality(Requests) => Requests = Live
  BY <1>1, FS_Subset
<1>3. Cardinality(Live) \in Nat /\ Cardinality(Requests) \in Nat
  BY <1>2, FS_CardinalityType
<1> QED  BY <1>2, <1>3

\* While a ring with room takes a request: the room there is, the counters,
\* and when the request is granted at once.
LEMMA RoomToAcquire ==
  ASSUME HasRoom, TypeOK, NEW q \in Seq(Requests), NEW h \in Nat,
         h <= Len(q), RegistersCount(q, h), NEW r \in Requests \ Live
  PROVE  /\ Len(q) - h < Capacity
         /\ Incr(numExclusive) = numExclusive + 1 /\ Incr(numShared) = numShared + 1
         /\ GrantedOnArrival(r) <=>
              IF IsExclusive(r) THEN Len(q) = h
                                ELSE \A k \in h + 1 .. Len(q) : ~ IsExclusive(q[k])
<1> DEFINE n == Len(q)
           x == Cardinality(Window(q, h, Exclusive))
           s == Cardinality(Window(q, h, Requests \ Exclusive))
           N == Cardinality(Requests)
<1>1. n \in Nat /\ N \in Nat /\ N < RegisterModulus /\ N <= Capacity
  BY LenProperties, FS_CardinalityType DEF HasRoom
<1>2. n - h < N
  BY LiveBound DEF RegistersCount
<1>3. /\ x \in Nat /\ x <= n - h
      /\ x = 0 <=> \A k \in h + 1 .. n : q[k] \notin Exclusive
  BY WindowFinite
<1>4. /\ s \in Nat /\ s <= n - h
      /\ s = 0 <=> \A k \in h + 1 .. n : q[k] \notin Requests \ Exclusive
  BY WindowFinite
<1>5. numExclusive = x /\ numShared = s
  BY DEF RegistersCount
<1>6. x = 0 /\ s = 0 <=> n = h
  <2>1. ASSUME n # h
        PROVE  x # 0 \/ s # 0
    <3>1. h + 1 \in h + 1 .. n /\ h + 1 \in 1 .. n
      BY <1>1, <2>1
    <3>2. q[h + 1] \in Requests
      BY <3>1, ElementOfSeq
    <3> QED  BY <1>3, <1>4, <3>1, <3>2
  <2>2. ASSUME n = h
        PROVE  x = 0 /\ s = 0
    BY <1>1, <1>3, <1>4, <2>2
  <2> QED  BY <2>1, <2>2
<1> HIDE DEF n, x, s, N
<1>7. n - h < Capacity
  BY <1>1, <1>2, CapacityType
<1>8. Incr(x) = x + 1 /\ Incr(s) = s + 1
  BY <1>1, <1>2, <1>3, <1>4 DEF Incr
<1>9. Incr(x) # 0 /\ Incr(s) # 0
  BY <1>3, <1>4, <1>8
<1>10. GrantedOnArrival(r) <=> IF IsExclusive(r) THEN n = h ELSE x = 0
  BY <1>5, <1>6, <1>9 DEF GrantedOnArrival
<1> QED  BY <1>3, <1>5, <1>7, <1>8, <1>10 DEF n, IsExclusive

LEMMA AcquireRing ==
  ASSUME HasRoom, TypeOK, NEW q \in Seq(Requests), NEW h \in Nat,
         RingHolds(q, h), RegistersCount(q, h),
         NEW r \in Requests, AcquireAtSwitch(r)
  PROVE  RingHolds(Append(q, r), h)' /\ RegistersCount(Append(q, r), h)'
<1> DEFINE n == Len(q)
           t == Append(q, r)
<1>1. /\ n \in Nat /\ t \in Seq(Requests) /\ Len(t) = n + 1
      /\ t[n + 1] = r /\ \A k \in 1 .. n : t[k] = q[k]
  BY AppendProperties, LenProperties
<1>2. h <= n /\ n - h <= Capacity
  BY DEF RingHolds
<1>3. r \in Requests \ Live
  BY DEF AcquireAtSwitch, Live
<1>4. /\ n - h < Capacity
      /\ Incr(numExclusive) = numExclusive + 1 /\ Incr(numShared) = numShared + 1
  BY <1>2, <1>3, RoomToAcquire
<1>5. /\ slot' = [slot EXCEPT ![tail] = r] /\ tail' = After(tail) /\ head' = head
      /\ emptySlots' = Decr(emptySlots) /\ lengthInServer' = lengthInServer
      /\ UNCHANGED << recirculating, serverVars >>
  BY DEF AcquireAtSwitch, QueueAcquire, Enqueue
<1>6. RingHolds(t, h)'
  <2>1. tail' = RingSlot((n + 1) + 1)
    BY <1>1, <1>5, RingSlots DEF RingHolds
  <2>2. ASSUME NEW k \in 1 .. n + 1, (n + 1) - k < Capacity
        PROVE  slot'[RingSlot(k)] = t[k]
    <3>1. /\ tail = RingSlot(n + 1) /\ tail \in Slots
          /\ slot \in [Slots -> Requests \cup {NoRequest}]
      BY DEF RingHolds, TypeOK, SwitchTypeOK
    <3>2. CASE k = n + 1
      <4>1. slot'[tail] = r
        BY <1>5, <3>1
      <4>2. t[k] = r /\ RingSlot(k) = tail
        BY <1>1, <3>1, <3>2
      <4> QED  BY <4>1, <4>2
    <3>3. CASE k # n + 1
      <4>1. /\ k \in 1 .. n /\ n - k < Capacity
            /\ k \in Nat /\ n + 1 \in Nat /\ 0 < k /\ k < n + 1
        BY <1>1, <2>2, <3>3, CapacityType
      <4>2. RingSlot(k) # RingSlot(n + 1)
        BY <4>1, <2>2, RingSlots
      <4>3. RingSlot(k) \in Slots
        BY <4>1, RingSlots
      <4>4. slot[RingSlot(k)] = q[k]
        BY <4>1 DEF RingHolds
      <4>5. slot'[RingSlot(k)] = slot[RingSlot(k)]
        BY <1>5, <3>1, <4>2, <4>3
      <4>6. t[k] = q[k]
        BY <1>1, <4>1
      <4> QED  BY <4>4, <4>5, <4>6
    <3> QED  BY <3>2, <3>3
  <2>3. head' = RingSlot(h + 1)
    BY <1>5 DEF RingHolds
  <2> HIDE DEF t
  <2>4. h <= n + 1 /\ (n + 1) - h <= Capacity
    BY <1>1, <1>2, <1>4, CapacityType
  <2> QED  BY <1>1, <2>1, <2>2, <2>3, <2>4 DEF RingHolds
<1>7. RegistersCount(t, h)'
  <2>1. emptySlots' = Capacity - (Len(t) - h)
    <3>1. emptySlots = Capacity - (n - h) /\ emptySlots > 0
      BY <1>1, <1>2, <1>4, CapacityType DEF RegistersCount
    <3>2. emptySlots' = emptySlots - 1
      BY <1>5, <3>1 DEF Decr
    <3> QED  BY <1>1, <3>1, <3>2, CapacityType
  <2>2. /\ Cardinality(Window(t, h, Exclusive))
             = Cardinality(Window(q, h, Exclusive)) + (IF r \in Exclusive THEN 1 ELSE 0)
        /\ Cardinality(Window(t, h, Requests \ Exclusive))
             = Cardinality(Window(q, h, Requests \ Exclusive))
                 + (IF r \in Requests \ Exclusive THEN 1 ELSE 0)
    BY <1>2, WindowAppend
  <2>3. /\ Cardinality(Window(q, h, Exclusive)) \in Nat
        /\ Cardinality(Window(q, h, Requests \ Exclusive)) \in Nat
    BY <1>2, WindowFinite
  <2> HIDE DEF t
  <2>4. /\ numExclusive = Cardinality(Window(q, h, Exclusive))
        /\ numShared = Cardinality(Window(q, h, Requests \ Exclusive))
    BY DEF RegistersCount
  <2>5. /\ numExclusive' = Cardinality(Window(t, h, Exclusive))
        /\ numShared' = Cardinality(Window(t, h, Requests \ Exclusive))
    <3>1. CASE IsExclusive(r)
      <4>1. numExclusive' = numExclusive + 1 /\ numShared' = numShared
        BY <1>4, <3>1 DEF AcquireAtSwitch, QueueAcquire, Enqueue
      <4> QED  BY <2>2, <2>3, <2>4, <3>1, <4>1 DEF IsExclusive
    <3>2. CASE ~ IsExclusive(r)
      <4>1. numShared' = numShared + 1 /\ numExclusive' = numExclusive
        BY <1>4, <3>2 DEF AcquireAtSwitch, QueueAcquire, Enqueue
      <4> QED  BY <2>2, <2>3, <2>4, <3>2, <4>1 DEF IsExclusive
    <3> QED  BY <3>1, <3>2
  <2>6. Cardinality(Live') = Len(t) - h
    <3>1. \E s \in {"granted", "waiting"} : status' = [status EXCEPT ![r] = s]
      BY DEF AcquireAtSwitch
    <3>2. Live' = Live \cup {r} /\ r \notin Live
      BY <1>3, <3>1 DEF Live, TypeOK
    <3>3. Cardinality(Live \cup {r}) = Cardinality(Live) + 1
      BY <3>2, LiveBound, FS_AddElement
    <3>4. Cardinality(Live) = n - h
      BY DEF RegistersCount
    <3> QED  BY <1>1, <3>2, <3>3, <3>4
  <2> QED  BY <1>5, <2>1, <2>5, <2>6 DEF RegistersCount, serverVars
<1> QED  BY <1>6, <1>7

\* Packets in the port are not disturbed by what is queued behind.
LEMMA AcquirePackets ==
  ASSUME HasRoom, TypeOK, NEW q \in Seq(Requests), NEW h \in Nat,
         RingHolds(q, h), RegistersCount(q, h),
         NEW r \in Requests, AcquireAtSwitch(r),
         NEW i \in DOMAIN recirculating, NEW c \in Nat, NEW e \in Nat,
         Reads(q, recirculating[i], c, e)
  PROVE  /\ Reads(Append(q, r), recirculating[i], c, e)
         /\ Notifies(recirculating[i])' <=> Notifies(recirculating[i])
<1> DEFINE n == Len(q)
           t == Append(q, r)
           p == recirculating[i]
<1>1. /\ n \in Nat /\ t \in Seq(Requests) /\ Len(t) = n + 1
      /\ \A k \in 1 .. n : t[k] = q[k]
  BY AppendProperties, LenProperties
<1>2. RingHolds(t, h)'
  BY AcquireRing
<1>3. tail = RingSlot(n + 1) /\ tail \notin YetToRead(p)
  BY DEF AcquireAtSwitch, MayWriteTail, HasRoom, RingHolds
<1>4. n + 1 - c < Capacity
  BY <1>3, TailIsApart
<1>5. slot[p.curHead] = q[c] /\ c \in 1 .. n
  BY ReadsQueued
<1> HIDE DEF t
<1>6. Reads(t, p, c, e)
  BY <1>1, <1>4 DEF Reads
<1>7. slot'[p.curHead] = t[c]
  <2>1. c \in 1 .. Len(t) /\ Len(t) - c < Capacity
    BY <1>1, <1>4, <1>5
  <2>2. slot'[RingSlot(c)] = t[c]
    BY <1>2, <2>1 DEF RingHolds
  <2> QED  BY <2>2 DEF Reads
<1>8. slot'[p.curHead] = slot[p.curHead]
  BY <1>1, <1>5, <1>7
<1>9. recirculating' = recirculating
  BY DEF AcquireAtSwitch
<1> QED  BY <1>6, <1>8, <1>9 DEF Notifies, t

\* The packets all together.
LEMMA AcquireKeepsPackets ==
  ASSUME HasRoom, TypeOK, NEW q \in Seq(Requests), NEW h \in Nat,
         RingHolds(q, h), RegistersCount(q, h),
         NEW r \in Requests, AcquireAtSwitch(r),
         NEW w \in Nat, NEW a \in Nat, NEW b \in Nat, PacketsRead(recirculating, q, w, a, b),
         NEW v \in Nat, v = w \/ w = Len(q) + 1
  PROVE  PacketsRead(recirculating, Append(q, r), v, a, b)'
<1> DEFINE t == Append(q, r)
<1>1. recirculating' = recirculating
  BY DEF AcquireAtSwitch
<1>2. ASSUME NEW i \in DOMAIN recirculating
      PROVE  /\ Notifies(recirculating[i])' <=> Notifies(recirculating[i])
             /\ Serves(recirculating[i], t, v, a, b)'
  <2>1. PICK c \in Nat, e \in Nat :
          /\ Reads(q, recirculating[i], c, e)
          /\ Notifies(recirculating[i]) => a < b /\ c = a /\ b <= e /\ b \in {e, w}
    BY DEF PacketsRead, Serves
  <2>2. /\ Reads(t, recirculating[i], c, e)
        /\ Notifies(recirculating[i])' <=> Notifies(recirculating[i])
    BY <2>1, AcquirePackets
  <2>3. e <= Len(q) + 1 /\ Len(q) \in Nat
    BY <2>1, LenProperties DEF Reads
  <2>4. b \in {e, w} /\ b <= e => b \in {e, v}
    BY <2>3
  <2> HIDE DEF t
  <2> QED  BY <1>1, <2>1, <2>2, <2>4 DEF Serves
<1> HIDE DEF t
<1>3. \A i \in DOMAIN recirculating : Notifies(recirculating[i])' <=> Notifies(recirculating[i])
  BY <1>2
<1>4. \A i, j \in DOMAIN recirculating :
        Notifies(recirculating[i]) /\ Notifies(recirculating[j]) => i = j
  BY DEF PacketsRead
<1>5. a < b => \E i \in DOMAIN recirculating : Notifies(recirculating[i])
  BY DEF PacketsRead
<1>6. PacketsRead(recirculating, t, v, a, b)'
  BY <1>1, <1>2, <1>3, <1>4, <1>5 DEF PacketsRead
<1> QED  BY <1>6 DEF t

\* A request that is granted on arrival leaves those who wait as they are.
LEMMA GrantedLeavesWaiters ==
  ASSUME TypeOK, NEW q \in Seq(Requests), NEW a \in Nat, NEW b \in Nat,
         b <= Len(q) + 1, WaitersAre(q, Len(q) + 1, a, b), 1 <= a,
         NEW r \in Requests, status[r] = "idle",
         status' = [status EXCEPT ![r] = "granted"]
  PROVE  WaitersAre(Append(q, r), Len(q) + 2, a, b)'
<1> DEFINE n == Len(q)
           t == Append(q, r)
           W == a .. b - 1
<1>1. /\ n \in Nat /\ t \in Seq(Requests) /\ Len(t) = n + 1
      /\ \A k \in 1 .. n : t[k] = q[k]
  BY AppendProperties, LenProperties
<1>2. Waits(n, n + 1, a, b) = W /\ Waits(n + 1, n + 2, a, b) = W
  BY <1>1 DEF Waits
<1>3. \A k \in W : t[k] = q[k]
  BY <1>1
<1>4. /\ \A k \in W : status[q[k]] = "waiting"
      /\ \A k, l \in W : q[k] = q[l] => k = l
      /\ \A s \in Waiters : \E k \in W : q[k] = s
  BY <1>2 DEF WaitersAre
<1>5. Waiters' = Waiters
  BY DEF Waiters, TypeOK
<1>6. \A s : status[s] = "waiting" => s # r
  OBVIOUS
<1> HIDE DEF W, t
<1>7. \A k \in W : status'[t[k]] = "waiting"
  <2> SUFFICES ASSUME NEW k \in W
               PROVE  status'[q[k]] = "waiting"
    BY <1>3
  <2>1. status[q[k]] = "waiting" /\ q[k] # r
    BY <1>4, <1>6
  <2>2. q[k] \in Requests
    <3>1. k \in 1 .. n
      BY <1>1 DEF W
    <3> QED  BY <3>1, ElementOfSeq
  <2> QED  BY <2>1, <2>2 DEF TypeOK
<1>8. WaitersAre(t, n + 2, a, b)'
  BY <1>1, <1>2, <1>3, <1>4, <1>5, <1>7 DEF WaitersAre
<1> QED  BY <1>8 DEF t

\* A request that is not joins them at the end.
LEMMA WaitersJoin ==
  ASSUME TypeOK, NEW q \in Seq(Requests), NEW w \in Nat, NEW a \in Nat, NEW b \in Nat,
         1 <= a, b <= w, 1 <= w, w <= Len(q) + 1, WaitersAre(q, w, a, b),
         NEW r \in Requests, status[r] = "idle",
         status' = [status EXCEPT ![r] = "waiting"]
  PROVE  WaitersAre(Append(q, r), w, a, b)'
<1> DEFINE n == Len(q)
           t == Append(q, r)
           V == Waits(n, w, a, b)
           W == Waits(n + 1, w, a, b)
<1>1. /\ n \in Nat /\ t \in Seq(Requests) /\ Len(t) = n + 1 /\ t[n + 1] = r
      /\ \A k \in 1 .. n : t[k] = q[k]
  BY AppendProperties, LenProperties
<1>2. W = V \cup {n + 1} /\ V \in SUBSET (1 .. n) /\ n + 1 \notin V
  BY <1>1 DEF Waits
<1>3. \A k \in V : t[k] = q[k] /\ q[k] \in Requests
  BY <1>1, <1>2, ElementOfSeq
<1>4. /\ \A k \in V : status[q[k]] = "waiting"
      /\ \A k, l \in V : q[k] = q[l] => k = l
      /\ \A s \in Waiters : \E k \in V : q[k] = s
  BY DEF WaitersAre
<1>5. Waiters' = Waiters \cup {r}
  BY DEF Waiters, TypeOK
<1>6. \A k \in V : q[k] # r
  BY <1>4
<1> HIDE DEF V, W, t
<1>7. \A k \in W : status'[t[k]] = "waiting"
  BY <1>1, <1>2, <1>3, <1>4, <1>6 DEF TypeOK
<1>8. \A k, l \in W : t[k] = t[l] => k = l
  BY <1>1, <1>2, <1>3, <1>4, <1>6
<1>9. \A s \in Waiters' : \E k \in W : t[k] = s
  BY <1>1, <1>2, <1>3, <1>4, <1>5
<1>10. WaitersAre(t, w, a, b)'
  BY <1>1, <1>7, <1>8, <1>9 DEF WaitersAre, W
<1> QED  BY <1>10 DEF t

LEMMA HeldGains ==
  ASSUME TypeOK, NEW r \in Requests, status[r] # "granted",
         status' = [status EXCEPT ![r] = "granted"]
  PROVE  Held' = Held \cup {r} /\ Cardinality(Held') = Cardinality(Held) + 1
<1>1. r \notin Held /\ Held' = Held \cup {r}
  BY DEF Held, TypeOK
<1>2. Cardinality(Held \cup {r}) = Cardinality(Held) + 1
  BY <1>1, RequestSets, FS_AddElement
<1> QED  BY <1>1, <1>2

LEMMA WriterArrives ==
  ASSUME TypeOK, NEW q \in Seq(Requests), NEW h \in Nat, NEW w \in Nat, NEW a \in Nat,
         NEW b \in Nat, FrontEnds(q, h, w), GrantsAre(q, h, w, a, b), Len(q) = h,
         NEW r \in Requests, IsExclusive(r), status[r] = "idle",
         status' = [status EXCEPT ![r] = "granted"]
  PROVE  /\ w = Len(q) + 1
         /\ FrontEnds(Append(q, r), h, Len(q) + 2)
         /\ GrantsAre(Append(q, r), h, Len(q) + 2, a, b)'
<1> DEFINE n == Len(q)
           t == Append(q, r)
           c == Cardinality(Held)
<1>1. /\ n \in Nat /\ t \in Seq(Requests) /\ Len(t) = n + 1 /\ t[n + 1] = r
  BY AppendProperties, LenProperties
<1>2. w = n + 1
  BY <1>1 DEF FrontEnds
<1> HIDE DEF t
<1>3. WriterFront(t, h, n + 2)
  BY <1>1 DEF WriterFront
<1>4. FrontEnds(t, h, n + 2)
  BY <1>1, <1>3 DEF FrontEnds
<1>5. c = 0 /\ a = b /\ 1 <= a /\ b <= w
  BY <1>1, <1>2, RequestSets DEF GrantsAre
<1>6. Held = {}
  BY <1>5, RequestSets, FS_EmptySet
<1>7. Held' = {r} /\ Cardinality(Held') = 1
  <2>1. status[r] # "granted"
    OBVIOUS
  <2>2. Held' = Held \cup {r} /\ Cardinality(Held') = Cardinality(Held) + 1
    BY <2>1, HeldGains
  <2> QED  BY <1>5, <1>6, <2>2
<1>8. GrantsAre(t, h, n + 2, a, b)'
  BY <1>1, <1>2, <1>3, <1>5, <1>7 DEF GrantsAre
<1> QED  BY <1>2, <1>4, <1>8 DEF t

LEMMA ReaderArrives ==
  ASSUME TypeOK, NEW q \in Seq(Requests), NEW h \in Nat, NEW w \in Nat, NEW a \in Nat,
         NEW b \in Nat, h <= Len(q), FrontEnds(q, h, w), GrantsAre(q, h, w, a, b),
         \A k \in h + 1 .. Len(q) : ~ IsExclusive(q[k]),
         NEW r \in Requests, ~ IsExclusive(r), status[r] = "idle",
         status' = [status EXCEPT ![r] = "granted"]
  PROVE  /\ w = Len(q) + 1
         /\ FrontEnds(Append(q, r), h, Len(q) + 2)
         /\ GrantsAre(Append(q, r), h, Len(q) + 2, a, b)'
<1> DEFINE n == Len(q)
           t == Append(q, r)
           c == Cardinality(Held)
<1>1. /\ n \in Nat /\ t \in Seq(Requests) /\ Len(t) = n + 1 /\ t[n + 1] = r
      /\ \A k \in 1 .. n : t[k] = q[k]
  BY AppendProperties, LenProperties
<1>2. ~ WriterFront(q, h, w)
  BY <1>1 DEF WriterFront
<1>3. w = n + 1
  <2>1. h + 1 <= w /\ w <= n + 1 /\ (w <= n => IsExclusive(q[w]))
    BY <1>2 DEF FrontEnds, ReaderFront
  <2>2. ~ w <= n
    BY <1>1, <2>1
  <2> QED  BY <1>1, <2>1, <2>2
<1> HIDE DEF t
<1>4. \A k \in h + 1 .. n + 1 : ~ IsExclusive(t[k])
  BY <1>1
<1>5. ReaderFront(t, h, n + 2) /\ ~ WriterFront(t, h, n + 2)
  BY <1>1, <1>4 DEF ReaderFront, WriterFront
<1>6. FrontEnds(t, h, n + 2)
  BY <1>1, <1>5 DEF FrontEnds
<1>7. 1 <= a /\ a <= b /\ b <= w /\ c + (b - a) = w - 1 - h /\ c \in Nat
  BY RequestSets DEF GrantsAre
<1>8. a < b => \A k \in a .. b - 1 : ~ IsExclusive(t[k])
  <2> SUFFICES ASSUME a < b, NEW k \in a .. b - 1
               PROVE  ~ IsExclusive(t[k])
    OBVIOUS
  <2>1. ~ IsExclusive(q[k])
    BY <1>2 DEF GrantsAre
  <2>2. k \in 1 .. n
    BY <1>1, <1>3, <1>7
  <2> QED  BY <1>1, <2>1, <2>2
<1>9. Held' = Held \cup {r} /\ Cardinality(Held') = c + 1
  <2>1. status[r] # "granted"
    OBVIOUS
  <2> QED  BY <2>1, HeldGains
<1>10. \A s \in Held' : ~ IsExclusive(s)
  BY <1>2, <1>9 DEF GrantsAre
<1> HIDE DEF c
<1>11. Cardinality(Held') + (b - a) = (n + 2) - 1 - h /\ b <= n + 2
  <2>1. n \in Nat /\ w = n + 1 /\ c \in Nat /\ c + (b - a) = w - 1 - h /\ b <= w
    BY <1>1, <1>3, <1>7
  <2>2. Cardinality(Held') = c + 1
    BY <1>9
  <2> QED  BY <2>1, <2>2
<1>12. GrantsAre(t, h, n + 2, a, b)'
  BY <1>5, <1>7, <1>8, <1>10, <1>11 DEF GrantsAre
<1> QED  BY <1>3, <1>6, <1>12 DEF t

LEMMA LatecomerArrives ==
  ASSUME TypeOK, NEW q \in Seq(Requests), NEW h \in Nat, NEW w \in Nat, NEW a \in Nat,
         NEW b \in Nat, h <= Len(q), FrontEnds(q, h, w), GrantsAre(q, h, w, a, b),
         NEW r \in Requests, status[r] = "idle",
         IF IsExclusive(r) THEN Len(q) # h
                           ELSE \E k \in h + 1 .. Len(q) : IsExclusive(q[k]),
         status' = [status EXCEPT ![r] = "waiting"]
  PROVE  FrontEnds(Append(q, r), h, w) /\ GrantsAre(Append(q, r), h, w, a, b)'
<1> DEFINE n == Len(q)
           t == Append(q, r)
           c == Cardinality(Held)
<1>1. /\ n \in Nat /\ t \in Seq(Requests) /\ Len(t) = n + 1 /\ t[n + 1] = r
      /\ \A k \in 1 .. n : t[k] = q[k]
  BY AppendProperties, LenProperties
<1>2. h < n
  BY <1>1
<1>3. h + 1 < w /\ w <= n + 1 /\ (WriterFront(q, h, w) \/ ReaderFront(q, h, w))
  BY <1>2 DEF FrontEnds
<1> HIDE DEF t
<1>4. WriterFront(q, h, w) <=> WriterFront(t, h, w)
  BY <1>1, <1>2 DEF WriterFront
<1>5. ReaderFront(q, h, w) => ReaderFront(t, h, w)
  <2> SUFFICES ASSUME ReaderFront(q, h, w)
               PROVE  ReaderFront(t, h, w)
    OBVIOUS
  <2>1. \A k \in h + 1 .. w - 1 : ~ IsExclusive(q[k]) /\ t[k] = q[k]
    <3>1. \A k \in h + 1 .. w - 1 : k \in 1 .. n
      BY <1>1, <1>3
    <3> QED  BY <1>1, <3>1 DEF ReaderFront
  <2>2. CASE w <= n
    BY <1>1, <1>3, <2>1, <2>2 DEF ReaderFront
  <2>3. CASE w = n + 1
    <3>1. ~ \E k \in h + 1 .. n : IsExclusive(q[k])
      BY <1>1, <2>1, <2>3
    <3>2. IsExclusive(r)
      BY <3>1
    <3>3. Len(t) = n + 1 /\ t[w] = r
      BY <1>1, <2>3
    <3>4. \A k \in h + 1 .. w - 1 : ~ IsExclusive(t[k])
      BY <2>1
    <3> QED  BY <3>2, <3>3, <3>4 DEF ReaderFront
  <2> QED  BY <1>1, <1>3, <2>2, <2>3
<1>6. FrontEnds(t, h, w)
  BY <1>1, <1>3, <1>4, <1>5 DEF FrontEnds
<1>7. 1 <= a /\ a <= b /\ b <= w /\ c + (b - a) = w - 1 - h
  BY DEF GrantsAre
<1>8. a < b => \/ WriterFront(t, h, w) /\ a = h + 1
               \/ ReaderFront(t, h, w) /\ \A k \in a .. b - 1 : ~ IsExclusive(t[k])
  <2>1. \A k \in a .. b - 1 : t[k] = q[k]
    <3>1. \A k \in a .. b - 1 : k \in 1 .. n
      BY <1>1, <1>3, <1>7
    <3> QED  BY <1>1, <3>1
  <2> QED  BY <1>4, <1>5, <2>1 DEF GrantsAre
<1>9. Held' = Held
  BY DEF Held, TypeOK
<1>10. \A s \in Held : IsExclusive(s) <=> WriterFront(t, h, w)
  BY <1>4 DEF GrantsAre
<1> HIDE DEF c
<1>11. GrantsAre(t, h, w, a, b)'
  BY <1>7, <1>8, <1>9, <1>10 DEF GrantsAre, c
<1> QED  BY <1>6, <1>11 DEF t

\* What was granted on arrival does not wait; what was not waits behind all the
\* others.
LEMMA AcquireAtSwitchRoom ==
  ASSUME HasRoom, TypeOK, NEW q \in Seq(Requests), NEW h \in Nat, NEW w \in Nat,
         NEW a \in Nat, NEW b \in Nat, QueueIs(q, h, w, a, b),
         NEW r \in Requests, AcquireAtSwitch(r)
  PROVE  \/ /\ GrantedOnArrival(r) /\ w = Len(q) + 1
            /\ IF IsExclusive(r) THEN Len(q) = h
                                 ELSE \A k \in h + 1 .. Len(q) : ~ IsExclusive(q[k])
            /\ QueueIs(Append(q, r), h, Len(q) + 2, a, b)'
         \/ ~ GrantedOnArrival(r) /\ QueueIs(Append(q, r), h, w, a, b)'
<1> DEFINE n == Len(q)
           t == Append(q, r)
<1>2. /\ RingHolds(q, h) /\ RegistersCount(q, h) /\ FrontEnds(q, h, w)
      /\ WaitersAre(q, w, a, b) /\ PacketsRead(recirculating, q, w, a, b) /\ GrantsAre(q, h, w, a, b)
  BY DEF QueueIs
<1>3. n \in Nat /\ t \in Seq(Requests) /\ h <= n
  BY <1>2, LenProperties, AppendProperties DEF RingHolds
<1>4. r \in Requests \ Live /\ status[r] = "idle"
  BY DEF AcquireAtSwitch, Live
<1>5. RingHolds(t, h)' /\ RegistersCount(t, h)'
  BY <1>2, AcquireRing
<1>6. 1 <= a /\ b <= w /\ 1 <= w /\ w <= n + 1
  BY <1>2, <1>3 DEF GrantsAre, FrontEnds
<1>7. CASE GrantedOnArrival(r)
  <2>1. status' = [status EXCEPT ![r] = "granted"]
    BY <1>7 DEF AcquireAtSwitch
  <2>6. IF IsExclusive(r) THEN n = h ELSE \A k \in h + 1 .. n : ~ IsExclusive(q[k])
    BY <1>2, <1>3, <1>4, <1>7, RoomToAcquire
  <2>2. /\ w = n + 1
        /\ FrontEnds(t, h, n + 2) /\ GrantsAre(t, h, n + 2, a, b)'
    <3>1. CASE IsExclusive(r)
      BY <1>2, <1>4, <2>1, <2>6, <3>1, WriterArrives
    <3>2. CASE ~ IsExclusive(r)
      BY <1>2, <1>3, <1>4, <2>1, <2>6, <3>2, ReaderArrives
    <3> QED  BY <3>1, <3>2
  <2>3. WaitersAre(t, n + 2, a, b)'
    BY <1>2, <1>4, <1>6, <2>1, <2>2, GrantedLeavesWaiters
  <2>4. PacketsRead(recirculating, t, n + 2, a, b)'
    <3>1. n + 2 \in Nat /\ w = n + 1
      BY <1>3, <2>2
    <3> QED  BY <1>2, <3>1, AcquireKeepsPackets
  <2> HIDE DEF t
  <2>5. QueueIs(t, h, n + 2, a, b)'
    BY <1>5, <2>2, <2>3, <2>4 DEF QueueIs, FrontEnds, ReaderFront, WriterFront
  <2> QED  BY <1>7, <2>2, <2>5, <2>6 DEF t
<1>8. CASE ~ GrantedOnArrival(r)
  <2>1. status' = [status EXCEPT ![r] = "waiting"]
    BY <1>8 DEF AcquireAtSwitch
  <2>2. IF IsExclusive(r) THEN n # h ELSE \E k \in h + 1 .. n : IsExclusive(q[k])
    BY <1>2, <1>3, <1>4, <1>8, RoomToAcquire
  <2>3. FrontEnds(t, h, w) /\ GrantsAre(t, h, w, a, b)'
    BY <1>2, <1>3, <1>4, <2>1, <2>2, LatecomerArrives
  <2>4. WaitersAre(t, w, a, b)'
    BY <1>2, <1>4, <1>6, <2>1, WaitersJoin
  <2>5. PacketsRead(recirculating, t, w, a, b)'
    BY <1>2, AcquireKeepsPackets
  <2> HIDE DEF t
  <2>6. QueueIs(t, h, w, a, b)'
    BY <1>5, <2>3, <2>4, <2>5 DEF QueueIs
  <2> QED  BY <1>8, <2>6 DEF t
<1> QED  BY <1>7, <1>8

-----------------------------------------------------------------------------
(* Sets of recirculating packets.                                          *)

\* Where none notifies, it does not matter what w, a and b are.
LEMMA NoneNotifies ==
  ASSUME NEW P, NEW q, NEW w, NEW a \in Nat, PacketsRead(P, q, w, a, a),
         NEW v, NEW x \in Nat
  PROVE  PacketsRead(P, q, v, x, x) /\ \A i \in DOMAIN P : ~ Notifies(P[i])
<1>1. ASSUME NEW i \in DOMAIN P
      PROVE  Serves(P[i], q, v, x, x) /\ ~ Notifies(P[i])
  BY DEF PacketsRead, Serves
<1> QED  BY <1>1 DEF PacketsRead

LEMMA FirstPacketGone ==
  ASSUME NEW P \in Seq(RecirculatedPacket), P # << >>, NEW q, NEW w,
         NEW a \in Nat, NEW b \in Nat, PacketsRead(P, q, w, a, b)
  PROVE  /\ ~ Notifies(P[1]) => PacketsRead(Tail(P), q, w, a, b)
         /\ Notifies(P[1]) => \A v : \A x \in Nat : PacketsRead(Tail(P), q, v, x, x)
<1> DEFINE T == Tail(P)
<1>1. /\ Len(P) \in Nat /\ DOMAIN P = 1 .. Len(P) /\ 1 \in DOMAIN P
      /\ DOMAIN T = 1 .. Len(P) - 1 /\ \A i \in DOMAIN T : T[i] = P[i + 1]
  BY HeadTailProperties, LenProperties, EmptySeq
<1>2. \A i \in DOMAIN T : i + 1 \in DOMAIN P /\ i + 1 # 1
  BY <1>1
<1>3. \A i \in DOMAIN P : i # 1 => i - 1 \in DOMAIN T /\ T[i - 1] = P[i]
  BY <1>1
<1>4. \A i, j \in DOMAIN T : i + 1 = j + 1 => i = j
  BY <1>1
<1> HIDE DEF T
<1>5. \A i \in DOMAIN T : Serves(T[i], q, w, a, b)
  BY <1>1, <1>2 DEF PacketsRead
<1>6. \A i, j \in DOMAIN T : Notifies(T[i]) /\ Notifies(T[j]) => i = j
  BY <1>1, <1>2, <1>4 DEF PacketsRead
<1>7. ASSUME ~ Notifies(P[1])
      PROVE  PacketsRead(T, q, w, a, b)
  <2>1. ASSUME a < b
        PROVE  \E i \in DOMAIN T : Notifies(T[i])
    <3>1. PICK i \in DOMAIN P : Notifies(P[i])
      BY <2>1 DEF PacketsRead
    <3>2. i # 1
      BY <1>7, <3>1
    <3>3. i - 1 \in DOMAIN T /\ T[i - 1] = P[i]
      BY <1>3, <3>2
    <3> QED  BY <3>1, <3>3
  <2> QED  BY <1>5, <1>6, <2>1 DEF PacketsRead
<1>8. ASSUME Notifies(P[1]), NEW v, NEW x \in Nat
      PROVE  PacketsRead(T, q, v, x, x)
  <2>1. \A i \in DOMAIN T : ~ Notifies(T[i])
    BY <1>1, <1>2, <1>8 DEF PacketsRead
  <2>2. \A i \in DOMAIN T : Serves(T[i], q, v, x, x)
    BY <1>5, <2>1 DEF Serves
  <2> QED  BY <2>1, <2>2 DEF PacketsRead
<1> QED  BY <1>7, <1>8 DEF T

LEMMA PacketJoins ==
  ASSUME NEW P \in Seq(RecirculatedPacket), NEW p \in RecirculatedPacket,
         NEW q, NEW w, NEW a \in Nat, NEW b \in Nat, Serves(p, q, w, a, b),
         \/ ~ Notifies(p) /\ PacketsRead(P, q, w, a, b)
         \/ Notifies(p) /\ PacketsRead(P, q, w, a, a)
  PROVE  PacketsRead(Append(P, p), q, w, a, b)
<1> DEFINE T == Append(P, p)
           n == Len(P) + 1
<1>1. /\ DOMAIN T = DOMAIN P \cup {n} /\ n \notin DOMAIN P /\ T[n] = p
      /\ \A i \in DOMAIN P : T[i] = P[i]
  <2>1. Len(P) \in Nat /\ DOMAIN P = 1 .. Len(P)
    BY LenProperties
  <2>2. /\ T \in Seq(RecirculatedPacket) /\ Len(T) = n /\ T[n] = p
        /\ \A i \in 1 .. Len(P) : T[i] = P[i]
    BY AppendProperties
  <2>3. DOMAIN T = 1 .. n
    BY <2>2, LenProperties
  <2> QED  BY <2>1, <2>2, <2>3
<1> HIDE DEF T, n
<1>2. CASE ~ Notifies(p) /\ PacketsRead(P, q, w, a, b)
  <2>1. \A i \in DOMAIN T : Serves(T[i], q, w, a, b)
    BY <1>1, <1>2 DEF PacketsRead
  <2>2. \A i \in DOMAIN T : Notifies(T[i]) => i \in DOMAIN P /\ Notifies(P[i])
    BY <1>1, <1>2
  <2>3. \A i, j \in DOMAIN T : Notifies(T[i]) /\ Notifies(T[j]) => i = j
    BY <1>2, <2>2 DEF PacketsRead
  <2>4. a < b => \E i \in DOMAIN T : Notifies(T[i])
    BY <1>1, <1>2 DEF PacketsRead
  <2> QED  BY <2>1, <2>3, <2>4 DEF PacketsRead, T
<1>3. CASE Notifies(p) /\ PacketsRead(P, q, w, a, a)
  <2>1. \A i \in DOMAIN P : ~ Notifies(P[i])
    BY <1>3, NoneNotifies
  <2>2. \A i \in DOMAIN P : Serves(P[i], q, w, a, b)
    BY <1>3, <2>1 DEF PacketsRead, Serves
  <2>3. \A i \in DOMAIN T : Serves(T[i], q, w, a, b)
    BY <1>1, <2>2
  <2>4. \A i \in DOMAIN T : Notifies(T[i]) => i = n
    BY <1>1, <2>1
  <2>5. n \in DOMAIN T /\ Notifies(T[n])
    BY <1>1, <1>3
  <2> QED  BY <2>3, <2>4, <2>5 DEF PacketsRead, T
<1> QED  BY <1>2, <1>3 DEF T

\* What packets do depends on the slots only.
LEMMA PacketsOfNext ==
  ASSUME NEW q, NEW w, NEW a, NEW b, NEW P, PacketsRead(P, q, w, a, b),
         slot' = slot, recirculating' = P
  PROVE  PacketsRead(recirculating, q, w, a, b)'
BY DEF PacketsRead, Serves, Notifies

-----------------------------------------------------------------------------
(* A RELEASE pops the head.                                                *)

LEMMA FrontExists ==
  ASSUME NEW q \in Seq(Requests), NEW h \in Nat, h < Len(q)
  PROVE  \E v \in Nat : FrontEnds(q, h, v) /\ h + 1 < v
<1>1. Len(q) \in Nat
  BY LenProperties
<1>2. CASE IsExclusive(q[h + 1])
  <2>1. FrontEnds(q, h, h + 2) /\ h + 2 \in Nat
    BY <1>1, <1>2 DEF FrontEnds, WriterFront
  <2> QED  BY <2>1
<1>3. CASE ~ IsExclusive(q[h + 1])
  <2> DEFINE X == {k \in h + 1 .. Len(q) : IsExclusive(q[k])}
  <2>1. CASE X = {}
    <3>1. ReaderFront(q, h, Len(q) + 1)
      BY <1>1, <2>1 DEF ReaderFront
    <3>2. FrontEnds(q, h, Len(q) + 1) /\ Len(q) + 1 \in Nat /\ h + 1 < Len(q) + 1
      BY <1>1, <3>1 DEF FrontEnds
    <3> QED  BY <3>2
  <2>2. CASE X # {}
    <3>1. PICK v \in X : \A k \in X : v <= k
      <4>1. X \in SUBSET Nat
        BY <1>1
      <4> HIDE DEF X
      <4> QED  BY <2>2, <4>1, LeastElement
    <3>2. v \in h + 1 .. Len(q) /\ IsExclusive(q[v]) /\ v # h + 1
      BY <1>3, <3>1
    <3>3. \A k \in h + 1 .. v - 1 : ~ IsExclusive(q[k])
      BY <1>1, <3>1, <3>2
    <3>4. FrontEnds(q, h, v) /\ v \in Nat /\ h + 1 < v
      BY <1>1, <3>2, <3>3 DEF FrontEnds, ReaderFront
    <3> QED  BY <3>4
  <2> QED  BY <2>1, <2>2
<1> QED  BY <1>2, <1>3

LEMMA HeldLoses ==
  ASSUME TypeOK, NEW r \in Held, status' = [status EXCEPT ![r] = "idle"]
  PROVE  /\ Held' = Held \ {r} /\ Cardinality(Held') = Cardinality(Held) - 1
         /\ Cardinality(Held) \in Nat /\ Cardinality(Held) >= 1
         /\ Waiters' = Waiters
<1>1. Held' = Held \ {r} /\ Waiters' = Waiters
  BY DEF Held, Waiters, TypeOK
<1>2. Cardinality(Held \ {r}) = Cardinality(Held) - 1
  BY RequestSets, FS_RemoveElement
<1>3. Cardinality(Held \ {r}) \in Nat /\ Cardinality(Held) \in Nat
  BY RequestSets, FS_RemoveElement, FS_CardinalityType
<1>4. Cardinality(Held) >= 1
  BY <1>2, <1>3
<1> QED  BY <1>1, <1>2, <1>3, <1>4

\* The front has an entry for the holder, and of its mode.
LEMMA HolderInFront ==
  ASSUME TypeOK, NEW q \in Seq(Requests), NEW h \in Nat, NEW w \in Nat, NEW a \in Nat,
         NEW b \in Nat, FrontEnds(q, h, w), GrantsAre(q, h, w, a, b), NEW r \in Held
  PROVE  /\ h < Len(q) /\ h + 2 <= w /\ w <= Len(q) + 1
         /\ IsExclusive(r) <=> IsExclusive(q[h + 1])
         /\ WriterFront(q, h, w) <=> IsExclusive(q[h + 1])
         /\ w = h + 2 => Held = {r} /\ a = b
         /\ IsExclusive(q[h + 1]) => w = h + 2
<1> DEFINE c == Cardinality(Held)
<1>1. Len(q) \in Nat
  BY LenProperties
<1>2. c \in Nat /\ c >= 1
  <2>1. c \in Nat /\ (c = 0 <=> Held = {})
    BY RequestSets, FS_EmptySet
  <2> QED  BY <2>1
<1>3. a <= b /\ c + (b - a) = w - 1 - h
  BY DEF GrantsAre
<1>4. w <= Len(q) + 1
  BY DEF FrontEnds
<1> HIDE DEF c
<1>5. h + 2 <= w /\ h < Len(q)
  BY <1>1, <1>2, <1>3, <1>4
<1>6. WriterFront(q, h, w) <=> IsExclusive(q[h + 1])
  <2>1. ReaderFront(q, h, w) => ~ IsExclusive(q[h + 1])
    BY <1>5 DEF ReaderFront
  <2> QED  BY <2>1 DEF WriterFront, FrontEnds
<1>7. IsExclusive(r) <=> WriterFront(q, h, w)
  BY DEF GrantsAre
<1>8. w = h + 2 => c = 1 /\ a = b
  BY <1>2, <1>3
<1>9. c = 1 => Held = {r}
  BY RequestSets, FS_Singleton DEF c
<1>10. IsExclusive(q[h + 1]) => w = h + 2
  BY <1>6 DEF WriterFront
<1> QED  BY <1>4, <1>5, <1>6, <1>7, <1>8, <1>9, <1>10

LEMMA PopRing ==
  ASSUME TypeOK, NEW q \in Seq(Requests), NEW h \in Nat, h < Len(q),
         RingHolds(q, h), RegistersCount(q, h),
         NEW r \in Requests, ReleaseAtSwitch(r), IsExclusive(r) <=> IsExclusive(q[h + 1])
  PROVE  RingHolds(q, h + 1)' /\ RegistersCount(q, h + 1)'
<1> DEFINE n == Len(q)
           x == Cardinality(Window(q, h, Exclusive))
           s == Cardinality(Window(q, h, Requests \ Exclusive))
           y == Cardinality(Window(q, h + 1, Exclusive))
           t == Cardinality(Window(q, h + 1, Requests \ Exclusive))
<1>1. n \in Nat /\ q[h + 1] \in Requests
  <2>1. h + 1 \in 1 .. n /\ n \in Nat
    BY LenProperties
  <2> QED  BY <2>1, ElementOfSeq
<1>2. /\ emptySlots' = Incr(emptySlots) /\ head' = After(head)
      /\ tail' = tail /\ slot' = slot /\ lengthInServer' = lengthInServer
      /\ UNCHANGED serverVars
      /\ status[r] = "granted" /\ status' = [status EXCEPT ![r] = "idle"]
  BY DEF ReleaseAtSwitch, PopOnRelease
<1>3. RingHolds(q, h + 1)'
  <2>1. head' = RingSlot((h + 1) + 1)
    <3>1. h + 1 \in Nat /\ h + 1 > 0
      OBVIOUS
    <3>2. After(RingSlot(h + 1)) = RingSlot((h + 1) + 1)
      BY <3>1, RingSlots
    <3> QED  BY <1>2, <3>2 DEF RingHolds
  <2>2. h + 1 <= n /\ n - (h + 1) <= Capacity
    BY <1>1, CapacityType DEF RingHolds
  <2> QED  BY <1>2, <2>1, <2>2 DEF RingHolds
<1>4. x \in Nat /\ x <= n - h /\ s \in Nat /\ s <= n - h
  BY <1>1, WindowFinite
<1>5. y \in Nat /\ t \in Nat
  <2>1. h + 1 \in Nat /\ h + 1 <= Len(q)
    BY <1>1
  <2> QED  BY <2>1, WindowFinite
<1>6. /\ y = x - (IF q[h + 1] \in Exclusive THEN 1 ELSE 0)
      /\ t = s - (IF q[h + 1] \in Requests \ Exclusive THEN 1 ELSE 0)
  BY WindowPop
<1>7. numExclusive = x /\ numShared = s /\ lengthInServer = 0
      /\ emptySlots = Capacity - (n - h) /\ n - h <= Capacity
  BY DEF RegistersCount, RingHolds
<1>8. emptySlots' = Capacity - (n - (h + 1))
  <2>1. Capacity \in Nat /\ Capacity < RegisterModulus /\ n - h \in Nat /\ n - h >= 1
    BY <1>1, CapacityType DEF Capacity
  <2> HIDE DEF n, x, s, y, t
  <2>2. Capacity - (n - h) # RegisterModulus - 1
    BY <1>1, <2>1
  <2>3. emptySlots' = Capacity - (n - h) + 1
    BY <1>2, <1>7, <2>2 DEF Incr
  <2> QED  BY <1>1, <2>1, <2>3
<1> HIDE DEF n, x, s, y, t
<1>9. numExclusive' = y /\ numShared' = t
  <2>1. CASE IsExclusive(r)
    <3>1. y = x - 1 /\ t = s
      BY <1>1, <1>4, <1>6, <2>1 DEF IsExclusive
    <3>2. numExclusive' = Decr(numExclusive) /\ numShared' = numShared
      BY <2>1 DEF ReleaseAtSwitch, PopOnRelease
    <3>3. Decr(x) = x - 1
      BY <1>4, <1>5, <3>1 DEF Decr
    <3> QED  BY <1>7, <3>1, <3>2, <3>3
  <2>2. CASE ~ IsExclusive(r)
    <3>1. t = s - 1 /\ y = x
      BY <1>1, <1>4, <1>6, <2>2 DEF IsExclusive
    <3>2. numShared' = Decr(numShared) /\ numExclusive' = numExclusive
      BY <2>2 DEF ReleaseAtSwitch, PopOnRelease
    <3>3. Decr(s) = s - 1
      BY <1>4, <1>5, <3>1 DEF Decr
    <3> QED  BY <1>7, <3>1, <3>2, <3>3
  <2> QED  BY <2>1, <2>2
<1>10. Cardinality(Live') = n - (h + 1)
  <2>1. Live' = Live \ {r} /\ r \in Live
    BY <1>2 DEF Live, TypeOK
  <2>2. Cardinality(Live \ {r}) = Cardinality(Live) - 1
    BY <2>1, LiveBound, FS_RemoveElement
  <2>3. Cardinality(Live) = n - h
    BY DEF RegistersCount, n
  <2> QED  BY <1>1, <2>1, <2>2, <2>3
<1>11. RegistersCount(q, h + 1)'
  <2>1. toServer' = << >> /\ buffer' = << >> /\ fromServer' = << >> /\ lengthInServer' = 0
    BY <1>2, <1>7 DEF RegistersCount, serverVars
  <2> QED  BY <2>1, <1>8, <1>9, <1>10 DEF RegistersCount, n, y, t
<1> QED  BY <1>3, <1>11

\* The packet a pop sends round, if any.
PopPacket(q, h) ==
  [flag |-> 1, dequeuedExclusive |-> IsExclusive(q[h + 1]),
   curHead |-> RingSlot(h + 2), curTail |-> RingSlot(Len(q) + 1)]

LEMMA PopSends ==
  ASSUME TypeOK, NEW q \in Seq(Requests), NEW h \in Nat, h < Len(q), RingHolds(q, h)
  PROVE  /\ Len(q) = h + 1 => FollowUp = << >>
         /\ Len(q) > h + 1 =>
              /\ FollowUp = << PopPacket(q, h) >>
              /\ PopPacket(q, h) \in RecirculatedPacket
              /\ Reads(q, PopPacket(q, h), h + 2, Len(q) + 1)
              /\ Notifies(PopPacket(q, h)) <=> IsExclusive(q[h + 1]) \/ IsExclusive(q[h + 2])
<1> DEFINE n == Len(q)
           p == PopPacket(q, h)
<1>1. n \in Nat /\ n - h <= Capacity /\ Capacity \in Nat /\ Capacity > 0
  BY LenProperties, CapacityType DEF RingHolds
<1>2. tail = RingSlot(n + 1) /\ head = RingSlot(h + 1)
  BY DEF RingHolds
<1>3. After(head) = RingSlot(h + 2)
  <2>1. h + 1 \in Nat /\ h + 1 > 0 /\ (h + 1) + 1 = h + 2
    OBVIOUS
  <2>2. After(RingSlot(h + 1)) = RingSlot((h + 1) + 1)
    BY <2>1, RingSlots
  <2> QED  BY <1>2, <2>1, <2>2
<1>4. n = h + 1 => FollowUp = << >>
  BY <1>2, <1>3 DEF FollowUp
<1>5. ASSUME n > h + 1
      PROVE  /\ FollowUp = << p >> /\ p \in RecirculatedPacket
             /\ Reads(q, p, h + 2, n + 1)
             /\ Notifies(p) <=> IsExclusive(q[h + 1]) \/ IsExclusive(q[h + 2])
  <2>1. /\ h + 2 \in Nat /\ n + 1 \in Nat /\ 0 < h + 2 /\ h + 2 < n + 1
        /\ n + 1 - (h + 2) < Capacity /\ n + 1 > 0
    BY <1>1, <1>5
  <2>2. After(head) # tail
    BY <1>2, <1>3, <2>1, RingSlots
  <2>3. RingSlot(h + 2) \in Slots /\ RingSlot(n + 1) \in Slots
    BY <2>1, RingSlots
  <2>4. slot[head] = q[h + 1] /\ slot[RingSlot(h + 2)] = q[h + 2]
    <3>1. h + 1 \in 1 .. n /\ n - (h + 1) < Capacity /\ h + 2 \in 1 .. n /\ n - (h + 2) < Capacity
      BY <1>1, <1>5
    <3> QED  BY <1>2, <3>1 DEF RingHolds
  <2>5. FollowUp = << p >>
    BY <1>2, <1>3, <2>2, <2>4 DEF FollowUp, PopPacket
  <2>6. p \in RecirculatedPacket
    <3>1. IsExclusive(q[h + 1]) \in BOOLEAN
      BY DEF IsExclusive
    <3> QED  BY <2>3, <3>1 DEF PopPacket, RecirculatedPacket
  <2>7. Reads(q, p, h + 2, n + 1)
    <3>1. 1 <= h + 2 /\ n - (h + 2) < Capacity
      BY <1>1, <1>5
    <3> QED  BY <2>1, <3>1 DEF Reads, PopPacket
  <2>8. Notifies(p) <=> IsExclusive(q[h + 1]) \/ IsExclusive(q[h + 2])
    <3>1. p.flag = 1 /\ p.curHead = RingSlot(h + 2) /\ p.dequeuedExclusive = IsExclusive(q[h + 1])
      BY DEF PopPacket
    <3> HIDE DEF p
    <3> QED  BY <2>4, <3>1 DEF Notifies
  <2> QED  BY <2>5, <2>6, <2>7, <2>8
<1> QED  BY <1>4, <1>5

\* The positions that wait, in order, are the same before and after.
SameLine(q, w, a, b, v, x, y) ==
  \/ v = w /\ x = a /\ y = b
  \/ a = b /\ x = w /\ y = v /\ w <= v /\ v <= Len(q) + 1

\* The last of the front leaves: the next front, if there is one, is to be
\* granted whole, by the packet the pop sends round.
LEMMA FrontChanges ==
  ASSUME TypeOK, NEW q \in Seq(Requests), NEW h \in Nat, NEW a \in Nat,
         RingHolds(q, h), FrontEnds(q, h, h + 2), GrantsAre(q, h, h + 2, a, a),
         WaitersAre(q, h + 2, a, a), PacketsRead(recirculating, q, h + 2, a, a),
         NEW r \in Requests, ReleaseAtSwitch(r), Held = {r}
  PROVE  \E v, x, y \in Nat :
            /\ SameLine(q, h + 2, a, a, v, x, y) /\ FrontEnds(q, h + 1, v) /\ GrantsAre(q, h + 1, v, x, y)'
            /\ WaitersAre(q, v, x, y)' /\ PacketsRead(recirculating, q, v, x, y)'
<1> DEFINE n == Len(q)
<1>1. n \in Nat /\ h + 2 <= n + 1
  BY LenProperties DEF FrontEnds
<1>2. /\ status[r] = "granted" /\ status' = [status EXCEPT ![r] = "idle"]
      /\ slot' = slot /\ recirculating' = recirculating \o FollowUp
  BY DEF ReleaseAtSwitch, PopOnRelease
<1>3. Waiters' = Waiters /\ Held' = {} /\ Cardinality(Held') = 0
  <2>1. r \in Held
    OBVIOUS
  <2>2. Held' = Held \ {r} /\ Waiters' = Waiters
    BY <1>2, <2>1, HeldLoses
  <2> QED  BY <2>2, FS_EmptySet
<1>4. 1 <= a
  BY DEF GrantsAre
<1>5. recirculating \in Seq(RecirculatedPacket)
  BY DEF TypeOK
<1>6. \A k \in h + 2 .. n : status'[q[k]] = "waiting"
  <2> SUFFICES ASSUME NEW k \in h + 2 .. n
               PROVE  status'[q[k]] = "waiting"
    OBVIOUS
  <2>1. status[q[k]] = "waiting"
    BY DEF WaitersAre, Waits
  <2> QED  BY <1>2, <2>1 DEF TypeOK
<1>7. ASSUME NEW v \in Nat, NEW x \in Nat, NEW y \in Nat,
             Waits(n, v, x, y) = Waits(n, h + 2, a, a)
      PROVE  WaitersAre(q, v, x, y)'
  <2>1. Waits(n, h + 2, a, a) = h + 2 .. n
    BY <1>4 DEF Waits
  <2> QED  BY <1>3, <1>6, <1>7, <2>1 DEF WaitersAre
<1>8. CASE n = h + 1
  <2>1. recirculating' = recirculating
    <3>1. FollowUp = << >>
      BY <1>1, <1>8, PopSends
    <3> QED  BY <1>2, <1>5, <3>1, ConcatEmptySeq
  <2>2. FrontEnds(q, h + 1, h + 2)
    BY <1>8 DEF FrontEnds, ReaderFront
  <2>3. ~ WriterFront(q, h + 1, h + 2)
    BY DEF WriterFront
  <2>4. GrantsAre(q, h + 1, h + 2, a, a)'
    BY <1>3, <1>4, <2>3 DEF GrantsAre
  <2>5. WaitersAre(q, h + 2, a, a)'
    BY <1>7
  <2>6. PacketsRead(recirculating, q, h + 2, a, a)'
    BY <1>2, <2>1, PacketsOfNext
  <2>7. SameLine(q, h + 2, a, a, h + 2, a, a) /\ h + 2 \in Nat
    BY DEF SameLine
  <2> QED  BY <2>2, <2>4, <2>5, <2>6, <2>7
<1>9. CASE n # h + 1
  <2> DEFINE p == PopPacket(q, h)
             x == h + 2
  <2>1. n > h + 1 /\ h + 1 < n /\ h + 1 \in Nat /\ x \in Nat /\ n + 1 \in Nat
    BY <1>1, <1>9
  <2>2. /\ FollowUp = << p >> /\ p \in RecirculatedPacket
        /\ Reads(q, p, x, n + 1)
        /\ Notifies(p) <=> IsExclusive(q[h + 1]) \/ IsExclusive(q[h + 2])
    BY <2>1, PopSends
  <2>3. IsExclusive(q[h + 1]) \/ IsExclusive(q[h + 2])
    BY <2>1 DEF FrontEnds, WriterFront, ReaderFront
  <2>4. recirculating' = Append(recirculating, p)
    BY <1>2, <1>5, <2>2, AppendIsConcat
  <2>5. PICK v \in Nat : FrontEnds(q, h + 1, v) /\ (h + 1) + 1 < v
    BY <2>1, FrontExists
  <2>6. x < v /\ v <= n + 1
    BY <2>1, <2>5 DEF FrontEnds
  <2> HIDE DEF p
  <2>7. Serves(p, q, v, x, v)
    BY <2>1, <2>2, <2>6 DEF Serves
  <2>8. PacketsRead(recirculating, q, v, x, x)
    BY <2>1, NoneNotifies
  <2>9. PacketsRead(Append(recirculating, p), q, v, x, v)
    BY <1>5, <2>1, <2>2, <2>3, <2>7, <2>8, PacketJoins
  <2>10. PacketsRead(recirculating, q, v, x, v)'
    BY <1>2, <2>4, <2>9, PacketsOfNext
  <2>11. WaitersAre(q, v, x, v)'
    <3>1. Waits(n, v, x, v) = Waits(n, h + 2, a, a)
      BY <1>1, <1>4, <2>1, <2>6 DEF Waits
    <3> QED  BY <1>7, <2>1, <3>1
  <2>12. GrantsAre(q, h + 1, v, x, v)'
    <3>1. \/ WriterFront(q, h + 1, v) /\ x = (h + 1) + 1
          \/ ReaderFront(q, h + 1, v) /\ \A k \in x .. v - 1 : ~ IsExclusive(q[k])
      BY <2>1, <2>5 DEF FrontEnds, ReaderFront
    <3>2. 1 <= x /\ x <= v /\ v <= v /\ 0 + (v - x) = v - 1 - (h + 1)
      BY <2>1, <2>6
    <3> QED  BY <1>3, <3>1, <3>2 DEF GrantsAre
  <2>13. SameLine(q, h + 2, a, a, v, x, v)
    BY <2>6 DEF SameLine
  <2> QED  BY <2>1, <2>5, <2>10, <2>11, <2>12, <2>13
<1> QED  BY <1>8, <1>9

\* One of several readers leaves: the packet of the pop finds a reader next,
\* and does nothing.
LEMMA FrontShrinks ==
  ASSUME TypeOK, NEW q \in Seq(Requests), NEW h \in Nat, NEW w \in Nat,
         NEW a \in Nat, NEW b \in Nat, w # h + 2,
         RingHolds(q, h), FrontEnds(q, h, w), GrantsAre(q, h, w, a, b),
         WaitersAre(q, w, a, b), PacketsRead(recirculating, q, w, a, b),
         NEW r \in Requests, ReleaseAtSwitch(r)
  PROVE  /\ FrontEnds(q, h + 1, w) /\ GrantsAre(q, h + 1, w, a, b)'
         /\ WaitersAre(q, w, a, b)' /\ PacketsRead(recirculating, q, w, a, b)'
<1> DEFINE n == Len(q)
           p == PopPacket(q, h)
           c == Cardinality(Held)
<1>1. /\ status[r] = "granted" /\ status' = [status EXCEPT ![r] = "idle"]
      /\ slot' = slot /\ recirculating' = recirculating \o FollowUp
  BY DEF ReleaseAtSwitch, PopOnRelease
<1>2. r \in Held
  BY <1>1 DEF Held
<1>3. /\ n \in Nat /\ h < n /\ h + 2 < w /\ w <= n + 1 /\ n > h + 1
      /\ ~ IsExclusive(q[h + 1]) /\ ~ WriterFront(q, h, w)
  <2>1. /\ h < n /\ h + 2 <= w /\ w <= n + 1
        /\ WriterFront(q, h, w) <=> IsExclusive(q[h + 1])
        /\ IsExclusive(q[h + 1]) => w = h + 2
    BY <1>2, HolderInFront
  <2>2. n \in Nat
    BY LenProperties
  <2> QED  BY <2>1, <2>2
<1>4. ReaderFront(q, h, w)
  BY <1>3 DEF FrontEnds
<1>5. ~ IsExclusive(q[h + 2]) /\ ~ WriterFront(q, h + 1, w)
  BY <1>3, <1>4 DEF ReaderFront, WriterFront
<1>6. ReaderFront(q, h + 1, w)
  BY <1>3, <1>4 DEF ReaderFront
<1>7. FrontEnds(q, h + 1, w)
  BY <1>3, <1>6 DEF FrontEnds
<1>8. /\ Held' = Held \ {r} /\ Cardinality(Held') = c - 1 /\ c \in Nat
      /\ Waiters' = Waiters
  BY <1>1, <1>2, HeldLoses
<1>9. GrantsAre(q, h + 1, w, a, b)'
  <2>1. 1 <= a /\ a <= b /\ b <= w /\ c + (b - a) = w - 1 - h
    BY DEF GrantsAre
  <2>2. a < b => ReaderFront(q, h + 1, w) /\ \A k \in a .. b - 1 : ~ IsExclusive(q[k])
    BY <1>3, <1>6 DEF GrantsAre
  <2>3. \A s \in Held' : ~ IsExclusive(s)
    BY <1>3, <1>8 DEF GrantsAre
  <2> HIDE DEF c
  <2>4. Cardinality(Held') + (b - a) = w - 1 - (h + 1)
    BY <1>8, <2>1
  <2> QED  BY <1>5, <2>1, <2>2, <2>3, <2>4 DEF GrantsAre
<1>10. WaitersAre(q, w, a, b)'
  <2>1. ASSUME NEW k \in Waits(n, w, a, b)
        PROVE  status'[q[k]] = "waiting"
    <3>1. status[q[k]] = "waiting"
      BY DEF WaitersAre
    <3> QED  BY <1>1, <3>1 DEF TypeOK
  <2> QED  BY <1>8, <2>1 DEF WaitersAre
<1>11. PacketsRead(recirculating, q, w, a, b)'
  <2>1. /\ FollowUp = << p >> /\ p \in RecirculatedPacket
        /\ Reads(q, p, h + 2, n + 1) /\ ~ Notifies(p)
    BY <1>3, <1>5, PopSends
  <2>2. recirculating \in Seq(RecirculatedPacket)
    BY DEF TypeOK
  <2>3. recirculating' = Append(recirculating, p)
    BY <1>1, <2>1, <2>2, AppendIsConcat
  <2>4. h + 2 \in Nat /\ n + 1 \in Nat
    BY <1>3
  <2> HIDE DEF p
  <2>5. Serves(p, q, w, a, b)
    BY <2>1, <2>4 DEF Serves
  <2>6. PacketsRead(Append(recirculating, p), q, w, a, b)
    BY <2>1, <2>2, <2>5, PacketJoins
  <2> QED  BY <1>1, <2>3, <2>6, PacketsOfNext
<1> QED  BY <1>7, <1>9, <1>10, <1>11

LEMMA ReleaseAtSwitchRoom ==
  ASSUME TypeOK, NEW q \in Seq(Requests), NEW h \in Nat, NEW w \in Nat,
         NEW a \in Nat, NEW b \in Nat, QueueIs(q, h, w, a, b),
         NEW r \in Requests, ReleaseAtSwitch(r)
  PROVE  \E v, x, y \in Nat :
            SameLine(q, w, a, b, v, x, y) /\ QueueIs(q, h + 1, v, x, y)'
<1>1. /\ RingHolds(q, h) /\ RegistersCount(q, h) /\ FrontEnds(q, h, w)
      /\ WaitersAre(q, w, a, b) /\ PacketsRead(recirculating, q, w, a, b)
      /\ GrantsAre(q, h, w, a, b)
  BY DEF QueueIs
<1>2. r \in Held
  BY DEF ReleaseAtSwitch, Held
<1>3. /\ h < Len(q) /\ (IsExclusive(r) <=> IsExclusive(q[h + 1]))
      /\ w = h + 2 => Held = {r} /\ a = b
  BY <1>1, <1>2, HolderInFront
<1>4. RingHolds(q, h + 1)' /\ RegistersCount(q, h + 1)'
  BY <1>1, <1>3, PopRing
<1>5. \E v, x, y \in Nat :
        /\ SameLine(q, w, a, b, v, x, y)
        /\ FrontEnds(q, h + 1, v) /\ GrantsAre(q, h + 1, v, x, y)'
        /\ WaitersAre(q, v, x, y)' /\ PacketsRead(recirculating, q, v, x, y)'
  <2>1. CASE w = h + 2
    <3>1. Held = {r} /\ a = b
      BY <1>3, <2>1
    <3>2. /\ FrontEnds(q, h, h + 2) /\ WaitersAre(q, h + 2, a, a)
          /\ PacketsRead(recirculating, q, h + 2, a, a) /\ GrantsAre(q, h, h + 2, a, a)
      BY <1>1, <2>1, <3>1
    <3>3. \E v, x, y \in Nat :
            /\ SameLine(q, h + 2, a, a, v, x, y)
            /\ FrontEnds(q, h + 1, v) /\ GrantsAre(q, h + 1, v, x, y)'
            /\ WaitersAre(q, v, x, y)' /\ PacketsRead(recirculating, q, v, x, y)'
      BY <1>1, <3>1, <3>2, FrontChanges
    <3>4. \A v, x, y : SameLine(q, h + 2, a, a, v, x, y) <=> SameLine(q, w, a, b, v, x, y)
      BY <2>1, <3>1
    <3> QED  BY <3>3, <3>4
  <2>2. CASE w # h + 2
    <3>1. SameLine(q, w, a, b, w, a, b)
      BY DEF SameLine
    <3> QED  BY <1>1, <2>2, <3>1, FrontShrinks
  <2> QED  BY <2>1, <2>2
<1>6. PICK v \in Nat, x \in Nat, y \in Nat :
        /\ SameLine(q, w, a, b, v, x, y)
        /\ FrontEnds(q, h + 1, v) /\ GrantsAre(q, h + 1, v, x, y)'
        /\ WaitersAre(q, v, x, y)' /\ PacketsRead(recirculating, q, v, x, y)'
  BY <1>5
<1>7. QueueIs(q, h + 1, v, x, y)'
  BY <1>4, <1>6 DEF QueueIs, FrontEnds, ReaderFront, WriterFront
<1> QED  BY <1>6, <1>7

-----------------------------------------------------------------------------
(* A packet makes one more pass.                                           *)

\* What a pass that notifies goes on to do.
LEMMA NotifyingPass ==
  ASSUME TypeOK, NEW q \in Seq(Requests), NEW h \in Nat, NEW w \in Nat,
         NEW a \in Nat, NEW b \in Nat, RingHolds(q, h), FrontEnds(q, h, w),
         GrantsAre(q, h, w, a, b), PacketsRead(recirculating, q, w, a, b),
         recirculating # << >>, Notifies(Head(recirculating))
  PROVE  /\ a < b /\ a \in 1 .. Len(q) /\ slot[Head(recirculating).curHead] = q[a]
         /\ IsExclusive(q[a]) <=> WriterFront(q, h, w)
         /\ PacketsRead(Tail(recirculating) \o NextPass(Head(recirculating)), q, w, a + 1, b)
<1> DEFINE n == Len(q)
           p == Head(recirculating)
           T == Tail(recirculating)
           s == [p EXCEPT !.flag = 2, !.curHead = After(@)]
<1>1. /\ recirculating \in Seq(RecirculatedPacket) /\ recirculating[1] = p
      /\ p \in RecirculatedPacket /\ T \in Seq(RecirculatedPacket)
      /\ 1 \in DOMAIN recirculating
  <2>1. recirculating \in Seq(RecirculatedPacket)
    BY DEF TypeOK
  <2>2. /\ p = recirculating[1] /\ p \in RecirculatedPacket
        /\ T \in Seq(RecirculatedPacket)
    BY <2>1, HeadTailProperties
  <2>3. 1 \in DOMAIN recirculating
    BY <2>1, LenProperties, EmptySeq
  <2> QED  BY <2>1, <2>2, <2>3
<1>2. n \in Nat
  BY LenProperties
<1>3. PICK e \in Nat : Reads(q, p, a, e) /\ a < b /\ b <= e /\ b \in {e, w}
  <2>1. Serves(p, q, w, a, b)
    BY <1>1 DEF PacketsRead
  <2> QED  BY <2>1 DEF Serves
<1>4. a \in 1 .. n /\ slot[p.curHead] = q[a]
  BY <1>3, ReadsQueued
<1>5. 1 <= a /\ a < e /\ e <= n + 1 /\ n - a < Capacity /\ e - a < Capacity
      /\ p.curHead = RingSlot(a) /\ p.curTail = RingSlot(e)
  BY <1>3 DEF Reads
<1>6. /\ b <= w /\ w <= n + 1 /\ h + 1 <= w
      /\ \/ WriterFront(q, h, w) /\ a = h + 1
         \/ ReaderFront(q, h, w) /\ \A k \in a .. b - 1 : ~ IsExclusive(q[k])
  BY <1>3 DEF GrantsAre, FrontEnds
<1>7. ReaderFront(q, h, w) => ~ WriterFront(q, h, w)
  <2> SUFFICES ASSUME ReaderFront(q, h, w), WriterFront(q, h, w)
               PROVE  FALSE
    OBVIOUS
  <2>1. w = h + 2 /\ IsExclusive(q[h + 1]) /\ h + 1 \in h + 1 .. w - 1
    BY DEF WriterFront
  <2> QED  BY <2>1 DEF ReaderFront
<1>8. IsExclusive(q[a]) <=> WriterFront(q, h, w)
  <2>1. CASE WriterFront(q, h, w) /\ a = h + 1
    BY <2>1 DEF WriterFront
  <2>2. CASE ReaderFront(q, h, w) /\ \A k \in a .. b - 1 : ~ IsExclusive(q[k])
    <3>1. a \in a .. b - 1
      BY <1>3
    <3> QED  BY <1>7, <2>2, <3>1
  <2> QED  BY <1>6, <2>1, <2>2
<1>9. WriterFront(q, h, w) => b = a + 1
  BY <1>3, <1>6, <1>7 DEF WriterFront
<1>10. a + 1 < b => ~ IsExclusive(q[a]) /\ ~ IsExclusive(q[a + 1])
  <2> SUFFICES ASSUME a + 1 < b
               PROVE  ~ IsExclusive(q[a]) /\ ~ IsExclusive(q[a + 1])
    OBVIOUS
  <2>1. \A k \in a .. b - 1 : ~ IsExclusive(q[k])
    BY <1>6, <1>9
  <2>2. a \in a .. b - 1 /\ a + 1 \in a .. b - 1
    OBVIOUS
  <2> QED  BY <2>1, <2>2
<1>11. After(p.curHead) = RingSlot(a + 1) /\ RingSlot(a + 1) \in Slots
  <2>1. a > 0 /\ a + 1 > 0 /\ a + 1 \in Nat
    BY <1>5
  <2> QED  BY <1>5, <2>1, RingSlots
<1>12. Continues(p) <=> a + 1 < e /\ ~ IsExclusive(q[a])
  <2>1. RingSlot(a + 1) = RingSlot(e) <=> a + 1 = e
    <3>1. CASE a + 1 < e
      <4>1. a + 1 \in Nat /\ 0 < a + 1
        OBVIOUS
      <4>2. e - (a + 1) < Capacity
        <5>1. Capacity \in Nat /\ e - a < Capacity
          BY <1>5, CapacityType
        <5> QED  BY <5>1
      <4> QED  BY <3>1, <4>1, <4>2, RingSlots
    <3>2. CASE a + 1 = e
      BY <3>2
    <3> QED  BY <1>5, <3>1, <3>2
  <2>2. Continues(p) <=> RingSlot(a + 1) # RingSlot(e) /\ ~ IsExclusive(q[a])
    BY <1>4, <1>5, <1>11 DEF Continues
  <2>3. a + 1 # e <=> a + 1 < e
    BY <1>5
  <2> QED  BY <2>1, <2>2, <2>3
<1>13. \A x \in Nat : PacketsRead(T, q, w, x, x)
  BY <1>1, FirstPacketGone
<1>14. PacketsRead(T \o NextPass(p), q, w, a + 1, b)
  <2>1. CASE Continues(p)
    <3>1. a + 1 < e /\ ~ IsExclusive(q[a]) /\ a + 1 \in Nat
      BY <1>12, <2>1
    <3>2. s \in RecirculatedPacket /\ s.flag = 2 /\ s.curHead = RingSlot(a + 1)
          /\ s.curTail = RingSlot(e)
      BY <1>1, <1>5, <1>11 DEF RecirculatedPacket
    <3>3. T \o NextPass(p) = Append(T, s)
      BY <1>1, <2>1, <3>2, AppendIsConcat DEF NextPass
    <3> HIDE DEF s, T, p
    <3>4. Reads(q, s, a + 1, e)
      BY <1>2, <1>5, <3>1, <3>2, CapacityType DEF Reads
    <3>5. slot[s.curHead] = q[a + 1]
      BY <3>1, <3>4, ReadsQueued
    <3>6. Notifies(s) <=> ~ IsExclusive(q[a + 1])
      BY <3>2, <3>5 DEF Notifies
    <3>7. CASE a + 1 < b
      <4>1. Notifies(s)
        BY <1>10, <3>6, <3>7
      <4>2. Serves(s, q, w, a + 1, b)
        BY <1>3, <3>1, <3>4, <3>7 DEF Serves
      <4> QED  BY <1>1, <1>13, <3>1, <3>2, <3>3, <4>1, <4>2, PacketJoins
    <3>8. CASE a + 1 = b
      <4>1. b = w /\ w <= n
        BY <1>2, <1>3, <1>5, <1>6, <3>1, <3>8
      <4>2. IsExclusive(q[w])
        BY <1>6, <1>8, <3>1, <4>1 DEF ReaderFront
      <4>3. ~ Notifies(s)
        BY <3>6, <3>8, <4>1, <4>2
      <4>4. Serves(s, q, w, a + 1, b)
        BY <3>1, <3>4, <4>3 DEF Serves
      <4>5. PacketsRead(T, q, w, a + 1, b)
        BY <1>13, <3>1, <3>8
      <4> QED  BY <1>1, <3>1, <3>2, <3>3, <4>3, <4>4, <4>5, PacketJoins
    <3> QED  BY <1>3, <3>7, <3>8
  <2>2. CASE ~ Continues(p)
    <3>1. T \o NextPass(p) = T
      BY <1>1, <2>2, ConcatEmptySeq DEF NextPass
    <3>2. a + 1 = b
      <4>1. a + 1 >= e \/ IsExclusive(q[a])
        BY <1>5, <1>12, <2>2
      <4> QED  BY <1>3, <1>5, <1>8, <1>9, <4>1
    <3> HIDE DEF T, p
    <3> QED  BY <1>13, <3>1, <3>2
  <2> QED  BY <2>1, <2>2
<1> QED  BY <1>3, <1>4, <1>8, <1>14

\* A pass that notifies serves the first in line.
LEMMA RecirculateRoom ==
  ASSUME TypeOK, NEW q \in Seq(Requests), NEW h \in Nat, NEW w \in Nat,
         NEW a \in Nat, NEW b \in Nat, QueueIs(q, h, w, a, b), Recirculate
  PROVE  \/ status' = status /\ QueueIs(q, h, w, a, b)'
         \/ /\ a < b /\ status' = [status EXCEPT ![q[a]] = "granted"]
            /\ QueueIs(q, h, w, a + 1, b)'
<1> DEFINE n == Len(q)
           p == Head(recirculating)
           r == q[a]
           R == Tail(recirculating) \o NextPass(p)
<1>2. /\ RingHolds(q, h) /\ RegistersCount(q, h) /\ FrontEnds(q, h, w)
      /\ WaitersAre(q, w, a, b) /\ PacketsRead(recirculating, q, w, a, b)
      /\ GrantsAre(q, h, w, a, b)
  BY DEF QueueIs
<1>3. /\ recirculating # << >> /\ recirculating' = R
      /\ UNCHANGED << switchVars, serverVars >>
      /\ status' = IF Notifies(p) /\ slot[p.curHead] # NoRequest
                   THEN [status EXCEPT ![slot[p.curHead]] = "granted"]
                   ELSE status
  BY DEF Recirculate
<1>4. RingHolds(q, h)' /\ slot' = slot
  BY <1>2, <1>3 DEF RingHolds, switchVars
<1>5. n \in Nat
  BY LenProperties
<1>6. ASSUME Live' = Live
      PROVE  RegistersCount(q, h)'
  BY <1>2, <1>3, <1>6 DEF RegistersCount, switchVars, serverVars
<1>7. CASE ~ Notifies(p)
  <2>1. status' = status
    BY <1>3, <1>7
  <2>2. recirculating \in Seq(RecirculatedPacket) /\ recirculating[1] = p
        /\ Tail(recirculating) \in Seq(RecirculatedPacket)
    BY <1>3, HeadTailProperties DEF TypeOK
  <2>3. R = Tail(recirculating)
    BY <1>7, <2>2, ConcatEmptySeq DEF NextPass, Continues
  <2>4. PacketsRead(Tail(recirculating), q, w, a, b)
    BY <1>2, <1>3, <1>7, <2>2, FirstPacketGone
  <2>5. PacketsRead(recirculating, q, w, a, b)'
    BY <1>3, <1>4, <2>3, <2>4, PacketsOfNext
  <2>6. RegistersCount(q, h)'
    BY <1>6, <2>1 DEF Live
  <2>7. WaitersAre(q, w, a, b)' /\ GrantsAre(q, h, w, a, b)'
    BY <1>2, <2>1 DEF WaitersAre, GrantsAre, Waiters, Held
  <2>8. QueueIs(q, h, w, a, b)'
    BY <1>2, <1>4, <2>5, <2>6, <2>7 DEF QueueIs
  <2> QED  BY <2>1, <2>8
<1>8. CASE Notifies(p)
  <2>1. /\ a < b /\ a \in 1 .. n /\ slot[p.curHead] = r
        /\ IsExclusive(r) <=> WriterFront(q, h, w)
        /\ PacketsRead(R, q, w, a + 1, b)
    BY <1>2, <1>3, <1>8, NotifyingPass
  <2>2. r \in Requests
    BY <2>1, ElementOfSeq
  <2>3. status' = [status EXCEPT ![r] = "granted"]
    BY <1>3, <1>8, <2>1, <2>2
  <2>4. PacketsRead(recirculating, q, w, a + 1, b)'
    BY <1>3, <1>4, <2>1, PacketsOfNext
  <2> HIDE DEF R, p
  <2>5. a \in Waits(n, w, a, b) /\ status[r] = "waiting"
    BY <1>2, <2>1 DEF Waits, WaitersAre
  <2>6. RegistersCount(q, h)'
    BY <1>6, <2>2, <2>3, <2>5 DEF Live, TypeOK
  <2>7. Held' = Held \cup {r} /\ Cardinality(Held') = Cardinality(Held) + 1
    BY <2>2, <2>3, <2>5, HeldGains
  <2>8. GrantsAre(q, h, w, a + 1, b)'
    <3> DEFINE c == Cardinality(Held)
    <3>1. 1 <= a /\ a <= b /\ b <= w /\ c + (b - a) = w - 1 - h /\ c \in Nat
      BY <1>2, RequestSets DEF GrantsAre
    <3>2. a + 1 < b => \/ WriterFront(q, h, w) /\ a + 1 = h + 1
                       \/ ReaderFront(q, h, w) /\ \A k \in a + 1 .. b - 1 : ~ IsExclusive(q[k])
      <4>1. WriterFront(q, h, w) /\ a = h + 1 => ~ a + 1 < b
        BY <3>1 DEF WriterFront
      <4> QED  BY <1>2, <2>1, <4>1 DEF GrantsAre
    <3>3. \A s \in Held' : IsExclusive(s) <=> WriterFront(q, h, w)
      BY <1>2, <2>1, <2>7 DEF GrantsAre
    <3> HIDE DEF c, r
    <3>4. Cardinality(Held') + (b - (a + 1)) = w - 1 - h
      BY <2>7, <3>1 DEF c
    <3> QED  BY <2>1, <3>1, <3>2, <3>3, <3>4 DEF GrantsAre
  <2>9. WaitersAre(q, w, a + 1, b)'
    <3> DEFINE W == Waits(n, w, a, b)
               V == Waits(n, w, a + 1, b)
    <3>1. V = W \ {a}
      <4>1. b <= w
        BY <1>2 DEF GrantsAre
      <4> QED  BY <1>5, <2>1, <4>1 DEF Waits
    <3>2. /\ \A k \in W : status[q[k]] = "waiting"
          /\ \A k, l \in W : q[k] = q[l] => k = l
          /\ \A s \in Waiters : \E k \in W : q[k] = s
      BY <1>2 DEF WaitersAre
    <3>3. Waiters' = Waiters \ {r}
      BY <2>2, <2>3, <2>5 DEF Waiters, TypeOK
    <3> HIDE DEF W, V
    <3>4. \A k \in V : q[k] # r
      BY <2>5, <3>1, <3>2 DEF W
    <3>5. \A k \in V : status'[q[k]] = "waiting"
      BY <2>3, <3>1, <3>2, <3>4 DEF TypeOK
    <3>6. \A k, l \in V : q[k] = q[l] => k = l
      BY <3>1, <3>2
    <3>7. \A s \in Waiters' : \E k \in V : q[k] = s
      BY <3>1, <3>2, <3>3
    <3> QED  BY <3>5, <3>6, <3>7 DEF WaitersAre, V
  <2>10. QueueIs(q, h, w, a + 1, b)'
    BY <1>2, <1>4, <2>4, <2>6, <2>8, <2>9 DEF QueueIs
  <2> QED  BY <2>1, <2>3, <2>10
<1> QED  BY <1>7, <1>8

-----------------------------------------------------------------------------
(* All steps, and what the invariant gives.                                *)

LEMMA InitQueue ==
  ASSUME Init
  PROVE  QueueIs(<< >>, 0, 1, 1, 1)
<1> DEFINE q == << >>
<1>1. q \in Seq(Requests) /\ Len(q) = 0
  OBVIOUS
<1>2. Capacity \in Nat /\ Capacity > 0
  BY CapacityType
<1>3. RingHolds(q, 0)
  <2>1. RingSlot(1) = Left
    BY RingSlots
  <2> QED  BY <1>1, <1>2, <2>1 DEF RingHolds, Init, SwitchInit
<1>4. Held = {} /\ Live = {} /\ Waiters = {} /\ Cardinality({}) = 0
  BY FS_EmptySet DEF Init, Held, Live, Waiters
<1>5. RegistersCount(q, 0)
  <2>1. Window(q, 0, Exclusive) = {} /\ Window(q, 0, Requests \ Exclusive) = {}
    BY <1>1 DEF Window
  <2>2. /\ Cardinality(Window(q, 0, Exclusive)) = 0
        /\ Cardinality(Window(q, 0, Requests \ Exclusive)) = 0
    BY <1>4, <2>1
  <2>3. Capacity - (Len(q) - 0) = Capacity /\ Cardinality(Live) = Len(q) - 0
    BY <1>1, <1>2, <1>4
  <2>4. /\ toServer = << >> /\ buffer = << >> /\ fromServer = << >>
        /\ lengthInServer = 0 /\ emptySlots = Capacity
        /\ numExclusive = 0 /\ numShared = 0
    BY DEF Init, SwitchInit
  <2> HIDE DEF q
  <2> QED  BY <2>2, <2>3, <2>4 DEF RegistersCount
<1>6. FrontEnds(q, 0, 1)
  BY <1>1 DEF FrontEnds, ReaderFront
<1>7. WaitersAre(q, 1, 1, 1)
  BY <1>1, <1>4 DEF WaitersAre, Waits
<1>8. PacketsRead(recirculating, q, 1, 1, 1)
  <2>1. DOMAIN recirculating = {}
    BY DEF Init
  <2> QED  BY <2>1 DEF PacketsRead
<1>9. GrantsAre(q, 0, 1, 1, 1)
  BY <1>4 DEF GrantsAre
<1> QED  BY <1>3, <1>5, <1>6, <1>7, <1>8, <1>9 DEF QueueIs

LEMMA InitRoom == Init => RoomInv
<1>1. << >> \in Seq(Requests)
  OBVIOUS
<1> QED  BY <1>1, InitQueue DEF RoomInv

LEMMA QueueStays ==
  ASSUME NEW q, NEW h, NEW w, NEW a, NEW b, QueueIs(q, h, w, a, b), UNCHANGED vars
  PROVE  QueueIs(q, h, w, a, b)'
<1>1. /\ UNCHANGED << head, tail, slot, emptySlots, lengthInServer, numExclusive >>
      /\ UNCHANGED << numShared, status, recirculating, toServer, buffer, fromServer >>
  BY DEF vars, switchVars, serverVars
<1>2. Live' = Live /\ Held' = Held /\ Waiters' = Waiters
  BY <1>1 DEF Live, Held, Waiters
<1>3. RingHolds(q, h)'
  BY <1>1 DEF QueueIs, RingHolds
<1>4. RegistersCount(q, h)'
  BY <1>1, <1>2 DEF QueueIs, RegistersCount
<1>5. WaitersAre(q, w, a, b)'
  BY <1>1, <1>2 DEF QueueIs, WaitersAre
<1>6. PacketsRead(recirculating, q, w, a, b)'
  <2>1. \A i \in DOMAIN recirculating :
          Notifies(recirculating[i])' <=> Notifies(recirculating[i])
    BY <1>1 DEF Notifies
  <2>2. \A i \in DOMAIN recirculating :
          Serves(recirculating[i], q, w, a, b)' <=> Serves(recirculating[i], q, w, a, b)
    BY <1>1, <2>1 DEF Serves
  <2> QED  BY <1>1, <2>1, <2>2 DEF QueueIs, PacketsRead
<1>7. GrantsAre(q, h, w, a, b)'
  BY <1>2 DEF QueueIs, GrantsAre
<1> QED  BY <1>3, <1>4, <1>5, <1>6, <1>7 DEF QueueIs

\* With room nothing goes by way of the server.
LEMMA StepsWithRoom ==
  ASSUME HasRoom, TypeOK, NEW q \in Seq(Requests), NEW h \in Nat, NEW w \in Nat,
         NEW a \in Nat, NEW b \in Nat, QueueIs(q, h, w, a, b), Next
  PROVE  \/ \E r \in Requests : AcquireAtSwitch(r) \/ ReleaseAtSwitch(r)
         \/ Recirculate
<1>1. /\ toServer = << >> /\ fromServer = << >> /\ lengthInServer = 0
      /\ RegistersCount(q, h) /\ h <= Len(q)
  BY DEF QueueIs, RegistersCount, RingHolds
<1>2. ASSUME NEW r \in Requests
      PROVE  ~ AcquireForwarded(r)
  <2> SUFFICES ASSUME AcquireForwarded(r)
               PROVE  FALSE
    OBVIOUS
  <2>1. r \in Requests \ Live /\ ~ emptySlots > 0
    BY <1>1 DEF AcquireForwarded, ForwardAcquire, QueueHere, Live
  <2>2. Len(q) - h < Capacity
    BY <1>1, <2>1, RoomToAcquire
  <2>3. emptySlots = Capacity - (Len(q) - h) /\ Len(q) \in Nat /\ Capacity \in Nat
    BY <1>1, CapacityType, LenProperties DEF RegistersCount
  <2> QED  BY <2>1, <2>2, <2>3
<1>3. ASSUME NEW r \in Requests
      PROVE  ~ ReleaseForwarded(r)
  <2>1. EmptySlotsBeforePop = 0 /\ SizeOfQueue # 0
    BY <1>1 DEF EmptySlotsBeforePop, SizeOfQueue, HasRoom
  <2> QED  BY <2>1 DEF ReleaseForwarded, ForwardRelease, ForwardsRelease
<1>4. ~ PushBackAtSwitch /\ ~ ServerBuffers /\ ~ ServerPushesBack
  BY <1>1 DEF PushBackAtSwitch, ServerBuffers, ServerPushesBack
<1> QED  BY <1>2, <1>3, <1>4 DEF Next, Acquire, Release

LEMMA NextRoom ==
  ASSUME HasRoom, TypeOK, RoomInv, [Next]_vars
  PROVE  RoomInv'
<1>1. PICK q \in Seq(Requests), h \in Nat, w \in Nat, a \in Nat, b \in Nat :
        QueueIs(q, h, w, a, b)
  BY DEF RoomInv
<1>2. ASSUME NEW r \in Requests, AcquireAtSwitch(r)
      PROVE  RoomInv'
  <2>1. QueueIs(Append(q, r), h, Len(q) + 2, a, b)' \/ QueueIs(Append(q, r), h, w, a, b)'
    BY <1>1, <1>2, AcquireAtSwitchRoom
  <2>2. Append(q, r) \in Seq(Requests) /\ Len(q) + 2 \in Nat
    BY AppendProperties, LenProperties
  <2> DEFINE t == Append(q, r)
             v == Len(q) + 2
  <2> HIDE DEF t, v
  <2>3. t \in Seq(Requests) /\ v \in Nat
        /\ (QueueIs(t, h, v, a, b)' \/ QueueIs(t, h, w, a, b)')
    BY <2>1, <2>2 DEF t, v
  <2> QED  BY <2>3 DEF RoomInv
<1>3. ASSUME NEW r \in Requests, ReleaseAtSwitch(r)
      PROVE  RoomInv'
  <2>1. \E v, x, y \in Nat : QueueIs(q, h + 1, v, x, y)'
    BY <1>1, <1>3, ReleaseAtSwitchRoom
  <2>2. h + 1 \in Nat
    OBVIOUS
  <2> QED  BY <2>1, <2>2 DEF RoomInv
<1>4. CASE Recirculate
  <2>1. QueueIs(q, h, w, a, b)' \/ QueueIs(q, h, w, a + 1, b)'
    BY <1>1, <1>4, RecirculateRoom
  <2>2. a + 1 \in Nat
    OBVIOUS
  <2> QED  BY <2>1, <2>2 DEF RoomInv
<1>5. CASE UNCHANGED vars
  BY <1>1, <1>5, QueueStays DEF RoomInv
<1> QED  BY <1>1, <1>2, <1>3, <1>4, <1>5, StepsWithRoom

LEMMA RoomExcludes ==
  ASSUME TypeOK, RoomInv
  PROVE  MutualExclusion
<1>1. PICK q \in Seq(Requests), h \in Nat, w \in Nat, a \in Nat, b \in Nat :
        QueueIs(q, h, w, a, b)
  BY DEF RoomInv
<1>2. GrantsAre(q, h, w, a, b)
  BY <1>1 DEF QueueIs
<1>3. CASE WriterFront(q, h, w)
  <2> DEFINE c == Cardinality(Held)
  <2>1. w = h + 2 /\ c \in Nat /\ a <= b /\ c + (b - a) = w - 1 - h
    BY <1>2, <1>3, RequestSets DEF WriterFront, GrantsAre
  <2> HIDE DEF c
  <2>2. c = 0 \/ c = 1
    BY <2>1
  <2>3. \A r, s \in Held : r = s
    <3>1. Held = {} \/ \E x : Held = {x}
      BY <2>2, RequestSets, FS_EmptySet, FS_Singleton DEF c
    <3> QED  BY <3>1
  <2> QED  BY <2>3 DEF MutualExclusion
<1>4. CASE ~ WriterFront(q, h, w)
  BY <1>2, <1>4 DEF GrantsAre, MutualExclusion, Compatible
<1> QED  BY <1>3, <1>4

LEMMA RoomNotifies ==
  ASSUME TypeOK, RoomInv
  PROVE  NotifiesOnlyWaiters
<1>1. PICK q \in Seq(Requests), h \in Nat, w \in Nat, a \in Nat, b \in Nat :
        QueueIs(q, h, w, a, b)
  BY DEF RoomInv
<1> DEFINE p == Head(recirculating)
<1> SUFFICES ASSUME recirculating # << >>, Notifies(p)
             PROVE  status[slot[p.curHead]] = "waiting"
  BY DEF NotifiesOnlyWaiters
<1>2. a < b /\ a \in 1 .. Len(q) /\ slot[p.curHead] = q[a]
  BY <1>1, NotifyingPass DEF QueueIs
<1>3. a \in Waits(Len(q), w, a, b)
  BY <1>2 DEF Waits
<1> QED  BY <1>1, <1>2, <1>3 DEF QueueIs, WaitersAre

LEMMA RoomStrandsNobody ==
  ASSUME TypeOK, RoomInv
  PROVE  NoStrandedWaiter
<1>1. PICK q \in Seq(Requests), h \in Nat, w \in Nat, a \in Nat, b \in Nat :
        QueueIs(q, h, w, a, b)
  BY DEF RoomInv
<1> SUFFICES ASSUME recirculating = << >>, Held = {}, NEW r \in Requests
             PROVE  status[r] = "idle"
  BY DEF NoStrandedWaiter, PacketsInFlight
<1>2. FrontEnds(q, h, w) /\ WaitersAre(q, w, a, b) /\ GrantsAre(q, h, w, a, b)
      /\ PacketsRead(recirculating, q, w, a, b)
  BY <1>1 DEF QueueIs
<1>3. Len(q) \in Nat /\ Cardinality({}) = 0
  BY LenProperties, FS_EmptySet
<1>4. a = b
  <2>1. ~ a < b
    BY <1>2 DEF PacketsRead
  <2> QED  BY <1>2, <2>1 DEF GrantsAre
<1>5. w = h + 1
  BY <1>2, <1>3, <1>4 DEF GrantsAre
<1>6. Waits(Len(q), w, a, b) = {}
  BY <1>2, <1>3, <1>4, <1>5 DEF FrontEnds, Waits
<1>7. r \notin Waiters /\ r \notin Held
  BY <1>2, <1>6 DEF WaitersAre
<1> QED  BY <1>7 DEF Waiters, Held, TypeOK

LEMMA RoomCountsSlots ==
  ASSUME TypeOK, RoomInv
  PROVE  SlotsExact
<1>1. PICK q \in Seq(Requests), h \in Nat, w \in Nat, a \in Nat, b \in Nat :
        QueueIs(q, h, w, a, b)
  BY DEF RoomInv
<1>2. RegistersCount(q, h) /\ RingHolds(q, h)
  BY <1>1 DEF QueueIs
<1>3. InServerPath = {} /\ InSwitch = Live
  BY <1>2 DEF RegistersCount, InServerPath, InSwitch, Live
<1>4. /\ Cardinality(Live) = Len(q) - h /\ emptySlots = Capacity - (Len(q) - h)
      /\ Len(q) - h <= Capacity /\ Len(q) \in Nat /\ Capacity \in Nat
  BY <1>2, CapacityType, LenProperties DEF RegistersCount, RingHolds
<1> QED  BY <1>3, <1>4 DEF SlotsExact

LEMMA RoomStep ==
  ASSUME HasRoom
  PROVE  TypeOK /\ RoomInv /\ [Next]_vars => RoomInv'
BY NextRoom

LEMMA RoomInvariant ==
  ASSUME HasRoom
  PROVE  Spec => [](TypeOK /\ RoomInv)
<1>1. Spec => []TypeOK
  BY TypeCorrect
<1>2. Init => RoomInv
  BY InitRoom
<1>3. TypeOK /\ RoomInv /\ [Next]_vars => RoomInv'
  BY RoomStep
<1> QED  BY <1>1, <1>2, <1>3, PTL DEF Spec

\* Readers/writer exclusion at the switch (acquire_*_lock_alu and the
\* recirculated releases of netlock.p4), for any ring with a slot for every
\* request and any number of requests.
THEOREM ExclusionWithRoom ==
  ASSUME HasRoom
  PROVE  Spec => []MutualExclusion
<1>1. TypeOK /\ RoomInv => MutualExclusion
  BY RoomExcludes
<1> QED  BY <1>1, RoomInvariant, PTL

\* In such a ring no client is notified twice, and no request that was released
\* is granted: the entry read (get_*_op of the recirculated pass) still waits.
THEOREM NotifiesWaitersWithRoom ==
  ASSUME HasRoom
  PROVE  Spec => []NotifiesOnlyWaiters
<1>1. TypeOK /\ RoomInv => NotifiesOnlyWaiters
  BY RoomNotifies
<1> QED  BY <1>1, RoomInvariant, PTL

\* In such a ring nobody waits for a lock that nobody holds once the
\* recirculation port is empty.
THEOREM NobodyStrandedWithRoom ==
  ASSUME HasRoom
  PROVE  Spec => []NoStrandedWaiter
<1>1. TypeOK /\ RoomInv => NoStrandedWaiter
  BY RoomStrandsNobody
<1> QED  BY <1>1, RoomInvariant, PTL

\* In such a ring slots_two_sides_register counts the empty slots exactly, with
\* writers too.
THEOREM SlotsCorrectWithRoom ==
  ASSUME HasRoom
  PROVE  Spec => []SlotsExact
<1>1. TypeOK /\ RoomInv => SlotsExact
  BY RoomCountsSlots
<1> QED  BY <1>1, RoomInvariant, PTL

-----------------------------------------------------------------------------
(* The abstract lock.  The history variable arrived lists, in the order of *)
(* the queue, the positions that wait.                                     *)

\* The position of the i-th that waits.
Place(w, a, b, i) == IF i <= b - a THEN a + i - 1 ELSE w + (i - (b - a)) - 1

LineLength(n, w, a, b) == (b - a) + (n + 1 - w)

InLine(q, w, a, b) ==
  /\ arrived \in Seq(Requests)
  /\ Len(arrived) = LineLength(Len(q), w, a, b)
  /\ \A i \in 1 .. Len(arrived) : arrived[i] = q[Place(w, a, b, i)]

FifoInv == \E q \in Seq(Requests) : \E h, w, a, b \in Nat :
              QueueIs(q, h, w, a, b) /\ InLine(q, w, a, b)

LEMMA QueueBounds ==
  ASSUME TypeOK, NEW q \in Seq(Requests), NEW h \in Nat, NEW w \in Nat,
         NEW a \in Nat, NEW b \in Nat, QueueIs(q, h, w, a, b)
  PROVE  /\ Len(q) \in Nat /\ h <= Len(q) /\ 1 <= a /\ a <= b /\ b <= w
         /\ h + 1 <= w /\ w <= Len(q) + 1
         /\ Cardinality(Held) \in Nat /\ Cardinality(Held) + (b - a) = w - 1 - h
BY LenProperties, RequestSets DEF QueueIs, RingHolds, GrantsAre, FrontEnds

\* Places are positions that wait, and all of them.
LEMMA PlacesWait ==
  ASSUME NEW n \in Nat, NEW w \in Nat, NEW a \in Nat, NEW b \in Nat,
         1 <= a, a <= b, b <= w, w <= n + 1
  PROVE  /\ LineLength(n, w, a, b) \in Nat
         /\ \A i \in 1 .. LineLength(n, w, a, b) : Place(w, a, b, i) \in Waits(n, w, a, b)
         /\ \A i \in 1 .. LineLength(n, w, a, b) : Place(w, a, b, i) \in 1 .. n
         /\ \A k \in Waits(n, w, a, b) :
               \E i \in 1 .. LineLength(n, w, a, b) : Place(w, a, b, i) = k
<1> DEFINE m == (b - a) + (n + 1 - w)
<1>1. m \in Nat
  OBVIOUS
<1>2. \A i \in 1 .. m : Place(w, a, b, i) \in Waits(n, w, a, b) /\ Place(w, a, b, i) \in 1 .. n
  BY DEF Place, Waits
<1>3. ASSUME NEW k \in Waits(n, w, a, b)
      PROVE  \E i \in 1 .. m : Place(w, a, b, i) = k
  <2>1. CASE k \in a .. b - 1
    <3>1. k - a + 1 \in 1 .. m /\ Place(w, a, b, k - a + 1) = k
      BY <2>1 DEF Place
    <3> QED  BY <3>1
  <2>2. CASE k \in w .. n
    <3> DEFINE i == (b - a) + (k - w) + 1
    <3>1. i \in 1 .. m /\ Place(w, a, b, i) = k
      BY <2>2 DEF Place
    <3> QED  BY <3>1
  <2> QED  BY <2>1, <2>2 DEF Waits
<1> QED  BY <1>1, <1>2, <1>3 DEF LineLength

\* So arrived lists the waiting requests, each once.
LEMMA LineWaits ==
  ASSUME TypeOK, NEW q \in Seq(Requests), NEW h \in Nat, NEW w \in Nat,
         NEW a \in Nat, NEW b \in Nat, QueueIs(q, h, w, a, b), InLine(q, w, a, b)
  PROVE  /\ Len(arrived) \in Nat /\ DOMAIN arrived = 1 .. Len(arrived)
         /\ \A i \in DOMAIN arrived : status[arrived[i]] = "waiting" /\ arrived[i] \in Requests
         /\ \A i, j \in DOMAIN arrived : arrived[i] = arrived[j] => i = j
         /\ Fifo!Waiters = Waiters
         /\ a < b => 1 \in DOMAIN arrived /\ arrived[1] = q[a]
<1> DEFINE n == Len(q)
           m == LineLength(n, w, a, b)
           W == Waits(n, w, a, b)
<1>1. n \in Nat /\ 1 <= a /\ a <= b /\ b <= w /\ w <= n + 1
  BY QueueBounds
<1>2. /\ m \in Nat
      /\ \A i \in 1 .. m : Place(w, a, b, i) \in W
      /\ \A i, j \in 1 .. m : Place(w, a, b, i) = Place(w, a, b, j) => i = j
      /\ \A k \in W : \E i \in 1 .. m : Place(w, a, b, i) = k
  <2> HIDE DEF n
  <2>1. /\ LineLength(n, w, a, b) \in Nat
        /\ \A i \in 1 .. LineLength(n, w, a, b) : Place(w, a, b, i) \in Waits(n, w, a, b)
    BY <1>1, PlacesWait
  <2>2. ASSUME NEW i \in 1 .. LineLength(n, w, a, b), NEW j \in 1 .. LineLength(n, w, a, b),
               Place(w, a, b, i) = Place(w, a, b, j)
        PROVE  i = j
    <3>1. i \in Nat /\ j \in Nat /\ 1 <= i /\ 1 <= j
      BY <2>1
    <3>2. CASE i <= b - a
      <4>1. j <= b - a
        BY <1>1, <2>2, <3>1, <3>2 DEF Place
      <4> QED  BY <2>2, <3>1, <3>2, <4>1 DEF Place
    <3>3. CASE ~ i <= b - a
      <4>1. ~ j <= b - a
        BY <1>1, <2>2, <3>1, <3>3 DEF Place
      <4> QED  BY <2>2, <3>1, <3>3, <4>1 DEF Place
    <3> QED  BY <3>2, <3>3
  <2>3. ASSUME NEW k \in Waits(n, w, a, b)
        PROVE  \E i \in 1 .. LineLength(n, w, a, b) : Place(w, a, b, i) = k
    <3> HIDE DEF m, W
    <3>1. CASE k \in a .. b - 1
      <4>1. k - a + 1 \in 1 .. LineLength(n, w, a, b) /\ Place(w, a, b, k - a + 1) = k
        BY <1>1, <3>1 DEF Place, LineLength
      <4> QED  BY <4>1
    <3>2. CASE k \in w .. n
      <4> DEFINE i == (b - a) + (k - w) + 1
      <4>1. i \in 1 .. LineLength(n, w, a, b) /\ Place(w, a, b, i) = k
        BY <1>1, <3>2 DEF Place, LineLength
      <4> QED  BY <4>1
    <3> QED  BY <2>3, <3>1, <3>2 DEF Waits
  <2> QED  BY <2>1, <2>2, <2>3
<1>3. /\ arrived \in Seq(Requests) /\ Len(arrived) = m
      /\ \A i \in 1 .. m : arrived[i] = q[Place(w, a, b, i)]
  BY DEF InLine
<1>4. DOMAIN arrived = 1 .. m /\ \A i \in 1 .. m : arrived[i] \in Requests
  BY <1>3, LenProperties, ElementOfSeq
<1>5. /\ \A k \in W : status[q[k]] = "waiting"
      /\ \A k, l \in W : q[k] = q[l] => k = l
      /\ \A r \in Waiters : \E k \in W : q[k] = r
  BY DEF QueueIs, WaitersAre
<1>6. a < b => 1 \in 1 .. m /\ Place(w, a, b, 1) = a
  BY <1>1 DEF Place, LineLength
<1> HIDE DEF m, W
<1>7. \A i \in DOMAIN arrived : status[arrived[i]] = "waiting" /\ arrived[i] \in Requests
  BY <1>2, <1>3, <1>4, <1>5
<1>8. \A i, j \in DOMAIN arrived : arrived[i] = arrived[j] => i = j
  BY <1>2, <1>3, <1>4, <1>5
<1>9. Fifo!Waiters = Waiters
  <2>1. ASSUME NEW r \in Waiters
        PROVE  \E i \in DOMAIN arrived : arrived[i] = r
    <3>1. PICK k \in W : q[k] = r
      BY <1>5
    <3>2. PICK i \in 1 .. m : Place(w, a, b, i) = k
      BY <1>2
    <3> QED  BY <1>3, <1>4, <3>1, <3>2
  <2> QED  BY <1>7, <2>1 DEF Fifo!Waiters, Waiters
<1> QED  BY <1>2, <1>3, <1>4, <1>6, <1>7, <1>8, <1>9

\* Where nobody stops waiting, nobody in line is served.
LEMMA NobodyServed ==
  ASSUME \A i \in DOMAIN arrived : status'[arrived[i]] = "waiting", NewlyWaiting = {},
         RecordArrival
  PROVE  arrived' = arrived
BY DEF RecordArrival, Served

-----------------------------------------------------------------------------
(* Steps.                                                                  *)

LEMMA GrantedArrivalMaps ==
  ASSUME TypeOK, NEW q \in Seq(Requests), NEW h \in Nat, NEW w \in Nat,
         NEW a \in Nat, NEW b \in Nat, QueueIs(q, h, w, a, b), InLine(q, w, a, b),
         RecordArrival, NEW r \in Requests, status[r] = "idle",
         status' = [status EXCEPT ![r] = "granted"], w = Len(q) + 1,
         IF IsExclusive(r) THEN Len(q) = h
                           ELSE \A k \in h + 1 .. Len(q) : ~ IsExclusive(q[k])
  PROVE  InLine(Append(q, r), Len(q) + 2, a, b)' /\ Fifo!ArriveGranted(r)
<1> DEFINE n == Len(q)
           t == Append(q, r)
<1>1. /\ n \in Nat /\ t \in Seq(Requests) /\ Len(t) = n + 1
      /\ \A k \in 1 .. n : t[k] = q[k]
  BY AppendProperties, LenProperties
<1>2. /\ h <= n /\ 1 <= a /\ a <= b /\ b <= w
      /\ Cardinality(Held) \in Nat /\ Cardinality(Held) + (b - a) = w - 1 - h
  BY QueueBounds
<1>3. /\ \A i \in DOMAIN arrived : status[arrived[i]] = "waiting" /\ arrived[i] \in Requests
      /\ Fifo!Waiters = Waiters /\ DOMAIN arrived = 1 .. Len(arrived)
  BY LineWaits
<1>4. arrived' = arrived
  <2>1. \A i \in DOMAIN arrived : status'[arrived[i]] = "waiting"
    <3>1. \A i \in DOMAIN arrived : arrived[i] # r
      BY <1>3
    <3> QED  BY <1>3, <3>1 DEF TypeOK
  <2>2. NewlyWaiting = {}
    BY DEF NewlyWaiting, TypeOK
  <2> QED  BY <2>1, <2>2, NobodyServed
<1>5. Held' = Held \cup {r}
  BY HeldGains
<1>6. r \notin Held \cup Fifo!Waiters
  BY <1>3 DEF Held, Waiters
<1>7. /\ \A k \in Waits(n, w, a, b) : k \in a .. b - 1
      /\ \A s \in Waiters : \E k \in Waits(n, w, a, b) : q[k] = s
  <2>1. Waits(n, w, a, b) = a .. b - 1
    BY <1>1 DEF Waits
  <2> QED  BY <2>1 DEF QueueIs, WaitersAre
<1>8. GrantsAre(q, h, w, a, b)
  BY DEF QueueIs
<1>9. Fifo!Clear(r, Held \cup Waiters)
  <2>1. CASE IsExclusive(r)
    <3>1. Cardinality(Held) = 0 /\ a = b
      BY <1>1, <1>2, <2>1
    <3>2. Held = {}
      BY <3>1, RequestSets, FS_EmptySet
    <3>3. Waiters = {}
      BY <1>2, <1>7, <3>1
    <3> QED  BY <3>2, <3>3 DEF Fifo!Clear
  <2>2. CASE ~ IsExclusive(r)
    <3>1. ~ WriterFront(q, h, w)
      BY <1>1, <2>2 DEF WriterFront
    <3>2. \A s \in Held : ~ IsExclusive(s)
      BY <1>8, <3>1 DEF GrantsAre
    <3>3. ASSUME NEW s \in Waiters
          PROVE  ~ IsExclusive(s)
      <4>1. PICK k \in a .. b - 1 : q[k] = s
        BY <1>7
      <4>2. a < b
        BY <1>2, <4>1
      <4> QED  BY <1>8, <3>1, <4>1, <4>2 DEF GrantsAre
    <3> QED  BY <2>2, <3>2, <3>3 DEF Fifo!Clear, Fifo!Conflict, IsExclusive
  <2> QED  BY <2>1, <2>2
<1>10. Fifo!ArriveGranted(r)
  BY <1>3, <1>4, <1>5, <1>6, <1>9 DEF Fifo!ArriveGranted
<1> HIDE DEF t
<1>11. InLine(t, n + 2, a, b)'
  <2>1. /\ arrived \in Seq(Requests) /\ Len(arrived) = b - a
        /\ \A i \in 1 .. Len(arrived) : arrived[i] = q[Place(w, a, b, i)]
    BY <1>1 DEF InLine, LineLength
  <2>2. Len(arrived) = LineLength(Len(t), n + 2, a, b)
    BY <1>1, <1>2, <2>1 DEF LineLength
  <2>3. ASSUME NEW i \in 1 .. Len(arrived)
        PROVE  arrived[i] = t[Place(n + 2, a, b, i)]
    <3>1. Place(w, a, b, i) = a + i - 1 /\ Place(n + 2, a, b, i) = a + i - 1
      BY <1>2, <2>1 DEF Place
    <3>2. a + i - 1 \in 1 .. n
      BY <1>1, <1>2, <2>1
    <3> QED  BY <1>1, <2>1, <3>1, <3>2
  <2> QED  BY <1>4, <2>1, <2>2, <2>3 DEF InLine
<1> QED  BY <1>10, <1>11 DEF t

LEMMA WaitingArrivalMaps ==
  ASSUME TypeOK, NEW q \in Seq(Requests), NEW h \in Nat, NEW w \in Nat,
         NEW a \in Nat, NEW b \in Nat, QueueIs(q, h, w, a, b), InLine(q, w, a, b),
         RecordArrival, NEW r \in Requests, status[r] = "idle",
         status' = [status EXCEPT ![r] = "waiting"]
  PROVE  InLine(Append(q, r), w, a, b)' /\ Fifo!Arrive(r)
<1> DEFINE n == Len(q)
           t == Append(q, r)
           m == Len(arrived)
<1>1. /\ n \in Nat /\ t \in Seq(Requests) /\ Len(t) = n + 1 /\ t[n + 1] = r
      /\ \A k \in 1 .. n : t[k] = q[k]
  BY AppendProperties, LenProperties
<1>2. 1 <= a /\ a <= b /\ b <= w /\ w <= n + 1
  BY QueueBounds
<1>3. /\ \A i \in DOMAIN arrived : status[arrived[i]] = "waiting" /\ arrived[i] \in Requests
      /\ Fifo!Waiters = Waiters /\ DOMAIN arrived = 1 .. m /\ m \in Nat
  BY LineWaits
<1>4. arrived' = Append(arrived, r)
  <2>1. \A i \in DOMAIN arrived : status'[arrived[i]] = "waiting"
    BY <1>3 DEF TypeOK
  <2>2. NewlyWaiting = {r}
    BY DEF NewlyWaiting, TypeOK
  <2> QED  BY <2>1, <2>2 DEF RecordArrival, Served
<1>5. Held' = Held
  BY DEF Held, TypeOK
<1>6. r \notin Held \cup Fifo!Waiters
  BY <1>3 DEF Held, Waiters
<1>7. Fifo!Arrive(r)
  BY <1>4, <1>5, <1>6 DEF Fifo!Arrive
<1>8. /\ arrived \in Seq(Requests) /\ m = LineLength(n, w, a, b)
      /\ \A i \in 1 .. m : arrived[i] = q[Place(w, a, b, i)]
  BY DEF InLine
<1>9. /\ arrived' \in Seq(Requests) /\ Len(arrived') = m + 1
      /\ arrived'[m + 1] = r /\ \A i \in 1 .. m : arrived'[i] = arrived[i]
  <2> DEFINE z == Append(arrived, r)
  <2>1. /\ z \in Seq(Requests) /\ Len(z) = m + 1
        /\ z[m + 1] = r /\ \A i \in 1 .. m : z[i] = arrived[i]
    BY <1>8, AppendProperties
  <2> QED  BY <1>4, <2>1
<1> HIDE DEF t, m
<1>10. InLine(t, w, a, b)'
  <2>1. Len(arrived') = LineLength(Len(t), w, a, b)
    <3>1. LineLength(n + 1, w, a, b) = LineLength(n, w, a, b) + 1
      BY <1>1, <1>2 DEF LineLength
    <3> QED  BY <1>1, <1>8, <1>9, <3>1
  <2>2. ASSUME NEW i \in 1 .. m + 1
        PROVE  arrived'[i] = t[Place(w, a, b, i)]
    <3>1. CASE i = m + 1
      <4>1. Place(w, a, b, i) = n + 1
        BY <1>1, <1>2, <1>8, <3>1 DEF Place, LineLength
      <4> QED  BY <1>1, <1>9, <3>1, <4>1
    <3>2. CASE i # m + 1
      <4>1. i \in 1 .. m
        BY <1>3, <3>2
      <4>2. Place(w, a, b, i) \in 1 .. n
        BY <1>1, <1>2, <1>8, <4>1, PlacesWait
      <4> QED  BY <1>1, <1>8, <1>9, <4>1, <4>2
    <3> QED  BY <3>1, <3>2
  <2> QED  BY <1>9, <2>1, <2>2 DEF InLine
<1> QED  BY <1>7, <1>10 DEF t

LEMMA SameLineKeeps ==
  ASSUME TypeOK, NEW q \in Seq(Requests), NEW h \in Nat, NEW w \in Nat,
         NEW a \in Nat, NEW b \in Nat, QueueIs(q, h, w, a, b), InLine(q, w, a, b),
         NEW v \in Nat, NEW x \in Nat, NEW y \in Nat, SameLine(q, w, a, b, v, x, y),
         arrived' = arrived
  PROVE  InLine(q, v, x, y)'
<1> DEFINE n == Len(q)
           m == Len(arrived)
<1>1. n \in Nat /\ 1 <= a /\ a <= b /\ b <= w /\ w <= n + 1
  BY QueueBounds
<1>2. /\ arrived \in Seq(Requests) /\ m = LineLength(n, w, a, b)
      /\ \A i \in 1 .. m : arrived[i] = q[Place(w, a, b, i)]
  BY DEF InLine
<1>3. CASE v = w /\ x = a /\ y = b
  BY <1>2, <1>3 DEF InLine
<1>4. CASE a = b /\ x = w /\ y = v /\ w <= v /\ v <= n + 1
  <2>1. m = LineLength(n, v, x, y)
    BY <1>1, <1>2, <1>4 DEF LineLength
  <2>2. \A i \in 1 .. m : Place(w, a, b, i) = Place(v, x, y, i)
    BY <1>1, <1>2, <1>4 DEF Place, LineLength
  <2> QED  BY <1>2, <2>1, <2>2 DEF InLine
<1> QED  BY <1>3, <1>4 DEF SameLine

\* A release serves nobody yet.
LEMMA ReleaseMaps ==
  ASSUME TypeOK, NEW q \in Seq(Requests), NEW h \in Nat, NEW w \in Nat,
         NEW a \in Nat, NEW b \in Nat, QueueIs(q, h, w, a, b), InLine(q, w, a, b),
         RecordArrival, NEW r \in Held, status' = [status EXCEPT ![r] = "idle"]
  PROVE  arrived' = arrived /\ Fifo!Release(r, 0)
<1>1. /\ \A i \in DOMAIN arrived : status[arrived[i]] = "waiting" /\ arrived[i] \in Requests
      /\ arrived \in Seq(Requests)
  BY LineWaits DEF InLine
<1>2. arrived' = arrived
  <2>1. \A i \in DOMAIN arrived : status'[arrived[i]] = "waiting"
    <3>1. \A i \in DOMAIN arrived : arrived[i] # r
      BY <1>1 DEF Held
    <3> QED  BY <1>1, <3>1 DEF TypeOK
  <2>2. NewlyWaiting = {}
    BY DEF NewlyWaiting, TypeOK
  <2> QED  BY <2>1, <2>2, NobodyServed
<1>3. Held' = Held \ {r}
  BY HeldLoses
<1>4. SubSeq(arrived, 1, Len(arrived)) = arrived
  BY <1>1, SubSeqFull
<1>5. Fifo!Oldest(0) = {}
  BY DEF Fifo!Oldest
<1>6. SubSeq(arrived, 0 + 1, Len(arrived)) = arrived
  BY <1>4
<1> QED  BY <1>2, <1>3, <1>5, <1>6 DEF Fifo!Release, Fifo!Promote

\* A pass that notifies grants the first in line.
LEMMA ServeMaps ==
  ASSUME TypeOK, NEW q \in Seq(Requests), NEW h \in Nat, NEW w \in Nat,
         NEW a \in Nat, NEW b \in Nat, QueueIs(q, h, w, a, b), InLine(q, w, a, b),
         RecordArrival, a < b, status' = [status EXCEPT ![q[a]] = "granted"]
  PROVE  InLine(q, w, a + 1, b)' /\ 1 \in 0 .. Len(arrived) /\ Fifo!Grant(1)
<1> DEFINE n == Len(q)
           m == Len(arrived)
           r == q[a]
           S == SubSeq(arrived, 2, m)
<1>1. /\ n \in Nat /\ 1 <= a /\ a <= b /\ b <= w /\ w <= n + 1
      /\ Cardinality(Held) \in Nat /\ Cardinality(Held) + (b - a) = w - 1 - h
  BY QueueBounds
<1>2. /\ m \in Nat /\ DOMAIN arrived = 1 .. m /\ 1 \in 1 .. m /\ arrived[1] = r
      /\ \A i \in 1 .. m : status[arrived[i]] = "waiting" /\ arrived[i] \in Requests
      /\ \A i, j \in 1 .. m : arrived[i] = arrived[j] => i = j
  <2>1. /\ m \in Nat /\ DOMAIN arrived = 1 .. m
        /\ \A i \in DOMAIN arrived :
              status[arrived[i]] = "waiting" /\ arrived[i] \in Requests
        /\ \A i, j \in DOMAIN arrived : arrived[i] = arrived[j] => i = j
        /\ 1 \in DOMAIN arrived /\ arrived[1] = r
    BY LineWaits
  <2> HIDE DEF m, r
  <2> QED  BY <2>1
<1>3. /\ arrived \in Seq(Requests) /\ m = LineLength(n, w, a, b)
      /\ \A i \in 1 .. m : arrived[i] = q[Place(w, a, b, i)]
  BY DEF InLine
<1>4. r \in Requests /\ status[r] = "waiting"
  BY <1>2
<1> HIDE DEF m, r
<1>5. NewlyWaiting = {}
  BY <1>4 DEF NewlyWaiting, TypeOK, r
<1>6. Served = {1}
  <2>1. status'[arrived[1]] # "waiting"
    BY <1>2, <1>4 DEF TypeOK, r
  <2>2. ASSUME NEW i \in 1 .. m, i # 1
        PROVE  status'[arrived[i]] = "waiting"
    <3>1. arrived[i] # r /\ arrived[i] \in Requests
      BY <1>2, <2>2
    <3> QED  BY <1>2, <3>1 DEF TypeOK, r
  <2> QED  BY <1>2, <2>1, <2>2 DEF Served
<1>7. /\ S \in Seq(Requests) /\ Len(S) = m - 1
      /\ \A i \in 1 .. m - 1 : S[i] = arrived[i + 1]
  <2>1. \A i \in 2 .. m : arrived[i] \in Requests
    BY <1>2
  <2>2. /\ S \in Seq(Requests)
        /\ Len(S) = IF 2 <= m THEN m - 2 + 1 ELSE 0
        /\ \A i \in 1 .. m - 2 + 1 : S[i] = arrived[2 + i - 1]
    BY <1>2, <2>1, SubSeqProperties
  <2> QED  BY <1>2, <2>2
<1>8. arrived' = S
  <2>1. arrived' = SubSeq(arrived, 1, 1 - 1) \o SubSeq(arrived, 1 + 1, Len(arrived))
    BY <1>5, <1>6 DEF RecordArrival, WithoutPlace
  <2>2. SubSeq(arrived, 1, 1 - 1) = << >>
    BY SubSeqEmpty
  <2>3. SubSeq(arrived, 1 + 1, Len(arrived)) = S
    BY DEF m
  <2> QED  BY <1>7, <2>1, <2>2, <2>3, ConcatEmptySeq
<1> HIDE DEF S
<1>9. Held' = Held \cup {r}
  BY <1>4, HeldGains DEF r
<1>10. GrantsAre(q, h, w, a, b)
  BY DEF QueueIs
<1>11. Fifo!Oldest(1) = {r}
  BY <1>2 DEF Fifo!Oldest
<1>12. Fifo!Clear(r, Held \cup {r})
  <2>1. CASE WriterFront(q, h, w)
    <3>1. Cardinality(Held) = 0
      BY <1>1, <2>1 DEF WriterFront
    <3>2. Held = {}
      BY <3>1, RequestSets, FS_EmptySet
    <3> QED  BY <3>2 DEF Fifo!Clear
  <2>2. CASE ~ WriterFront(q, h, w)
    <3>1. ~ IsExclusive(r)
      <4>1. a \in a .. b - 1
        OBVIOUS
      <4> QED  BY <1>10, <2>2, <4>1 DEF GrantsAre, r
    <3>2. \A s \in Held : ~ IsExclusive(s)
      BY <1>10, <2>2 DEF GrantsAre
    <3> QED  BY <3>1, <3>2 DEF Fifo!Clear, Fifo!Conflict, IsExclusive
  <2> QED  BY <2>1, <2>2
<1>13. Fifo!Grant(1)
  <2>1. SubSeq(arrived, 1 + 1, Len(arrived)) = S
    <3>1. 1 + 1 = 2
      OBVIOUS
    <3> QED  BY <3>1 DEF S, m
  <2>2. \A s \in Fifo!Oldest(1) : Fifo!Clear(s, Held \cup Fifo!Oldest(1))
    BY <1>11, <1>12
  <2>3. Fifo!Promote(1, Held)
    BY <1>8, <1>9, <1>11, <2>1, <2>2 DEF Fifo!Promote
  <2> QED  BY <2>3 DEF Fifo!Grant
<1>14. InLine(q, w, a + 1, b)'
  <2>1. m - 1 = LineLength(n, w, a + 1, b)
    BY <1>1, <1>3 DEF LineLength
  <2>2. ASSUME NEW i \in 1 .. m - 1
        PROVE  S[i] = q[Place(w, a + 1, b, i)]
    <3>1. i + 1 \in 1 .. m
      BY <1>2
    <3>2. Place(w, a, b, i + 1) = Place(w, a + 1, b, i)
      BY <1>1, <1>2 DEF Place
    <3> QED  BY <1>3, <1>7, <3>1, <3>2
  <2> QED  BY <1>7, <1>8, <2>1, <2>2 DEF InLine
<1>15. 1 \in 0 .. Len(arrived)
  BY <1>2 DEF m
<1> QED  BY <1>13, <1>14, <1>15

LEMMA InitFifo == Init /\ arrived = << >> => FifoInv /\ Fifo!Init
<1> SUFFICES ASSUME Init, arrived = << >>
             PROVE  FifoInv /\ Fifo!Init
  OBVIOUS
<1> DEFINE q == << >>
<1>1. q \in Seq(Requests) /\ Len(q) = 0
  OBVIOUS
<1>2. QueueIs(q, 0, 1, 1, 1)
  BY InitQueue
<1>3. InLine(q, 1, 1, 1)
  <2>1. arrived \in Seq(Requests) /\ Len(arrived) = 0 /\ LineLength(0, 1, 1, 1) = 0
    BY DEF LineLength
  <2> HIDE DEF q
  <2> QED  BY <1>1, <2>1 DEF InLine
<1>4. FifoInv
  BY <1>1, <1>2, <1>3 DEF FifoInv
<1>5. Fifo!Init
  BY DEF Fifo!Init, Init, Held
<1> QED  BY <1>4, <1>5

LEMMA FifoStep ==
  ASSUME HasRoom
  PROVE  TypeOK /\ FifoInv /\ [Next /\ RecordArrival]_fifoLockVars
            => FifoInv' /\ [Fifo!Next]_(Fifo!fifoVars)
<1> SUFFICES ASSUME TypeOK, FifoInv, [Next /\ RecordArrival]_fifoLockVars
             PROVE  FifoInv' /\ [Fifo!Next]_(Fifo!fifoVars)
  OBVIOUS
<1>1. PICK q \in Seq(Requests), h \in Nat, w \in Nat, a \in Nat, b \in Nat :
        QueueIs(q, h, w, a, b) /\ InLine(q, w, a, b)
  BY DEF FifoInv
<1>2. ASSUME NEW r \in Requests, AcquireAtSwitch(r), RecordArrival
      PROVE  FifoInv' /\ Fifo!Next
  <2> DEFINE t == Append(q, r)
             v == Len(q) + 2
  <2>1. t \in Seq(Requests) /\ v \in Nat
    BY AppendProperties, LenProperties
  <2>2. /\ status[r] = "idle"
        /\ status' = [status EXCEPT ![r] = IF GrantedOnArrival(r) THEN "granted"
                                                                   ELSE "waiting"]
    BY <1>2 DEF AcquireAtSwitch
  <2>3. \/ /\ GrantedOnArrival(r) /\ w = Len(q) + 1
           /\ IF IsExclusive(r) THEN Len(q) = h
                                ELSE \A k \in h + 1 .. Len(q) : ~ IsExclusive(q[k])
           /\ QueueIs(t, h, v, a, b)'
        \/ ~ GrantedOnArrival(r) /\ QueueIs(t, h, w, a, b)'
    BY <1>1, <1>2, AcquireAtSwitchRoom
  <2>4. CASE GrantedOnArrival(r)
    <3>1. InLine(t, v, a, b)' /\ Fifo!ArriveGranted(r)
      BY <1>1, <1>2, <2>2, <2>3, <2>4, GrantedArrivalMaps
    <3> HIDE DEF t, v
    <3> QED  BY <2>1, <2>3, <2>4, <3>1 DEF FifoInv, Fifo!Next
  <2>5. CASE ~ GrantedOnArrival(r)
    <3>1. InLine(t, w, a, b)' /\ Fifo!Arrive(r)
      BY <1>1, <1>2, <2>2, <2>5, WaitingArrivalMaps
    <3> HIDE DEF t, v
    <3> QED  BY <2>1, <2>3, <2>5, <3>1 DEF FifoInv, Fifo!Next
  <2> QED  BY <2>4, <2>5
<1>3. ASSUME NEW r \in Requests, ReleaseAtSwitch(r), RecordArrival
      PROVE  FifoInv' /\ Fifo!Next
  <2>1. PICK v \in Nat, x \in Nat, y \in Nat :
          SameLine(q, w, a, b, v, x, y) /\ QueueIs(q, h + 1, v, x, y)'
    BY <1>1, <1>3, ReleaseAtSwitchRoom
  <2>2. r \in Held /\ status' = [status EXCEPT ![r] = "idle"]
    BY <1>3 DEF ReleaseAtSwitch, Held
  <2>3. arrived' = arrived /\ Fifo!Release(r, 0)
    BY <1>1, <1>3, <2>2, ReleaseMaps
  <2>4. InLine(q, v, x, y)'
    BY <1>1, <2>1, <2>3, SameLineKeeps
  <2>5. h + 1 \in Nat /\ 0 \in 0 .. Len(arrived)
    BY <1>1, LineWaits
  <2>6. FifoInv'
    BY <2>1, <2>4, <2>5 DEF FifoInv
  <2> QED  BY <2>2, <2>3, <2>5, <2>6 DEF Fifo!Next
<1>4. ASSUME Recirculate, RecordArrival
      PROVE  FifoInv' /\ [Fifo!Next]_(Fifo!fifoVars)
  <2>1. CASE status' = status /\ QueueIs(q, h, w, a, b)'
    <3>1. \A i \in DOMAIN arrived : status'[arrived[i]] = "waiting"
      BY <1>1, <2>1, LineWaits
    <3>2. NewlyWaiting = {}
      BY <2>1 DEF NewlyWaiting
    <3>3. arrived' = arrived
      BY <1>4, <3>1, <3>2, NobodyServed
    <3>4. InLine(q, w, a, b)' /\ Held' = Held
      BY <1>1, <2>1, <3>3 DEF InLine, Held
    <3> QED  BY <2>1, <3>3, <3>4 DEF FifoInv, Fifo!fifoVars
  <2>2. CASE /\ a < b /\ status' = [status EXCEPT ![q[a]] = "granted"]
             /\ QueueIs(q, h, w, a + 1, b)'
    <3>1. InLine(q, w, a + 1, b)' /\ 1 \in 0 .. Len(arrived) /\ Fifo!Grant(1)
      BY <1>1, <1>4, <2>2, ServeMaps
    <3>2. a + 1 \in Nat
      OBVIOUS
    <3> QED  BY <2>2, <3>1, <3>2 DEF FifoInv, Fifo!Next
  <2> QED  BY <1>1, <1>4, <2>1, <2>2, RecirculateRoom
<1>5. CASE UNCHANGED fifoLockVars
  <2>1. UNCHANGED vars /\ arrived' = arrived
    BY <1>5 DEF fifoLockVars
  <2>2. QueueIs(q, h, w, a, b)'
    BY <1>1, <2>1, QueueStays
  <2>3. InLine(q, w, a, b)' /\ Held' = Held
    BY <1>1, <2>1 DEF InLine, Held, vars
  <2> QED  BY <2>1, <2>2, <2>3 DEF FifoInv, Fifo!fifoVars
<1> QED  BY <1>1, <1>2, <1>3, <1>4, <1>5, StepsWithRoom

\* Where the ring has a slot for every request, the switch implements the
\* abstract lock: exclusively, and in order of arrival except among requests
\* that can share the lock, whatever the interleaving of arrivals, releases and
\* recirculated passes, for any number of requests.
THEOREM SwitchImplementsFifoLock ==
  ASSUME HasRoom
  PROVE  SpecWithArrivals => ImplementsFifoLock
<1>1. [Next /\ RecordArrival]_fifoLockVars => [Next]_vars
  BY DEF fifoLockVars
<1>2. SpecWithArrivals => Spec
  BY <1>1, PTL DEF SpecWithArrivals, Spec
<1>3. Spec => []TypeOK
  BY TypeCorrect
<1>4. Init /\ arrived = << >> => FifoInv /\ Fifo!Init
  BY InitFifo
<1>5. TypeOK /\ FifoInv /\ [Next /\ RecordArrival]_fifoLockVars
        => FifoInv' /\ [Fifo!Next]_(Fifo!fifoVars)
  BY FifoStep
<1> QED  BY <1>2, <1>3, <1>4, <1>5, PTL DEF SpecWithArrivals, ImplementsFifoLock, Fifo!Spec
=============================================================================
