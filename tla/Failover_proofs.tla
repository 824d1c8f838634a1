-------------------------- MODULE Failover_proofs --------------------------
(***************************************************************************)
(* Proofs about the recovery of the switch, for any clients, hosts, number *)
(* of attempts and queue.  Overflowed or not: when the controller is about *)
(* to clear the failure mark the registers describe an empty queue, though *)
(* failure_sim writes them one after the other while packets go on         *)
(* arriving.  With room for all, and given SlowRecovery: never do two      *)
(* clients count on the lock, and what a client counts after the failure   *)
(* is what it has asked for since.                                         *)
(***************************************************************************)
EXTENDS Failover, FiniteSetTheorems, SequenceTheorems, TLAPS

-----------------------------------------------------------------------------
\* The switch is marked as failed from before the first reset to after the
\* last ...
MarkInv ==
    controller \in {"head", "tail", "counts", "slots", "status"} => failure_status = 1

\* ... and each register keeps what the controller has written.
ResetInv ==
    /\ controller \in {"tail", "counts", "slots", "status"} => head = Left
    /\ controller \in {"counts", "slots", "status"} => tail = Left
    /\ controller \in {"slots", "status"} => numExclusive = 0 /\ numShared = 0
    /\ controller = "status" => emptySlots = Capacity /\ lengthInServer = 0

Inv == MarkInv /\ ResetInv

-----------------------------------------------------------------------------
LEMMA InvInit == Init => Inv
  BY DEF Init, Inv, MarkInv, ResetInv

\* A pass through the switch that works, whatever it does to the registers.
LEMMA WorkingStep ==
    ASSUME Inv, failure_status = 0, UNCHANGED controllerVars
    PROVE  Inv'
<1>1. controller \notin {"head", "tail", "counts", "slots", "status"}
  BY DEF Inv, MarkInv
<1>2. controller' = controller
  BY DEF controllerVars
<1> QED  BY <1>1, <1>2 DEF Inv, MarkInv, ResetInv

\* A step that leaves the registers and the controller alone.
LEMMA QuietStep ==
    ASSUME Inv, UNCHANGED << switchVars, controllerVars >>
    PROVE  Inv'
  BY DEF Inv, MarkInv, ResetInv, switchVars, controllerVars, Capacity

\* The writes of failure_sim, each to its own registers.
LEMMA ControllerStep ==
    ASSUME Inv, Fail \/ Recovery
    PROVE  Inv'
<1>1. CASE Fail
  BY <1>1 DEF Inv, MarkInv, ResetInv, Fail, Writes
<1>2. CASE ResetHead
  BY <1>2 DEF Inv, MarkInv, ResetInv, ResetHead, Writes
<1>3. CASE ResetTail
  BY <1>3 DEF Inv, MarkInv, ResetInv, ResetTail, Writes
<1>4. CASE ResetCounts
  BY <1>4 DEF Inv, MarkInv, ResetInv, ResetCounts, Writes
<1>5. CASE ResetSlots
  BY <1>5 DEF Inv, MarkInv, ResetInv, ResetSlots, Writes, Capacity
<1>6. CASE RecoveryEnds
  BY <1>6 DEF Inv, MarkInv, ResetInv, RecoveryEnds, Writes
<1> QED  BY <1>1, <1>2, <1>3, <1>4, <1>5, <1>6 DEF Recovery

\* What the switch does with a packet: it works, or it leaves its registers.
LEMMA PassStep ==
    ASSUME Inv, SwitchStep
    PROVE  Inv'
<1>1. CASE \E c \in Clients : AcquireAtSwitch(c)
  BY <1>1, WorkingStep DEF AcquireAtSwitch
<1>2. CASE \E c \in Clients : ReleaseAtSwitch(c)
  BY <1>2, WorkingStep DEF ReleaseAtSwitch
<1>3. CASE \E c \in Clients : NotifiesOfClient(c)
  BY <1>3, QuietStep DEF NotifiesOfClient
<1>4. CASE Recirculate
  BY <1>4, WorkingStep DEF Recirculate
<1>5. CASE NotifiesOfRelease
  BY <1>5, QuietStep DEF NotifiesOfRelease
<1> QED  BY <1>1, <1>2, <1>3, <1>4, <1>5 DEF SwitchStep

\* The same with requests at the server.
LEMMA OverflowStep ==
    ASSUME Inv, Overflow
    PROVE  Inv'
<1>1. CASE \E c \in Clients : AcquireForwarded(c)
  BY <1>1, WorkingStep DEF AcquireForwarded
<1>2. CASE \E c \in Clients : ReleaseForwarded(c)
  BY <1>2, WorkingStep DEF ReleaseForwarded
<1>3. CASE PushBackAtSwitch
  BY <1>3, WorkingStep DEF PushBackAtSwitch
<1>4. CASE NotifiesOfPushBack
  BY <1>4, QuietStep DEF NotifiesOfPushBack
<1>5. CASE ServerBuffers
  BY <1>5, QuietStep DEF ServerBuffers
<1>6. CASE ServerPushesBack
  BY <1>6, QuietStep DEF ServerPushesBack
<1> QED  BY <1>1, <1>2, <1>3, <1>4, <1>5, <1>6 DEF Overflow

\* Clients and probes.
LEMMA HostStep ==
    ASSUME Inv,
           \/ \E h \in Hosts : ProbeAtSwitch(h) \/ ProbeArrives(h)
           \/ \E c \in Clients : Rx(c) \/ Tx(c)
    PROVE  Inv'
<1>1. CASE \E h \in Hosts : ProbeAtSwitch(h) \/ ProbeArrives(h)
  BY <1>1, QuietStep DEF ProbeAtSwitch, ProbeArrives, ProbeOnly
<1>2. CASE \E c \in Clients : Rx(c)
  BY <1>2, QuietStep DEF Rx, RxCheck, RxCount
<1>3. CASE \E c \in Clients : TxAcquire(c) \/ TxCommit(c)
  BY <1>3, QuietStep DEF TxAcquire, TxCommit
<1>4. CASE \E c \in Clients : RollbackRead(c) \/ RollbackStop(c) \/ StopClears(c)
  BY <1>4, QuietStep DEF RollbackRead, RollbackStop, StopClears
<1> QED  BY <1>1, <1>2, <1>3, <1>4 DEF Tx

LEMMA InvNext == Inv /\ [Next \/ Overflow]_vars => Inv'
<1> SUFFICES ASSUME Inv, [Next \/ Overflow]_vars  PROVE Inv'
  OBVIOUS
<1>1. CASE SwitchStep
  BY <1>1, PassStep
<1>2. CASE Overflow
  BY <1>2, OverflowStep
<1>3. CASE Fail \/ Recovery
  BY <1>3, ControllerStep
<1>4. CASE ServerNotified
  BY <1>4, QuietStep DEF ServerNotified
<1>5. CASE \/ \E h \in Hosts : ProbeAtSwitch(h) \/ ProbeArrives(h)
           \/ \E c \in Clients : Rx(c) \/ Tx(c)
  BY <1>5, HostStep
<1>6. CASE UNCHANGED vars
  BY <1>6, QuietStep DEF vars
<1> QED  BY <1>1, <1>2, <1>3, <1>4, <1>5, <1>6 DEF Next

LEMMA InvImpliesResetHolds == Inv => ResetHolds
  BY DEF Inv, ResetInv, ResetHolds

\* The registers the controller leaves to the recovered switch describe an
\* empty queue that nobody holds, also where requests had overflowed to the
\* server: no late ACQUIRE, RELEASE or PUSH_BACK changes a register behind the
\* resets of failure_sim.
THEOREM RecoveryResets == OverflowSpec => []ResetHolds
<1>1. Init => Inv
  BY InvInit
<1>2. Inv /\ [Next \/ Overflow]_vars => Inv'
  BY InvNext
<1> QED  BY <1>1, <1>2, InvImpliesResetHolds, PTL DEF OverflowSpec

\* The same where the queue has room for all.
THEOREM RecoveryResetsWithRoom == Spec => []ResetHolds
<1>1. [Next]_vars => [Next \/ Overflow]_vars
  OBVIOUS
<1>2. Init => Inv
  BY InvInit
<1>3. Inv /\ [Next]_vars => Inv'
  BY InvNext, <1>1
<1> QED  BY <1>2, <1>3, InvImpliesResetHolds, PTL DEF Spec

-----------------------------------------------------------------------------
(* A ring with room for all: who holds the lock, from the first request to *)
(* the last one after the recovery.                                        *)

Failing == controller \in {"head", "tail", "counts", "slots", "status"}
Normal(c) == failure_act[c] = "NORMAL"

TypeInv ==
    /\ controller \in {"working", "recovered"} \/ Failing
    /\ failure_status = IF Failing THEN 1 ELSE 0
    /\ head \in Slots /\ tail \in Slots
    /\ slot \in [Slots -> Requests \cup {NoRequest}]
    /\ toSwitch \in [Clients -> Seq([op : {"acquire", "release"}, request : Requests])]
    /\ toClient \in [Clients -> Seq(Requests)]
    /\ received \in [Clients -> Requests \cup {None}]
    /\ got \in [Clients -> SUBSET Requests]
    /\ attempt \in [Clients -> Nat \ {0}]
    /\ sent \in [Clients -> BOOLEAN] /\ turned \in [Clients -> BOOLEAN]
    /\ rollingBack \in [Clients -> BOOLEAN]
    /\ failure_act \in [Clients -> {"NORMAL", "ROLLBACK", "STOP"}]
    /\ last_failure_status \in [Hosts -> {0, 1}]
    /\ probes \in [Hosts -> Seq({0, 1})]

\* What the hosts know of the failure, and what they have yet to hear: the
\* status goes up once and down once.
Only(q, s) == \A i \in DOMAIN q : q[i] = s
Rises(q) == \A i, j \in DOMAIN q : i < j => q[i] <= q[j]
Falls(q) == \A i, j \in DOMAIN q : i < j => q[i] >= q[j]

HeardInv(h) ==
    /\ controller = "working" => last_failure_status[h] = 0 /\ Only(probes[h], 0)
    /\ Failing => Rises(probes[h]) /\ (last_failure_status[h] = 1 => Only(probes[h], 1))
    /\ controller = "recovered" =>
         Falls(probes[h]) /\ (last_failure_status[h] = 0 => Only(probes[h], 0))

ActInv(c) ==
    /\ Normal(c) <=> last_failure_status[HostOf[c]] = 0
    /\ rollingBack[c] => failure_act[c] = "ROLLBACK"
    /\ controller = "recovered" => failure_act[c] # "ROLLBACK"

ProbeInv == (\A h \in Hosts : HeardInv(h)) /\ (\A c \in Clients : ActInv(c))

\* A client that has given its transaction up counts on nothing, but for what
\* arrives before the transmit lcore's next turn.
StopInv ==
    \A c \in Clients :
        rollingBack[c] \/ failure_act[c] = "STOP" => ~ sent[c] /\ (turned[c] => got[c] = {})

\* A client has at most one grant, in one of three places; one that has not
\* heard of a failure sent the request of it in this attempt.
Holds(c) == toClient[c] # << >> \/ received[c] # None \/ got[c] # {}

HasGrant(c, r) ==
    \/ toClient[c] = << r >> /\ received[c] = None /\ got[c] = {}
    \/ toClient[c] = << >> /\ received[c] = r /\ got[c] = {}
    \/ toClient[c] = << >> /\ received[c] = None /\ got[c] = {r}

GrantInv(c) ==
    Holds(c) => \E n \in Nat : /\ HasGrant(c, << c, n >>)
                               /\ Normal(c) => sent[c] /\ n = attempt[c]

HolderInv ==
    /\ \A c, d \in Clients : Holds(c) /\ Holds(d) => c = d
    /\ \A c \in Clients : GrantInv(c)

\* The queue is the ring from the head on.
Ahead(i) == IF head + i > Right THEN head + i - Capacity ELSE head + i
Waiting  == Capacity - emptySlots
Entry(i) == slot[Ahead(i)]

RingInv ==
    /\ emptySlots \in 0 .. Capacity /\ lengthInServer = 0
    /\ numShared = 0 /\ numExclusive = Waiting /\ tail = Ahead(Waiting)

\* The packets of a client: the release of the entry at the head, the request
\* of its attempt, or the one before the other.
Acquire(c)  == Packet("acquire", << c, attempt[c] >>)
Release     == Packet("release", Entry(0))
Releases(c) == toSwitch[c] # << >> /\ Head(toSwitch[c]).op = "release"
Acquires(c) == toSwitch[c] # << >> /\ toSwitch[c][Len(toSwitch[c])].op = "acquire"

PathOf(c) ==
    \/ toSwitch[c] = << >>
    \/ toSwitch[c] = << Acquire(c) >> /\ sent[c]
    \/ toSwitch[c] = << Release >>
    \/ toSwitch[c] = << Release, Acquire(c) >> /\ sent[c]

\* Each entry is the request of its client's attempt, and no two are the same;
\* the one at the head may be of an attempt that is over and yet to be released.
EntryOf(i, c, n) ==
    /\ Entry(i) = << c, n >>
    /\ \/ i = 0 /\ Releases(c)
       \/ n = attempt[c] /\ sent[c] /\ ~ Acquires(c)

EntryInv ==
    /\ \A i \in 0 .. Waiting - 1 :
         Entry(i) \in Requests /\ \E c \in Clients, n \in Nat : EntryOf(i, c, n)
    /\ \A i, j \in 0 .. Waiting - 1 : Entry(i) = Entry(j) => i = j

\* The entry at the head is yet to be granted by the packet that goes round, or
\* its client has the grant, or its release is on its way.
UseOf(c) ==
    Holds(c) \/ Releases(c) =>
        /\ Waiting > 0 /\ recirculating = << >>
        /\ \E n \in Nat : /\ Entry(0) = << c, n >>
                          /\ Holds(c) => n = attempt[c]
                          /\ Releases(c) => n < attempt[c]

TurnInv ==
    recirculating # << >> =>
        /\ Waiting > 0
        /\ \E e \in Slots : recirculating =
             << [flag |-> 1, dequeuedExclusive |-> TRUE, curHead |-> head, curTail |-> e] >>

\* A client the failure has stopped has nothing left of before it.
ResumeOf(c) == ~ Normal(c) => toSwitch[c] = << >> /\ ~ sent[c] /\ ~ Holds(c)

QueueInv ==
    /\ RingInv /\ EntryInv /\ TurnInv
    /\ \A c \in Clients : PathOf(c) /\ UseOf(c) /\ ResumeOf(c)

RoomInv ==
    /\ TypeInv /\ ProbeInv /\ StopInv /\ HolderInv
    /\ failure_status = 0 => QueueInv

-----------------------------------------------------------------------------
LEMMA Sizes == Capacity \in Nat \ {0} /\ Left \in Nat /\ Right \in Nat /\ Right = Left + Capacity - 1
  BY BoundsAssumption DEF Capacity

LEMMA AfterSlot ==
    ASSUME NEW i \in Slots  PROVE After(i) \in Slots
  BY BoundsAssumption DEF Slots, After

LEMMA PacketType ==
    ASSUME NEW op \in {"acquire", "release"}, NEW r \in Requests
    PROVE  Packet(op, r) \in [op : {"acquire", "release"}, request : Requests]
  BY DEF Packet

LEMMA InitType == Init => TypeInv
  BY BoundsAssumption DEF Init, SwitchInit, TypeInv, Failing, Slots

\* A grant goes to the client of the request.
LEMMA GrantType ==
    ASSUME TypeInv, NEW r \in Requests, Grant(r) \/ UNCHANGED toClient
    PROVE  toClient' \in [Clients -> Seq(Requests)]
<1>1. CASE UNCHANGED toClient
  BY <1>1 DEF TypeInv
<1>2. CASE Grant(r)
  <2>1. CASE r[1] \in Clients
    <3>1. Append(toClient[r[1]], r) \in Seq(Requests)
      BY <2>1, AppendProperties DEF TypeInv
    <3> QED  BY <1>2, <2>1, <3>1 DEF Grant, TypeInv
  <2>2. CASE r[1] \notin Clients
    BY <1>2, <2>2 DEF Grant, TypeInv
  <2> QED  BY <2>1, <2>2
<1> QED  BY <1>1, <1>2

\* What a client sends is what it has, but for a packet more or one less.
LEMMA PathType ==
    ASSUME TypeInv, NEW c \in Clients,
           \/ toSwitch' = [toSwitch EXCEPT ![c] = Tail(@)] /\ toSwitch[c] # << >>
           \/ \E op \in {"acquire", "release"}, r \in Requests : ToSwitch(c, op, r)
    PROVE  toSwitch' \in [Clients -> Seq([op : {"acquire", "release"}, request : Requests])]
<1> DEFINE P == [op : {"acquire", "release"}, request : Requests]
<1>1. toSwitch \in [Clients -> Seq(P)]
  BY DEF TypeInv
<1>2. \A p \in P, q \in Seq(P) : Append(q, p) \in Seq(P)
  BY AppendProperties
<1>3. \A q \in Seq(P) : q # << >> => Tail(q) \in Seq(P)
  BY HeadTailProperties
<1>4. \A op \in {"acquire", "release"}, r \in Requests : Packet(op, r) \in P
  BY PacketType
<1> HIDE DEF P
<1>5. toSwitch' \in [Clients -> Seq(P)]
  BY <1>1, <1>2, <1>3, <1>4 DEF ToSwitch
<1> QED  BY <1>5 DEF P

\* The registers of a pass of the working switch.
LEMMA RegistersType ==
    ASSUME TypeInv, NEW r \in Requests, QueueAcquire(r) \/ PopOnRelease(r)
    PROVE  head' \in Slots /\ tail' \in Slots /\ slot' \in [Slots -> Requests \cup {NoRequest}]
<1>1. head \in Slots /\ tail \in Slots /\ slot \in [Slots -> Requests \cup {NoRequest}]
  BY DEF TypeInv
<1>2. After(head) \in Slots /\ After(tail) \in Slots
  BY <1>1, AfterSlot
<1> QED  BY <1>1, <1>2 DEF QueueAcquire, Enqueue, PopOnRelease

\* The request of the packet at the front of a path.
LEMMA PathHead ==
    ASSUME TypeInv, NEW c \in Clients, NEW op, Arriving(c, op)
    PROVE  /\ Head(toSwitch[c]).request \in Requests
           /\ toSwitch[c] # << >>
           /\ toSwitch' = [toSwitch EXCEPT ![c] = Tail(@)]
<1> DEFINE P == [op : {"acquire", "release"}, request : Requests]
<1>1. toSwitch[c] \in Seq(P) /\ toSwitch[c] # << >>
  BY DEF TypeInv, Arriving
<1>2. Head(toSwitch[c]) \in P
  <2> HIDE DEF P
  <2> QED  BY <1>1, HeadTailProperties
<1> QED  BY <1>1, <1>2 DEF Arriving

LEMMA SwitchType ==
    ASSUME RoomInv, SwitchStep
    PROVE  TypeInv'
<1>1. TypeInv
  BY DEF RoomInv
<1>2. ASSUME NEW c \in Clients, AcquireAtSwitch(c)  PROVE TypeInv'
  <2> DEFINE r == Head(toSwitch[c]).request
  <2>1. /\ r \in Requests
        /\ toSwitch' \in [Clients -> Seq([op : {"acquire", "release"}, request : Requests])]
    BY <1>1, <1>2, PathHead, PathType DEF AcquireAtSwitch
  <2>2. QueueAcquire(r) /\ (Grant(r) \/ UNCHANGED toClient)
    BY <1>2 DEF AcquireAtSwitch
  <2>3. toClient' \in [Clients -> Seq(Requests)]
    BY <1>1, <2>1, <2>2, GrantType
  <2>4. head' \in Slots /\ tail' \in Slots /\ slot' \in [Slots -> Requests \cup {NoRequest}]
    BY <1>1, <2>1, <2>2, RegistersType
  <2>5. UNCHANGED << controllerVars, probeVars, received, clientVars >>
    BY <1>2 DEF AcquireAtSwitch
  <2> QED  BY <1>1, <2>1, <2>3, <2>4, <2>5
           DEF TypeInv, Failing, controllerVars, probeVars, clientVars, Slots
<1>3. ASSUME NEW c \in Clients, ReleaseAtSwitch(c)  PROVE TypeInv'
  <2> DEFINE r == Head(toSwitch[c]).request
  <2>1. /\ r \in Requests
        /\ toSwitch' \in [Clients -> Seq([op : {"acquire", "release"}, request : Requests])]
    BY <1>1, <1>3, PathHead, PathType DEF ReleaseAtSwitch
  <2>2. PopOnRelease(r)
    BY <1>3 DEF ReleaseAtSwitch
  <2>4. head' \in Slots /\ tail' \in Slots /\ slot' \in [Slots -> Requests \cup {NoRequest}]
    BY <1>1, <2>1, <2>2, RegistersType
  <2>5. UNCHANGED << controllerVars, probeVars, toClient, received, clientVars >>
    BY <1>3 DEF ReleaseAtSwitch
  <2> QED  BY <1>1, <2>1, <2>4, <2>5
           DEF TypeInv, Failing, controllerVars, probeVars, clientVars, Slots
<1>4. ASSUME NEW c \in Clients, NotifiesOfClient(c)  PROVE TypeInv'
  <2>1. toSwitch' \in [Clients -> Seq([op : {"acquire", "release"}, request : Requests])]
    BY <1>1, <1>4, PathType DEF NotifiesOfClient
  <2>2. UNCHANGED << switchVars, controllerVars, probeVars, toClient, received, clientVars >>
    BY <1>4 DEF NotifiesOfClient
  <2> QED  BY <1>1, <2>1, <2>2
           DEF TypeInv, Failing, switchVars, controllerVars, probeVars, clientVars, Slots
<1>5. ASSUME Recirculate  PROVE TypeInv'
  <2> DEFINE r == slot[Head(recirculating).curHead]
  <2>1. TurnInv /\ recirculating # << >>
    BY <1>5 DEF RoomInv, QueueInv, Recirculate
  <2>2. Head(recirculating).curHead = head
    BY <2>1 DEF TurnInv
  <2>3. r \in Requests \cup {NoRequest}
    BY <1>1, <2>2 DEF TypeInv
  <2>4. CASE r = NoRequest
    <3>1. UNCHANGED << switchVars, controllerVars, toSwitch, probeVars, toClient, received,
                       clientVars >>
      BY <1>5, <2>4 DEF Recirculate
    <3> QED  BY <1>1, <3>1
             DEF TypeInv, Failing, switchVars, controllerVars, probeVars, clientVars, Slots
  <2>5. CASE r # NoRequest
    <3>1. Grant(r) \/ UNCHANGED toClient
      BY <1>5 DEF Recirculate
    <3>2. toClient' \in [Clients -> Seq(Requests)]
      BY <1>1, <2>3, <2>5, <3>1, GrantType
    <3>3. UNCHANGED << switchVars, controllerVars, toSwitch, probeVars, received, clientVars >>
      BY <1>5 DEF Recirculate
    <3> QED  BY <1>1, <3>2, <3>3
             DEF TypeInv, Failing, switchVars, controllerVars, probeVars, clientVars, Slots
  <2> QED  BY <2>4, <2>5
<1>6. ASSUME NotifiesOfRelease  PROVE TypeInv'
  BY <1>1, <1>6 DEF NotifiesOfRelease, TypeInv, Failing, switchVars, controllerVars,
                    probeVars, clientVars, Slots
<1> QED  BY <1>2, <1>3, <1>4, <1>5, <1>6 DEF SwitchStep

\* failure_sim
LEMMA ControllerType ==
    ASSUME RoomInv, Fail \/ Recovery
    PROVE  TypeInv'
<1>1. TypeInv
  BY DEF RoomInv
<1>2. UNCHANGED << toSwitch, recirculating, probeVars, toClient, received, clientVars >>
  BY DEF Fail, Recovery, ResetHead, ResetTail, ResetCounts, ResetSlots, RecoveryEnds,
         ControllerOnly
<1>3. head' \in Slots /\ tail' \in Slots /\ slot' \in [Slots -> Requests \cup {NoRequest}]
  BY <1>1, Sizes DEF Fail, Recovery, ResetHead, ResetTail, ResetCounts, ResetSlots,
     RecoveryEnds, TypeInv, switchVars, Slots
<1>4. /\ controller' \in {"working", "recovered"} \/ Failing'
      /\ failure_status' = IF Failing' THEN 1 ELSE 0
  BY <1>1 DEF Fail, Recovery, ResetHead, ResetTail, ResetCounts, ResetSlots,
     RecoveryEnds, TypeInv, Failing, Writes
<1> QED  BY <1>1, <1>2, <1>3, <1>4 DEF TypeInv, probeVars, clientVars, Slots

\* What a client makes of a probe.
LEMMA ActCases ==
    ASSUME NEW c, NEW current \in {0, 1}, NEW last \in {0, 1}
    PROVE  /\ current = 1 /\ last = 0 => Act(c, current, last) = "ROLLBACK"
           /\ current = 0 /\ last = 1 => Act(c, current, last) = "NORMAL"
           /\ current = last => Act(c, current, last) = failure_act[c]
<1>1. 0 # 1
  OBVIOUS
<1>2. current = 0 \/ current = 1
  OBVIOUS
<1>3. last = 0 \/ last = 1
  OBVIOUS
<1> QED  BY <1>1, <1>2, <1>3, ZenonT(20) DEF Act

\* Probes.
LEMMA ProbeType ==
    ASSUME RoomInv, NEW h \in Hosts, ProbeAtSwitch(h) \/ ProbeArrives(h)
    PROVE  TypeInv'
<1>1. TypeInv
  BY DEF RoomInv
<1>2. CASE ProbeAtSwitch(h)
  <2>1. failure_status \in {0, 1}
    BY <1>1 DEF TypeInv
  <2>2. Append(probes[h], failure_status) \in Seq({0, 1})
    BY <1>1, <2>1, AppendProperties DEF TypeInv
  <2>3. probes' \in [Hosts -> Seq({0, 1})]
    BY <1>1, <1>2, <2>2 DEF ProbeAtSwitch, TypeInv
  <2>4. UNCHANGED << switchVars, controllerVars, toSwitch, recirculating,
                     last_failure_status, toClient, received, clientVars >>
    BY <1>2 DEF ProbeAtSwitch
  <2> QED  BY <1>1, <2>3, <2>4 DEF TypeInv, Failing, switchVars, controllerVars,
                                   clientVars, Slots
<1>3. CASE ProbeArrives(h)
  <2>1. Head(probes[h]) \in {0, 1} /\ Tail(probes[h]) \in Seq({0, 1})
    BY <1>1, <1>3, HeadTailProperties DEF ProbeArrives, TypeInv
  <2>2. /\ probes' \in [Hosts -> Seq({0, 1})]
        /\ last_failure_status' \in [Hosts -> {0, 1}]
    BY <1>1, <1>3, <2>1 DEF ProbeArrives, TypeInv
  <2>3. failure_act' \in [Clients -> {"NORMAL", "ROLLBACK", "STOP"}]
    <3>1. ASSUME NEW c \in Clients, HostOf[c] = h
          PROVE  Act(c, Head(probes[h]), last_failure_status[h]) \in {"NORMAL", "ROLLBACK", "STOP"}
      <4>1. last_failure_status[h] \in {0, 1} /\ failure_act[c] \in {"NORMAL", "ROLLBACK", "STOP"}
        BY <1>1 DEF TypeInv
      <4> QED  BY <2>1, <4>1, ActCases
    <3>2. failure_act \in [Clients -> {"NORMAL", "ROLLBACK", "STOP"}]
      BY <1>1 DEF TypeInv
    <3> QED  BY <1>3, <3>1, <3>2 DEF ProbeArrives, ActOfHost
  <2>4. UNCHANGED << switchVars, controllerVars, toSwitch, toClient, received,
                     rollingBack, attempt, sent, got, turned >>
    BY <1>3 DEF ProbeArrives, ProbeOnly
  <2> QED  BY <1>1, <2>2, <2>3, <2>4 DEF TypeInv, Failing, switchVars, controllerVars, Slots
<1> QED  BY <1>2, <1>3

\* The one grant a transaction commits with.
LEMMA CommittedGrant ==
    ASSUME TypeInv, NEW c \in Clients, TxCommit(c)
    PROVE  /\ got[c] # {}
           /\ (CHOOSE r \in got[c] : TRUE) \in got[c]
           /\ (CHOOSE r \in got[c] : TRUE) \in Requests
           /\ ToSwitch(c, "release", CHOOSE r \in got[c] : TRUE)
<1>1. Cardinality(got[c]) = 1
  BY DEF TxCommit
<1>2. got[c] # {}
  BY <1>1, FS_EmptySet
<1>3. got[c] \subseteq Requests
  BY DEF TypeInv
<1> QED  BY <1>2, <1>3 DEF TxCommit

LEMMA ClientType ==
    ASSUME RoomInv, NEW c \in Clients, Rx(c) \/ Tx(c)
    PROVE  TypeInv'
<1>1. TypeInv
  BY DEF RoomInv
<1>2. ASSUME RxCheck(c)  PROVE TypeInv'
  <2>1. Head(toClient[c]) \in Requests /\ Tail(toClient[c]) \in Seq(Requests)
    BY <1>1, <1>2, HeadTailProperties DEF RxCheck, TypeInv
  <2>2. /\ toClient' \in [Clients -> Seq(Requests)]
        /\ received' \in [Clients -> Requests \cup {None}]
    BY <1>1, <1>2, <2>1 DEF RxCheck, TypeInv
  <2>3. UNCHANGED << switchVars, controllerVars, toSwitch, probeVars, clientVars >>
    BY <1>2 DEF RxCheck
  <2> QED  BY <1>1, <2>2, <2>3 DEF TypeInv, Failing, switchVars, controllerVars,
                                   probeVars, clientVars, Slots
<1>3. ASSUME RxCount(c)  PROVE TypeInv'
  <2>1. received[c] \in Requests
    BY <1>1, <1>3 DEF RxCount, TypeInv
  <2>2. /\ got' \in [Clients -> SUBSET Requests] /\ turned' \in [Clients -> BOOLEAN]
        /\ received' \in [Clients -> Requests \cup {None}]
    BY <1>1, <1>3, <2>1 DEF RxCount, TypeInv
  <2>3. UNCHANGED << switchVars, controllerVars, toSwitch, probeVars, toClient,
                     failure_act, rollingBack, attempt, sent >>
    BY <1>3 DEF RxCount
  <2> QED  BY <1>1, <2>2, <2>3 DEF TypeInv, Failing, switchVars, controllerVars,
                                   probeVars, Slots
<1>4. ASSUME TxAcquire(c)  PROVE TypeInv'
  <2>1. << c, attempt[c] >> \in Requests
    <3>1. attempt[c] \in Nat \ {0} /\ attempt[c] <= MaxAttempts[c]
      BY <1>1, <1>4 DEF TxAcquire, TypeInv
    <3>2. MaxAttempts[c] \in Nat /\ \A n \in 1 .. MaxAttempts[c] : << c, n >> \in Requests
      BY FailoverAssumption
    <3>3. attempt[c] \in 1 .. MaxAttempts[c]
      BY <3>1, <3>2
    <3> QED  BY <3>2, <3>3
  <2>2. toSwitch' \in [Clients -> Seq([op : {"acquire", "release"}, request : Requests])]
    BY <1>1, <1>4, <2>1, PathType DEF TxAcquire
  <2>3. sent' \in [Clients -> BOOLEAN]
    BY <1>1, <1>4 DEF TxAcquire, TypeInv
  <2>4. UNCHANGED << switchVars, controllerVars, probeVars, toClient, received,
                     failure_act, rollingBack, attempt, got, turned >>
    BY <1>4 DEF TxAcquire
  <2> QED  BY <1>1, <2>2, <2>3, <2>4 DEF TypeInv, Failing, switchVars, controllerVars,
                                   probeVars, Slots
<1>5. ASSUME TxCommit(c)  PROVE TypeInv'
  <2>1. toSwitch' \in [Clients -> Seq([op : {"acquire", "release"}, request : Requests])]
    BY <1>1, <1>5, CommittedGrant, PathType
  <2>2. /\ sent' \in [Clients -> BOOLEAN] /\ got' \in [Clients -> SUBSET Requests]
        /\ attempt' \in [Clients -> Nat \ {0}] /\ turned' \in [Clients -> BOOLEAN]
    BY <1>1, <1>5 DEF TxCommit, TypeInv
  <2>3. UNCHANGED << switchVars, controllerVars, probeVars, toClient, received,
                     failure_act, rollingBack >>
    BY <1>5 DEF TxCommit
  <2> QED  BY <1>1, <2>1, <2>2, <2>3 DEF TypeInv, Failing, switchVars, controllerVars,
                                   probeVars, Slots
<1>6. ASSUME RollbackRead(c) \/ RollbackStop(c) \/ StopClears(c)  PROVE TypeInv'
  <2>1. /\ sent' \in [Clients -> BOOLEAN] /\ got' \in [Clients -> SUBSET Requests]
        /\ attempt' \in [Clients -> Nat \ {0}]
    <3>1. CASE Forgets(c)
      BY <1>1, <3>1 DEF Forgets, TypeInv
    <3>2. CASE UNCHANGED << sent, got, attempt >>
      BY <1>1, <3>2 DEF TypeInv
    <3> QED  BY <1>6, <3>1, <3>2 DEF RollbackRead, RollbackStop, StopClears
  <2>2. /\ turned' \in [Clients -> BOOLEAN] /\ rollingBack' \in [Clients -> BOOLEAN]
        /\ failure_act' \in [Clients -> {"NORMAL", "ROLLBACK", "STOP"}]
    BY <1>1, <1>6 DEF RollbackRead, RollbackStop, StopClears, TypeInv
  <2>3. UNCHANGED << switchVars, controllerVars, toSwitch, probeVars, toClient, received >>
    BY <1>6 DEF RollbackRead, RollbackStop, StopClears
  <2> QED  BY <1>1, <2>1, <2>2, <2>3 DEF TypeInv, Failing, switchVars, controllerVars,
                                   probeVars, Slots
<1> QED  BY <1>2, <1>3, <1>4, <1>5, <1>6 DEF Rx, Tx

LEMMA NextType == RoomInv /\ [Next]_vars => TypeInv'
<1> SUFFICES ASSUME RoomInv, [Next]_vars  PROVE TypeInv'
  OBVIOUS
<1>1. TypeInv
  BY DEF RoomInv
<1>2. CASE ServerNotified
  BY <1>1, <1>2 DEF ServerNotified, TypeInv, Failing, switchVars, controllerVars,
                    probeVars, clientVars, Slots
<1>3. CASE UNCHANGED vars
  BY <1>1, <1>3 DEF vars, TypeInv, Failing, switchVars, controllerVars, probeVars,
                    clientVars, Slots
<1> QED  BY <1>2, <1>3, SwitchType, ControllerType, ProbeType, ClientType DEF Next

-----------------------------------------------------------------------------
(* What the hosts know.                                                    *)

LEMMA InitProbe == Init => ProbeInv
  BY FailoverAssumption DEF Init, ProbeInv, HeardInv, ActInv, Normal, Only, Failing

\* The status of the switch goes into a probe.
LEMMA ProbeSent ==
    ASSUME TypeInv, ProbeInv, NEW h \in Hosts, ProbeAtSwitch(h)
    PROVE  ProbeInv'
<1> DEFINE q == probes[h]
           t == Append(q, failure_status)
<1>1. /\ q \in Seq({0, 1}) /\ failure_status \in {0, 1}
      /\ last_failure_status[h] \in {0, 1}
      /\ \A i \in DOMAIN q : q[i] \in {0, 1}
  BY ElementOfSeq DEF TypeInv
<1>2. /\ Len(t) = Len(q) + 1 /\ t[Len(q) + 1] = failure_status
      /\ \A i \in 1 .. Len(q) : t[i] = q[i]
      /\ DOMAIN q = 1 .. Len(q) /\ DOMAIN t = 1 .. Len(t) /\ Len(q) \in Nat
  BY <1>1, AppendProperties, LenProperties
<1>3. /\ probes' = [probes EXCEPT ![h] = t]
      /\ UNCHANGED << last_failure_status, failure_act, rollingBack, controller, failure_status >>
  BY DEF ProbeAtSwitch, controllerVars, clientVars
<1>4. probes \in [Hosts -> Seq({0, 1})]
  BY DEF TypeInv
<1>5. HeardInv(h) /\ (failure_status = IF Failing THEN 1 ELSE 0)
      /\ (controller \in {"working", "recovered"} \/ Failing)
  BY DEF ProbeInv, TypeInv
<1> HIDE DEF q, t
<1>6. HeardInv(h)'
  <2>1. probes'[h] = t /\ probes[h] = q
    BY <1>3, <1>4 DEF q
  <2>2. ASSUME Only(q, failure_status)  PROVE Only(t, failure_status)
    BY <1>2, <2>2 DEF Only
  <2>3. ASSUME Rises(q), failure_status = 1  PROVE Rises(t)
    BY <1>1, <1>2, <2>3 DEF Rises
  <2>4. ASSUME Falls(q), failure_status = 0  PROVE Falls(t)
    BY <1>1, <1>2, <2>4 DEF Falls
  <2> QED  BY <1>3, <1>5, <2>1, <2>2, <2>3, <2>4 DEF HeardInv, Failing
<1>7. ASSUME NEW g \in Hosts, g # h  PROVE HeardInv(g)'
  BY <1>3, <1>4, <1>7 DEF ProbeInv, HeardInv, Failing
<1>8. \A c \in Clients : ActInv(c)'
  BY <1>3 DEF ProbeInv, ActInv, Normal
<1> QED  BY <1>6, <1>7, <1>8 DEF ProbeInv

\* A probe is back: what is behind it says the same or the one other thing that
\* is left to hear.
LEMMA ProbeHeard ==
    ASSUME TypeInv, ProbeInv, NEW h \in Hosts, ProbeArrives(h)
    PROVE  ProbeInv'
<1> DEFINE q == probes[h]
           t == Tail(q)
           x == Head(q)
           last == last_failure_status[h]
<1>1. q \in Seq({0, 1}) /\ q # << >> /\ last \in {0, 1}
  BY DEF ProbeArrives, TypeInv
<1>2. /\ DOMAIN q = 1 .. Len(q) /\ DOMAIN t = 1 .. Len(t)
      /\ Len(q) \in Nat /\ Len(q) > 0 /\ Len(t) = Len(q) - 1
      /\ \A i \in 1 .. Len(t) : t[i] = q[i + 1]
      /\ x = q[1] /\ x \in {0, 1}
  BY <1>1, HeadTailProperties, LenProperties, EmptySeq
<1>3. \A i \in DOMAIN q : q[i] \in {0, 1}
  BY <1>1, <1>2, ElementOfSeq
<1>4. /\ probes' = [probes EXCEPT ![h] = t]
      /\ last_failure_status' = [last_failure_status EXCEPT ![h] = x]
      /\ failure_act' = [c \in Clients |-> IF HostOf[c] = h THEN Act(c, x, last)
                                           ELSE failure_act[c]]
      /\ UNCHANGED << rollingBack, controller, failure_status >>
  BY DEF ProbeArrives, ActOfHost, ProbeOnly, controllerVars
<1>5. /\ probes \in [Hosts -> Seq({0, 1})] /\ last_failure_status \in [Hosts -> {0, 1}]
      /\ failure_act \in [Clients -> {"NORMAL", "ROLLBACK", "STOP"}]
      /\ controller \in {"working", "recovered"} \/ Failing
  BY DEF TypeInv
<1>6. HeardInv(h) /\ \A c \in Clients : ActInv(c)
  BY DEF ProbeInv
<1> HIDE DEF q, t, x, last
<1>7. probes'[h] = t /\ probes[h] = q /\ last_failure_status'[h] = x /\ last_failure_status[h] = last
  BY <1>4, <1>5 DEF q, last
<1>8. \A i \in DOMAIN t : i + 1 \in DOMAIN q /\ t[i] = q[i + 1] /\ 1 < i + 1
  BY <1>2
<1>9. 1 \in DOMAIN q
  BY <1>2
<1>10. \A i \in DOMAIN t : i \in Nat
  BY <1>2
<1>11. \A s \in {0, 1} : Only(q, s) => x = s /\ Only(t, s)
  BY <1>2, <1>8, <1>9 DEF Only
<1>12. Rises(q) => Rises(t) /\ (x = 1 => Only(t, 1))
  <2> SUFFICES ASSUME Rises(q)  PROVE Rises(t) /\ (x = 1 => Only(t, 1))
    OBVIOUS
  <2>1. \A i \in DOMAIN t : x <= t[i] /\ t[i] \in {0, 1}
    BY <1>2, <1>3, <1>8, <1>9 DEF Rises
  <2>2. x = 1 => Only(t, 1)
    BY <1>2, <2>1 DEF Only
  <2>3. ASSUME NEW i \in DOMAIN t, NEW j \in DOMAIN t, i < j  PROVE t[i] <= t[j]
    <3>1. i + 1 < j + 1
      BY <1>10, <2>3
    <3> QED  BY <1>8, <3>1 DEF Rises
  <2> QED  BY <2>2, <2>3 DEF Rises
<1>13. Falls(q) => Falls(t) /\ (x = 0 => Only(t, 0))
  <2> SUFFICES ASSUME Falls(q)  PROVE Falls(t) /\ (x = 0 => Only(t, 0))
    OBVIOUS
  <2>1. \A i \in DOMAIN t : x >= t[i] /\ t[i] \in {0, 1}
    BY <1>2, <1>3, <1>8, <1>9 DEF Falls
  <2>2. x = 0 => Only(t, 0)
    BY <1>2, <2>1 DEF Only
  <2>3. ASSUME NEW i \in DOMAIN t, NEW j \in DOMAIN t, i < j  PROVE t[i] >= t[j]
    <3>1. i + 1 < j + 1
      BY <1>10, <2>3
    <3> QED  BY <1>8, <3>1 DEF Falls
  <2> QED  BY <2>2, <2>3 DEF Falls
<1>14. HeardInv(h)'
  BY <1>1, <1>2, <1>4, <1>6, <1>7, <1>11, <1>12, <1>13 DEF HeardInv, Failing
<1>15. ASSUME NEW g \in Hosts, g # h  PROVE HeardInv(g)'
  BY <1>4, <1>5, <1>15 DEF ProbeInv, HeardInv, Failing
<1>16. ASSUME NEW c \in Clients, HostOf[c] = h  PROVE ActInv(c)'
  <2>1. failure_act'[c] = Act(c, x, last)
    BY <1>4, <1>16
  <2>2. CASE x = last
    <3>1. failure_act'[c] = failure_act[c]
      BY <1>1, <1>2, <2>1, <2>2, ActCases
    <3> QED  BY <1>4, <1>6, <1>7, <1>16, <2>2, <3>1 DEF ActInv, Normal
  <2>3. CASE x = 1 /\ last = 0
    <3>1. failure_act'[c] = "ROLLBACK"
      BY <2>1, <2>3, ActCases
    <3>2. controller # "recovered"
      BY <1>6, <1>7, <1>11, <2>3 DEF HeardInv
    <3> QED  BY <1>4, <1>7, <1>16, <2>3, <3>1, <3>2 DEF ActInv, Normal
  <2>4. CASE x = 0 /\ last = 1
    <3>1. failure_act'[c] = "NORMAL"
      BY <2>1, <2>4, ActCases
    <3>2. controller = "recovered"
      BY <1>5, <1>6, <1>7, <1>11, <2>4 DEF HeardInv
    <3>3. ~ rollingBack[c]
      BY <1>6, <3>2 DEF ActInv
    <3> QED  BY <1>4, <1>7, <1>16, <2>4, <3>1, <3>3 DEF ActInv, Normal
  <2> QED  BY <1>1, <1>2, <2>2, <2>3, <2>4
<1>17. ASSUME NEW c \in Clients, HostOf[c] # h  PROVE ActInv(c)'
  <2>1. failure_act'[c] = failure_act[c]
    BY <1>4, <1>17
  <2>2. HostOf[c] \in Hosts
    BY FailoverAssumption
  <2>3. last_failure_status'[HostOf[c]] = last_failure_status[HostOf[c]]
    BY <1>4, <1>5, <1>17, <2>2
  <2> QED  BY <1>4, <1>6, <2>1, <2>3 DEF ActInv, Normal
<1> QED  BY <1>14, <1>15, <1>16, <1>17 DEF ProbeInv

\* The failure begins and ends for probes that say so far nothing of it; at the
\* end every host has heard of it.
LEMMA ControllerProbe ==
    ASSUME RoomInv, Fail \/ Recovery
    PROVE  ProbeInv'
<1>1. UNCHANGED << probes, last_failure_status, failure_act, rollingBack >>
  BY DEF Fail, Recovery, ResetHead, ResetTail, ResetCounts, ResetSlots, RecoveryEnds,
         ControllerOnly, probeVars, clientVars
<1>2. /\ TypeInv /\ \A h \in Hosts : HeardInv(h)
      /\ \A c \in Clients : ActInv(c)
  BY DEF RoomInv, ProbeInv
<1>3. CASE Fail
  <2>1. controller = "working" /\ controller' = "head"
    BY <1>3 DEF Fail, Writes
  <2>2. \A h \in Hosts : HeardInv(h)'
    BY <1>1, <1>2, <2>1 DEF HeardInv, Failing, Only, Rises
  <2>3. \A c \in Clients : ActInv(c)'
    BY <1>1, <1>2, <2>1 DEF ActInv, Normal
  <2> QED  BY <2>2, <2>3 DEF ProbeInv
<1>4. CASE RecoveryEnds
  <2>1. controller = "status" /\ controller' = "recovered" /\ Drained
    BY <1>4 DEF RecoveryEnds, Writes
  <2>2. ASSUME NEW h \in Hosts  PROVE last_failure_status[h] = 1
    <3>1. FirstOf[h] \in Clients /\ HostOf[FirstOf[h]] = h
      BY FailoverAssumption
    <3>2. failure_act[FirstOf[h]] = "STOP" /\ ActInv(FirstOf[h])
      BY <1>2, <2>1, <3>1 DEF Drained
    <3>3. last_failure_status[h] \in {0, 1}
      BY <1>2 DEF TypeInv
    <3> QED  BY <3>1, <3>2, <3>3 DEF ActInv, Normal
  <2>3. ASSUME NEW h \in Hosts  PROVE HeardInv(h)'
    <3>1. Only(probes[h], 1) /\ last_failure_status[h] = 1
      BY <1>2, <2>1, <2>2 DEF HeardInv, Failing
    <3> QED  BY <1>1, <2>1, <3>1 DEF HeardInv, Failing, Only, Falls
  <2>4. \A c \in Clients : ActInv(c)'
    BY <1>1, <1>2, <2>1 DEF ActInv, Normal, Drained
  <2> QED  BY <2>3, <2>4 DEF ProbeInv
<1>5. CASE Failing /\ Failing'
  <2>1. \A h \in Hosts : HeardInv(h)'
    BY <1>1, <1>2, <1>5 DEF HeardInv, Failing
  <2>2. \A c \in Clients : ActInv(c)'
    BY <1>1, <1>2, <1>5 DEF ActInv, Normal, Failing
  <2> QED  BY <2>1, <2>2 DEF ProbeInv
<1>6. ResetHead \/ ResetTail \/ ResetCounts \/ ResetSlots => Failing /\ Failing'
  BY DEF ResetHead, ResetTail, ResetCounts, ResetSlots, Writes, Failing
<1> QED  BY <1>3, <1>4, <1>5, <1>6 DEF Recovery

\* A client gives up only where it has heard of the failure.
LEMMA ClientProbe ==
    ASSUME TypeInv, ProbeInv, NEW c \in Clients, RollbackRead(c) \/ RollbackStop(c)
    PROVE  ProbeInv'
<1>1. UNCHANGED << controllerVars, probeVars >>
  BY DEF RollbackRead, RollbackStop
<1>2. \A h \in Hosts : HeardInv(h)'
  BY <1>1 DEF ProbeInv, HeardInv, Failing, controllerVars, probeVars
<1>3. /\ failure_act \in [Clients -> {"NORMAL", "ROLLBACK", "STOP"}]
      /\ rollingBack \in [Clients -> BOOLEAN] /\ \A d \in Clients : ActInv(d)
  BY DEF TypeInv, ProbeInv
<1>4. failure_act[c] = "ROLLBACK"
  BY <1>3 DEF RollbackRead, RollbackStop, ActInv
<1>5. ASSUME NEW d \in Clients, d # c  PROVE ActInv(d)'
  BY <1>1, <1>3, <1>5 DEF RollbackRead, RollbackStop, ActInv, Normal, controllerVars, probeVars
<1>6. ActInv(c)'
  BY <1>1, <1>3, <1>4 DEF RollbackRead, RollbackStop, ActInv, Normal, controllerVars, probeVars
<1> QED  BY <1>2, <1>5, <1>6 DEF ProbeInv

\* Other steps leave hosts and probes alone.
LEMMA QuietProbe ==
    ASSUME ProbeInv, UNCHANGED << controller, probeVars, failure_act, rollingBack >>
    PROVE  ProbeInv'
  BY DEF ProbeInv, HeardInv, ActInv, Normal, Failing, Only, Rises, Falls, probeVars

LEMMA NextProbe == RoomInv /\ [Next]_vars => ProbeInv'
<1> SUFFICES ASSUME RoomInv, [Next]_vars  PROVE ProbeInv'
  OBVIOUS
<1>1. TypeInv /\ ProbeInv
  BY DEF RoomInv
<1>2. CASE SwitchStep \/ ServerNotified \/ UNCHANGED vars
  <2>1. UNCHANGED << controller, probeVars, failure_act, rollingBack >>
    BY <1>2 DEF SwitchStep, AcquireAtSwitch, ReleaseAtSwitch, NotifiesOfClient, Recirculate,
                NotifiesOfRelease, ServerNotified, vars, controllerVars, clientVars
  <2> QED  BY <1>1, <2>1, QuietProbe
<1>3. CASE Fail \/ Recovery
  BY <1>3, ControllerProbe
<1>4. ASSUME NEW h \in Hosts, ProbeAtSwitch(h) \/ ProbeArrives(h)  PROVE ProbeInv'
  BY <1>1, <1>4, ProbeSent, ProbeHeard
<1>5. ASSUME NEW c \in Clients, Rx(c) \/ TxAcquire(c) \/ TxCommit(c) \/ StopClears(c)
      PROVE  ProbeInv'
  <2>1. UNCHANGED << controller, probeVars, failure_act, rollingBack >>
    BY <1>5 DEF Rx, RxCheck, RxCount, TxAcquire, TxCommit, StopClears, controllerVars, clientVars
  <2> QED  BY <1>1, <2>1, QuietProbe
<1>6. ASSUME NEW c \in Clients, RollbackRead(c) \/ RollbackStop(c)  PROVE ProbeInv'
  BY <1>1, <1>6, ClientProbe
<1> QED  BY <1>2, <1>3, <1>4, <1>5, <1>6 DEF Next, Tx

-----------------------------------------------------------------------------
(* What is given up.                                                       *)

LEMMA NextStop == RoomInv /\ [Next]_vars => StopInv'
<1> SUFFICES ASSUME RoomInv, [Next]_vars  PROVE StopInv'
  OBVIOUS
<1>1. TypeInv /\ StopInv
  BY DEF RoomInv
<1>2. CASE UNCHANGED << failure_act, rollingBack, sent, got, turned >>
  BY <1>1, <1>2 DEF StopInv
<1>3. SwitchStep \/ ServerNotified \/ UNCHANGED vars \/ Fail \/ Recovery =>
        UNCHANGED << failure_act, rollingBack, sent, got, turned >>
  BY DEF SwitchStep, AcquireAtSwitch, ReleaseAtSwitch, NotifiesOfClient, Recirculate,
         NotifiesOfRelease, ServerNotified, vars, clientVars, Fail, Recovery, ResetHead,
         ResetTail, ResetCounts, ResetSlots, RecoveryEnds, ControllerOnly
<1>4. ASSUME NEW h \in Hosts, ProbeArrives(h)  PROVE StopInv'
  <2>1. Head(probes[h]) \in {0, 1} /\ last_failure_status[h] \in {0, 1}
    BY <1>1, <1>4, HeadTailProperties DEF ProbeArrives, TypeInv
  <2>2. \A c \in Clients : Act(c, Head(probes[h]), last_failure_status[h])
                             \in {"NORMAL", "ROLLBACK", failure_act[c]}
    BY <2>1, ActCases
  <2>3. UNCHANGED << rollingBack, sent, got, turned >>
    BY <1>4 DEF ProbeArrives, ProbeOnly
  <2>4. \A c \in Clients : failure_act'[c] = "STOP" => failure_act[c] = "STOP"
    BY <1>4, <2>2 DEF ProbeArrives, ActOfHost
  <2> QED  BY <1>1, <2>3, <2>4 DEF StopInv
<1>5. ASSUME NEW c \in Clients, Rx(c) \/ TxAcquire(c) \/ TxCommit(c)  PROVE StopInv'
  <2>1. CASE RxCheck(c)
    BY <1>2, <2>1 DEF RxCheck, clientVars
  <2>2. CASE RxCount(c)
    BY <1>1, <2>2 DEF RxCount, StopInv, TypeInv
  <2>3. CASE TxAcquire(c)
    BY <1>1, <2>3 DEF TxAcquire, StopInv, TypeInv
  <2>4. CASE TxCommit(c)
    BY <1>1, <2>4 DEF TxCommit, StopInv, TypeInv
  <2> QED  BY <1>5, <2>1, <2>2, <2>3, <2>4 DEF Rx
<1>6. ASSUME NEW c \in Clients, RollbackRead(c) \/ RollbackStop(c) \/ StopClears(c)
      PROVE  StopInv'
  <2>1. CASE RollbackRead(c)
    BY <1>1, <2>1 DEF RollbackRead, Forgets, StopInv, TypeInv
  <2>2. CASE RollbackStop(c)
    BY <1>1, <2>2 DEF RollbackStop, StopInv, TypeInv
  <2>3. CASE StopClears(c)
    BY <1>1, <2>3 DEF StopClears, Forgets, StopInv, TypeInv
  <2> QED  BY <1>6, <2>1, <2>2, <2>3
<1>7. ASSUME NEW h \in Hosts, ProbeAtSwitch(h)  PROVE StopInv'
  BY <1>2, <1>7 DEF ProbeAtSwitch, clientVars
<1> QED  BY <1>2, <1>3, <1>4, <1>5, <1>6, <1>7 DEF Next, Tx

-----------------------------------------------------------------------------
(* Who holds the lock.                                                     *)

\* A grant where there is none.
LEMMA GrantGiven ==
    ASSUME TypeInv, NEW c \in Clients, \A d \in Clients : ~ Holds(d),
           sent[c], Grant(<< c, attempt[c] >>),
           UNCHANGED << received, clientVars >>
    PROVE  HolderInv' /\ \A d \in Clients : Holds(d)' <=> d = c
<1> DEFINE r == << c, attempt[c] >>
<1>1. toClient[c] = << >> /\ received[c] = None /\ got[c] = {} /\ attempt[c] \in Nat
  BY DEF Holds, TypeInv
<1>2. toClient' = [toClient EXCEPT ![c] = << r >>]
  <2>1. toClient' = [toClient EXCEPT ![c] = Append(@, r)]
    BY DEF Grant
  <2>2. Append(<< >>, r) = << r >>
    OBVIOUS
  <2> QED  BY <1>1, <2>1, <2>2
<1>3. toClient'[c] = << r >> /\ \A d \in Clients : d # c => toClient'[d] = toClient[d]
  BY <1>2 DEF TypeInv
<1>4. \A d \in Clients : Holds(d)' <=> d = c
  BY <1>3 DEF Holds, clientVars
<1>5. HasGrant(c, r)'
  BY <1>1, <1>3 DEF HasGrant, clientVars
<1>6. GrantInv(c)'
  BY <1>1, <1>5 DEF GrantInv, clientVars
<1> QED  BY <1>4, <1>6 DEF HolderInv, GrantInv

\* Nothing else gives one.
LEMMA HolderQuiet ==
    ASSUME HolderInv, UNCHANGED << toClient, received, clientVars >>
    PROVE  HolderInv' /\ \A d \in Clients : Holds(d)' <=> Holds(d)
  BY DEF HolderInv, GrantInv, HasGrant, Holds, Normal, clientVars

LEMMA ClientHolder ==
    ASSUME TypeInv, HolderInv, NEW c \in Clients, Rx(c) \/ Tx(c)
    PROVE  HolderInv' /\ \A d \in Clients : Holds(d)' => Holds(d)
<1>1. /\ toClient \in [Clients -> Seq(Requests)] /\ received \in [Clients -> Requests \cup {None}]
      /\ got \in [Clients -> SUBSET Requests] /\ sent \in [Clients -> BOOLEAN]
      /\ failure_act \in [Clients -> {"NORMAL", "ROLLBACK", "STOP"}] /\ attempt \in [Clients -> Nat \ {0}]
  BY DEF TypeInv
<1>2. GrantInv(c) /\ \A n \in Nat : << c, n >> # None
  BY DEF HolderInv, None
<1>3. ASSUME NEW d \in Clients, d # c
      PROVE  (Holds(d)' <=> Holds(d)) /\ GrantInv(d)'
  <2>1. /\ toClient'[d] = toClient[d] /\ received'[d] = received[d] /\ got'[d] = got[d]
        /\ sent'[d] = sent[d] /\ attempt'[d] = attempt[d] /\ failure_act'[d] = failure_act[d]
    BY <1>1, <1>3 DEF Rx, Tx, RxCheck, RxCount, TxAcquire, TxCommit, RollbackRead,
                      RollbackStop, StopClears, Forgets, clientVars
  <2> QED  BY <2>1 DEF HolderInv, GrantInv, HasGrant, Holds, Normal
<1>4. GrantInv(c)' /\ (Holds(c)' => Holds(c))
  <2>1. CASE RxCheck(c)
    <3>1. PICK n \in Nat : HasGrant(c, << c, n >>) /\ (Normal(c) => sent[c] /\ n = attempt[c])
      BY <1>2, <2>1 DEF RxCheck, GrantInv, Holds
    <3>2. toClient[c] = << << c, n >> >> /\ received[c] = None /\ got[c] = {}
      BY <2>1, <3>1 DEF RxCheck, HasGrant
    <3>3. toClient'[c] = << >> /\ (received'[c] = << c, n >> \/ received'[c] = None)
      BY <1>1, <2>1, <3>2 DEF RxCheck
    <3>4. UNCHANGED << failure_act, sent, attempt, got >>
      BY <2>1 DEF RxCheck, clientVars
    <3>5. Holds(c)' => HasGrant(c, << c, n >>)'
      BY <3>2, <3>3, <3>4 DEF HasGrant, Holds
    <3> QED  BY <3>1, <3>2, <3>4, <3>5 DEF GrantInv, Holds, Normal
  <2>2. CASE RxCount(c)
    <3>1. PICK n \in Nat : HasGrant(c, << c, n >>) /\ (Normal(c) => sent[c] /\ n = attempt[c])
      BY <1>2, <2>2 DEF RxCount, GrantInv, Holds
    <3>2. toClient[c] = << >> /\ received[c] = << c, n >> /\ got[c] = {}
      BY <2>2, <3>1 DEF RxCount, HasGrant
    <3>3. toClient'[c] = << >> /\ received'[c] = None /\ got'[c] = {<< c, n >>}
      BY <1>1, <2>2, <3>2 DEF RxCount
    <3>4. UNCHANGED << failure_act, sent, attempt >>
      BY <2>2 DEF RxCount
    <3> QED  BY <1>2, <3>1, <3>2, <3>3, <3>4 DEF GrantInv, HasGrant, Holds, Normal
  <2>3. CASE TxAcquire(c)
    <3>1. ~ Holds(c)
      BY <1>2, <2>3 DEF TxAcquire, GrantInv, Normal
    <3> QED  BY <2>3, <3>1 DEF TxAcquire, GrantInv, Holds
  <2>4. CASE TxCommit(c)
    <3>1. got[c] # {}
      BY <2>4, CommittedGrant
    <3>2. toClient[c] = << >> /\ received[c] = None
      BY <1>2, <3>1 DEF GrantInv, HasGrant, Holds
    <3>3. got'[c] = {} /\ UNCHANGED << toClient, received >>
      BY <1>1, <2>4 DEF TxCommit
    <3> QED  BY <3>2, <3>3 DEF GrantInv, Holds
  <2>5. CASE RollbackRead(c) \/ RollbackStop(c) \/ StopClears(c)
    <3>1. ~ Normal(c)'
      BY <1>1, <2>5 DEF RollbackRead, RollbackStop, StopClears, Normal
    <3>2. UNCHANGED << toClient, received >> /\ (got'[c] = {} \/ got'[c] = got[c])
      BY <1>1, <2>5 DEF RollbackRead, RollbackStop, StopClears, Forgets
    <3>3. Holds(c)' => Holds(c)
      BY <3>2 DEF Holds
    <3>4. ASSUME Holds(c)', NEW n \in Nat, HasGrant(c, << c, n >>)  PROVE HasGrant(c, << c, n >>)'
      BY <3>2, <3>4 DEF Holds, HasGrant
    <3> QED  BY <1>2, <3>1, <3>3, <3>4 DEF GrantInv
  <2> QED  BY <2>1, <2>2, <2>3, <2>4, <2>5 DEF Rx, Tx
<1> QED  BY <1>3, <1>4 DEF HolderInv

-----------------------------------------------------------------------------
(* The ring and the paths.                                                 *)

LEMMA AheadSlots ==
    ASSUME head \in Slots
    PROVE  /\ Ahead(0) = head
           /\ \A i \in 0 .. Capacity : Ahead(i) \in Slots
           /\ \A i \in 0 .. Capacity - 1 : After(Ahead(i)) = Ahead(i + 1)
           /\ \A i, j \in 0 .. Capacity - 1 : Ahead(i) = Ahead(j) => i = j
           /\ After(head) = head => Capacity = 1
<1>1. /\ Capacity \in Nat /\ Capacity > 0 /\ Left \in Nat /\ Right = Left + Capacity - 1
      /\ head \in Left .. Right
  BY Sizes DEF Slots
<1> QED  BY <1>1 DEF Ahead, After, Slots

\* What the path of a client holds, by its shape.
LEMMA PathShapes ==
    ASSUME NEW c \in Clients, PathOf(c)
    PROVE  /\ Releases(c) <=> toSwitch[c] = << Release >> \/ toSwitch[c] = << Release, Acquire(c) >>
           /\ Acquires(c) <=> toSwitch[c] = << Acquire(c) >> \/ toSwitch[c] = << Release, Acquire(c) >>
<1>1. CASE toSwitch[c] = << >>
  BY <1>1 DEF Releases, Acquires
<1>2. CASE toSwitch[c] = << Acquire(c) >>
  BY <1>2 DEF Releases, Acquires, Acquire, Release, Packet
<1>3. CASE toSwitch[c] = << Release >>
  BY <1>3 DEF Releases, Acquires, Acquire, Release, Packet
<1>4. CASE toSwitch[c] = << Release, Acquire(c) >>
  BY <1>4 DEF Releases, Acquires, Acquire, Release, Packet
<1> QED  BY <1>1, <1>2, <1>3, <1>4 DEF PathOf

\* The path of a client that does nothing.
LEMMA PathStays ==
    ASSUME NEW d \in Clients, PathOf(d),
           toSwitch'[d] = toSwitch[d], attempt'[d] = attempt[d], sent'[d] = sent[d],
           Releases(d) => Entry(0)' = Entry(0)
    PROVE  PathOf(d)' /\ (Releases(d)' <=> Releases(d)) /\ (Acquires(d)' <=> Acquires(d))
<1>1. (Releases(d)' <=> Releases(d)) /\ (Acquires(d)' <=> Acquires(d))
  BY DEF Releases, Acquires
<1>2. Acquire(d)' = Acquire(d)
  BY DEF Acquire, Packet
<1>3. Releases(d) => Release' = Release
  BY DEF Release, Packet
<1>4. CASE Releases(d)
  BY <1>1, <1>2, <1>3, <1>4 DEF PathOf
<1>5. CASE ~ Releases(d)
  <2>1. toSwitch[d] = << >> \/ (toSwitch[d] = << Acquire(d) >> /\ sent[d])
    BY <1>5, PathShapes DEF PathOf
  <2> QED  BY <1>1, <1>2, <2>1 DEF PathOf
<1> QED  BY <1>1, <1>4, <1>5

\* An ACQUIRE arrives: it is all its client has under way.
LEMMA AcquireArrives ==
    ASSUME TypeInv, NEW c \in Clients, PathOf(c), Arriving(c, "acquire")
    PROVE  /\ toSwitch[c] = << Acquire(c) >> /\ sent[c]
           /\ Head(toSwitch[c]).request = << c, attempt[c] >>
           /\ << c, attempt[c] >> \in Requests
           /\ toSwitch' = [toSwitch EXCEPT ![c] = << >>]
           /\ ~ Releases(c) /\ Acquires(c)
<1>1. toSwitch[c] # << >> /\ Head(toSwitch[c]).op = "acquire"
  BY DEF Arriving
<1>2. ~ Releases(c)
  BY <1>1 DEF Releases
<1>3. toSwitch[c] = << Acquire(c) >> /\ sent[c]
  BY <1>1, <1>2, PathShapes DEF PathOf
<1>4. Head(toSwitch[c]).request = << c, attempt[c] >>
  BY <1>3 DEF Acquire, Packet
<1>5. Head(toSwitch[c]).request \in Requests
  BY PathHead
<1>6. Tail(toSwitch[c]) = << >>
  BY <1>3
<1> QED  BY <1>2, <1>3, <1>4, <1>5, <1>6, PathShapes DEF Arriving

\* A RELEASE arrives: it is that of the entry at the head.
LEMMA ReleaseArrives ==
    ASSUME TypeInv, NEW c \in Clients, PathOf(c), Arriving(c, "release")
    PROVE  /\ Releases(c)
           /\ Head(toSwitch[c]).request = Entry(0) /\ Entry(0) \in Requests
           /\ \/ toSwitch' = [toSwitch EXCEPT ![c] = << >>] /\ ~ Acquires(c)
              \/ toSwitch' = [toSwitch EXCEPT ![c] = << Acquire(c) >>] /\ sent[c] /\ Acquires(c)
<1>1. Releases(c)
  BY DEF Arriving, Releases
<1>2. toSwitch' = [toSwitch EXCEPT ![c] = Tail(@)]
  BY DEF Arriving
<1>3. Head(toSwitch[c]).request \in Requests
  BY PathHead
<1>4. CASE toSwitch[c] = << Release >>
  <2>1. Tail(toSwitch[c]) = << >> /\ Head(toSwitch[c]).request = Entry(0)
    BY <1>4 DEF Release, Packet
  <2>2. ~ Acquires(c)
    BY <1>4 DEF Acquires, Release, Packet
  <2> QED  BY <1>1, <1>2, <1>3, <2>1, <2>2
<1>5. CASE toSwitch[c] = << Release, Acquire(c) >>
  <2>1. Tail(toSwitch[c]) = << Acquire(c) >> /\ Head(toSwitch[c]).request = Entry(0)
    BY <1>5 DEF Release, Packet
  <2>2. sent[c] /\ Acquires(c)
    <3>1. Len(toSwitch[c]) = 2 /\ Len(<< Release >>) = 1 /\ Len(<< >>) = 0
      BY <1>5
    <3> QED  BY <1>5, <3>1, PathShapes DEF PathOf
  <2> QED  BY <1>1, <1>2, <1>3, <2>1, <2>2
<1> QED  BY <1>1, <1>4, <1>5, PathShapes

\* Where nothing but the clients' side changes, entries stay entries.
LEMMA RingStays ==
    ASSUME UNCHANGED switchVars
    PROVE  Waiting' = Waiting /\ (\A i : Entry(i)' = Entry(i)) /\ (RingInv => RingInv')
  BY DEF switchVars, Waiting, Entry, Ahead, RingInv, Capacity

\* A request joins the ring.
LEMMA RingGrows ==
    ASSUME TypeInv, RingInv, NEW r \in Requests, QueueAcquire(r)
    PROVE  \E W \in Nat :
             /\ RingInv' /\ Waiting = W /\ Waiting' = W + 1 /\ UNCHANGED head
             /\ \A i \in 0 .. W - 1 : Entry(i)' = Entry(i)
             /\ Entry(W)' = r
             /\ GrantedOnArrival(r) <=> W = 0
<1>0. PICK W : W = Waiting
  OBVIOUS
<1>1. /\ Capacity \in Nat /\ Capacity > 0 /\ RegisterModulus \in Nat
      /\ RegisterModulus > Capacity /\ IsExclusive(r)
  BY Sizes, WidthAssumption, FailoverAssumption DEF IsExclusive, Capacity
<1>2. /\ emptySlots \in 1 .. Capacity /\ lengthInServer = 0 /\ numShared = 0
      /\ numExclusive = W /\ tail = Ahead(W) /\ W = Capacity - emptySlots
  BY <1>0, <1>1 DEF RingInv, QueueAcquire, QueueHere, Waiting
<1>3. /\ emptySlots' = emptySlots - 1 /\ lengthInServer' = 0 /\ numShared' = 0
      /\ numExclusive' = W + 1
      /\ slot' = [slot EXCEPT ![tail] = r] /\ tail' = After(tail) /\ head' = head
  BY <1>1, <1>2 DEF QueueAcquire, Enqueue, Incr, Decr
<1>4. W \in 0 .. Capacity - 1
  BY <1>1, <1>2
<1>5. /\ head \in Slots /\ slot \in [Slots -> Requests \cup {NoRequest}]
  BY DEF TypeInv
<1>6. /\ \A i \in 0 .. Capacity : Ahead(i) \in Slots
      /\ \A i \in 0 .. Capacity - 1 : After(Ahead(i)) = Ahead(i + 1)
      /\ \A i, j \in 0 .. Capacity - 1 : Ahead(i) = Ahead(j) => i = j
  BY <1>5, AheadSlots
<1>7. \A i : Ahead(i)' = Ahead(i)
  BY <1>3 DEF Ahead, Capacity
<1>8. Waiting' = W + 1
  BY <1>1, <1>2, <1>3 DEF Waiting, Capacity
<1>9. W \in 0 .. Capacity
  BY <1>1, <1>4
<1>10. Entry(W)' = r
  BY <1>2, <1>3, <1>5, <1>6, <1>7, <1>9 DEF Entry
<1>11. ASSUME NEW i \in 0 .. W - 1  PROVE Entry(i)' = Entry(i)
  <2>1. i \in 0 .. Capacity - 1 /\ i # W
    BY <1>1, <1>4
  <2>2. Ahead(i) # tail /\ Ahead(i) \in Slots
    BY <1>1, <1>2, <1>4, <1>6, <2>1
  <2> QED  BY <1>3, <1>5, <1>7, <2>2 DEF Entry
<1>12. tail' = Ahead(W + 1)'
  BY <1>2, <1>3, <1>4, <1>6, <1>7
<1>13. RingInv'
  BY <1>1, <1>2, <1>3, <1>8, <1>12 DEF RingInv, Capacity
<1>14. GrantedOnArrival(r) <=> W = 0
  BY <1>1, <1>2, <1>4 DEF GrantedOnArrival, Incr
<1>15. W \in Nat
  BY <1>4
<1> QED  BY <1>3, <1>0, <1>8, <1>10, <1>11, <1>13, <1>14, <1>15

\* The request of an attempt that is on its way is not in the ring yet; once
\* there it is the entry of its client.
LEMMA EntryJoins ==
    ASSUME EntryInv, NEW W \in Nat, Waiting = W, NEW c \in Clients,
           attempt[c] \in Nat, << c, attempt[c] >> \in Requests,
           sent[c], ~ Releases(c), Acquires(c),
           UNCHANGED << attempt, sent >>,
           \A d \in Clients : Releases(d)' <=> Releases(d),
           \A d \in Clients : d # c => (Acquires(d)' <=> Acquires(d)),
           ~ Acquires(c)',
           Waiting' = W + 1,
           \A i \in 0 .. W - 1 : Entry(i)' = Entry(i),
           Entry(W)' = << c, attempt[c] >>
    PROVE  EntryInv'
<1> DEFINE r == << c, attempt[c] >>
<1>1. ASSUME NEW i \in 0 .. W - 1
      PROVE  /\ Entry(i) # r /\ Entry(i)' = Entry(i) /\ Entry(i)' \in Requests
             /\ \E d \in Clients, n \in Nat : EntryOf(i, d, n)'
  <2>1. PICK d \in Clients, n \in Nat : EntryOf(i, d, n)
    BY DEF EntryInv
  <2>2. d = c => ~ Acquires(c)
    BY <2>1 DEF EntryOf
  <2>3. d # c
    BY <2>2
  <2>4. Entry(i)' = Entry(i) /\ Entry(i) \in Requests
    BY DEF EntryInv
  <2>5. Entry(i) # r
    BY <2>1, <2>3 DEF EntryOf
  <2>6. EntryOf(i, d, n)'
    BY <2>1, <2>3, <2>4 DEF EntryOf
  <2> QED  BY <2>4, <2>5, <2>6
<1>2. Entry(W)' = r /\ EntryOf(W, c, attempt[c])'
  BY DEF EntryOf
<1>3. \A i \in 0 .. Waiting' - 1 : i \in 0 .. W - 1 \/ i = W
  OBVIOUS
<1>4. ASSUME NEW i \in 0 .. Waiting' - 1
      PROVE  Entry(i)' \in Requests /\ \E d \in Clients, n \in Nat : EntryOf(i, d, n)'
  BY <1>1, <1>2, <1>3
<1>5. ASSUME NEW i \in 0 .. Waiting' - 1, NEW j \in 0 .. Waiting' - 1, Entry(i)' = Entry(j)'
      PROVE  i = j
  BY <1>1, <1>2, <1>3, <1>5 DEF EntryInv
<1> QED  BY <1>4, <1>5 DEF EntryInv

LEMMA AcquireQueue ==
    ASSUME RoomInv, NEW c \in Clients, AcquireAtSwitch(c)
    PROVE  HolderInv' /\ QueueInv'
<1> DEFINE r == << c, attempt[c] >>
<1>1. TypeInv /\ HolderInv /\ QueueInv /\ Arriving(c, "acquire")
  BY DEF RoomInv, AcquireAtSwitch
<1>2. \A d \in Clients : PathOf(d) /\ UseOf(d) /\ ResumeOf(d)
  BY <1>1 DEF QueueInv
<1>3. /\ toSwitch[c] = << Acquire(c) >> /\ sent[c] /\ r \in Requests
      /\ Head(toSwitch[c]).request = r
      /\ toSwitch' = [toSwitch EXCEPT ![c] = << >>]
      /\ ~ Releases(c) /\ Acquires(c)
  BY <1>1, <1>2, AcquireArrives
<1>4. /\ QueueAcquire(r)
      /\ IF GrantedOnArrival(r) THEN Grant(r) ELSE UNCHANGED toClient
      /\ UNCHANGED << controllerVars, recirculating, serverVars, probeVars, received, clientVars >>
  BY <1>3 DEF AcquireAtSwitch
<1>5. PICK W \in Nat :
        /\ RingInv' /\ Waiting = W /\ Waiting' = W + 1 /\ UNCHANGED head
        /\ \A i \in 0 .. W - 1 : Entry(i)' = Entry(i)
        /\ Entry(W)' = r
        /\ GrantedOnArrival(r) <=> W = 0
  BY <1>1, <1>3, <1>4, RingGrows DEF QueueInv
<1>6. UNCHANGED << attempt, sent, failure_act, got >>
  BY <1>4 DEF clientVars
<1>7. /\ toSwitch'[c] = << >> /\ \A d \in Clients : d # c => toSwitch'[d] = toSwitch[d]
      /\ attempt[c] \in Nat
  BY <1>1, <1>3 DEF TypeInv
<1>8. W > 0 => Entry(0)' = Entry(0)
  BY <1>5
<1>9. ASSUME NEW d \in Clients, d # c
      PROVE  PathOf(d)' /\ (Releases(d)' <=> Releases(d)) /\ (Acquires(d)' <=> Acquires(d))
  <2>1. Releases(d) => Entry(0)' = Entry(0)
    BY <1>2, <1>5, <1>8 DEF UseOf
  <2> QED  BY <1>2, <1>6, <1>7, <1>9, <2>1, PathStays
<1>10. PathOf(c)' /\ ~ Releases(c)' /\ ~ Acquires(c)'
  BY <1>7 DEF PathOf, Releases, Acquires
<1>11. EntryInv'
  <2>1. \A d \in Clients : Releases(d)' <=> Releases(d)
    BY <1>3, <1>9, <1>10
  <2> QED  BY <1>1, <1>3, <1>5, <1>6, <1>7, <1>9, <1>10, <2>1, EntryJoins DEF QueueInv
<1>12. Normal(c) /\ \A d \in Clients : Normal(d)' <=> Normal(d)
  BY <1>2, <1>3, <1>6 DEF ResumeOf, Normal
<1>13. CASE W = 0
  <2>1. \A d \in Clients : ~ Holds(d) /\ ~ Releases(d)
    BY <1>2, <1>5, <1>13 DEF UseOf
  <2>2. recirculating = << >> /\ recirculating' = << >>
    BY <1>1, <1>4, <1>5, <1>13 DEF QueueInv, TurnInv
  <2>3. HolderInv' /\ \A d \in Clients : Holds(d)' <=> d = c
    <3>1. Grant(r)
      BY <1>4, <1>5, <1>13
    <3> QED  BY <1>1, <1>3, <1>4, <2>1, <3>1, GrantGiven
  <2>4. UseOf(c)'
    BY <1>5, <1>6, <1>7, <1>10, <1>13, <2>2 DEF UseOf
  <2>5. ASSUME NEW d \in Clients, d # c  PROVE UseOf(d)' /\ ResumeOf(d)'
    BY <1>2, <1>6, <1>7, <1>9, <1>12, <2>1, <2>3, <2>5 DEF UseOf, ResumeOf
  <2>6. ResumeOf(c)' /\ TurnInv'
    BY <1>12, <2>2 DEF ResumeOf, TurnInv
  <2> QED  BY <1>5, <1>9, <1>10, <1>11, <2>3, <2>4, <2>5, <2>6 DEF QueueInv
<1>14. CASE W > 0
  <2>1. UNCHANGED toClient
    BY <1>4, <1>5, <1>14
  <2>2. HolderInv' /\ \A d \in Clients : Holds(d)' <=> Holds(d)
    BY <1>1, <1>4, <2>1, HolderQuiet
  <2>3. Waiting' > 0 /\ recirculating' = recirculating /\ head' = head
    BY <1>4, <1>5, <1>14
  <2>4. ASSUME NEW d \in Clients  PROVE UseOf(d)' /\ ResumeOf(d)'
    <3>1. Releases(d)' <=> Releases(d)
      BY <1>3, <1>9, <1>10
    <3> QED  BY <1>2, <1>6, <1>7, <1>8, <1>12, <1>14, <2>2, <2>3, <3>1 DEF UseOf, ResumeOf
  <2>5. TurnInv'
    BY <1>1, <1>14, <2>3 DEF QueueInv, TurnInv, Slots
  <2> QED  BY <1>5, <1>9, <1>10, <1>11, <2>2, <2>4, <2>5 DEF QueueInv
<1> QED  BY <1>5, <1>13, <1>14

\* The entry at the head leaves the ring.
LEMMA RingPops ==
    ASSUME TypeInv, RingInv, Waiting > 0, Entry(0) \in Requests, PopOnRelease(Entry(0))
    PROVE  \E W \in Nat :
             /\ RingInv' /\ W > 0 /\ Waiting = W /\ Waiting' = W - 1
             /\ \A i \in 0 .. W - 2 : Entry(i)' = Entry(i + 1)
             /\ FollowUp # << >> =>
                  /\ W > 1
                  /\ \E e \in Slots : FollowUp =
                       << [flag |-> 1, dequeuedExclusive |-> TRUE, curHead |-> head', curTail |-> e] >>
<1>1. PICK W : W = Waiting
  OBVIOUS
<1>2. /\ Capacity \in Nat /\ Capacity > 0 /\ RegisterModulus \in Nat
      /\ RegisterModulus > Capacity /\ IsExclusive(Entry(0))
      /\ Left \in Nat /\ Right = Left + Capacity - 1
  BY Sizes, WidthAssumption, FailoverAssumption DEF IsExclusive, Capacity
<1>3. /\ emptySlots \in 0 .. Capacity - 1 /\ lengthInServer = 0 /\ numShared = 0
      /\ numExclusive = W /\ tail = Ahead(W) /\ W = Capacity - emptySlots
  BY <1>1, <1>2 DEF RingInv, Waiting
<1>4. W \in 1 .. Capacity
  BY <1>2, <1>3
<1>5. /\ emptySlots' = emptySlots + 1 /\ lengthInServer' = 0 /\ numShared' = 0
      /\ numExclusive' = W - 1
      /\ UNCHANGED << slot, tail >> /\ head' = After(head)
  BY <1>2, <1>3, <1>4 DEF PopOnRelease, Incr, Decr
<1>6. head \in Slots /\ tail \in Slots
  BY DEF TypeInv
<1>7. /\ Ahead(0) = head
      /\ \A i, j \in 0 .. Capacity - 1 : Ahead(i) = Ahead(j) => i = j
      /\ \A i \in 0 .. Capacity - 1 : After(Ahead(i)) = Ahead(i + 1)
      /\ After(head) = head => Capacity = 1
  BY <1>6, AheadSlots
<1>8. \A i \in 0 .. Capacity - 1 : Ahead(i)' = Ahead(i + 1)
  <2>1. head \in Left .. Right
    BY <1>6 DEF Slots
  <2>2. Capacity' = Capacity
    BY DEF Capacity
  <2> QED  BY <1>2, <1>5, <2>1, <2>2 DEF Ahead, After
<1>9. Waiting' = W - 1
  BY <1>2, <1>3, <1>5 DEF Waiting, Capacity
<1>10. W - 1 \in 0 .. Capacity - 1 /\ (W - 1) + 1 = W
  BY <1>2, <1>4
<1>11. tail' = Ahead(W - 1)'
  BY <1>3, <1>5, <1>8, <1>10
<1>12. RingInv'
  BY <1>2, <1>3, <1>5, <1>9, <1>11 DEF RingInv, Capacity
<1>13. ASSUME NEW i \in 0 .. W - 2  PROVE Entry(i)' = Entry(i + 1)
  <2>1. i \in 0 .. Capacity - 1
    BY <1>2, <1>4
  <2> QED  BY <1>5, <1>8, <2>1 DEF Entry
<1>14. ASSUME FollowUp # << >>
       PROVE  /\ W > 1
              /\ \E e \in Slots : FollowUp =
                   << [flag |-> 1, dequeuedExclusive |-> TRUE, curHead |-> head', curTail |-> e] >>
  <2>1. After(head) # tail
    BY <1>14 DEF FollowUp
  <2>2. After(head) = Ahead(1)
    BY <1>2, <1>7
  <2>3. W # 1
    BY <1>3, <2>1, <2>2
  <2>4. IsExclusive(slot[head])
    BY <1>2, <1>7 DEF Entry
  <2>5. FollowUp = << [flag |-> 1, dequeuedExclusive |-> TRUE, curHead |-> After(head),
                       curTail |-> tail] >>
    BY <2>1, <2>4 DEF FollowUp, IsExclusive
  <2>6. FollowUp = << [flag |-> 1, dequeuedExclusive |-> TRUE, curHead |-> head',
                       curTail |-> tail] >>
    BY <1>5, <2>5
  <2>7. W > 1
    BY <1>4, <2>3
  <2> QED  BY <1>6, <2>6, <2>7
<1>15. W \in Nat /\ W > 0
  BY <1>4
<1> QED  BY <1>1, <1>9, <1>12, <1>13, <1>14, <1>15

LEMMA ReleaseQueue ==
    ASSUME RoomInv, NEW c \in Clients, ReleaseAtSwitch(c)
    PROVE  HolderInv' /\ QueueInv'
<1>1. TypeInv /\ HolderInv /\ QueueInv /\ Arriving(c, "release")
  BY DEF RoomInv, ReleaseAtSwitch
<1>2. \A d \in Clients : PathOf(d) /\ UseOf(d) /\ ResumeOf(d)
  BY <1>1 DEF QueueInv
<1>3. /\ Releases(c)
      /\ Head(toSwitch[c]).request = Entry(0) /\ Entry(0) \in Requests
      /\ \/ toSwitch' = [toSwitch EXCEPT ![c] = << >>] /\ ~ Acquires(c)
         \/ toSwitch' = [toSwitch EXCEPT ![c] = << Acquire(c) >>] /\ sent[c] /\ Acquires(c)
  BY <1>1, <1>2, ReleaseArrives
<1>4. /\ PopOnRelease(Entry(0)) /\ recirculating' = recirculating \o FollowUp
      /\ UNCHANGED << toClient, received, clientVars >>
  BY <1>3 DEF ReleaseAtSwitch
<1>5. PICK n \in Nat : Entry(0) = << c, n >> /\ n < attempt[c] /\ (Holds(c) => n = attempt[c])
  BY <1>2, <1>3 DEF UseOf
<1>6. Waiting > 0 /\ recirculating = << >>
  BY <1>2, <1>3 DEF UseOf
<1>7. \A d \in Clients : ~ Holds(d) /\ (d # c => ~ Releases(d))
  <2>1. ~ Holds(c)
    <3>1. attempt[c] \in Nat
      BY <1>1 DEF TypeInv
    <3> QED  BY <1>5, <3>1
  <2>2. ASSUME NEW d \in Clients, d # c  PROVE ~ Holds(d) /\ ~ Releases(d)
    BY <1>2, <1>5, <2>2 DEF UseOf
  <2> QED  BY <2>1, <2>2
<1>8. PICK W \in Nat :
        /\ RingInv' /\ W > 0 /\ Waiting = W /\ Waiting' = W - 1
        /\ \A i \in 0 .. W - 2 : Entry(i)' = Entry(i + 1)
        /\ FollowUp # << >> =>
             /\ W > 1
             /\ \E e \in Slots : FollowUp =
                  << [flag |-> 1, dequeuedExclusive |-> TRUE, curHead |-> head', curTail |-> e] >>
  BY <1>1, <1>3, <1>4, <1>6, RingPops DEF QueueInv
<1>9. UNCHANGED << attempt, sent, failure_act, got >>
  BY <1>4 DEF clientVars
<1>10. toSwitch \in [Clients -> Seq([op : {"acquire", "release"}, request : Requests])]
  BY <1>1 DEF TypeInv
<1>11. \A d \in Clients : d # c => toSwitch'[d] = toSwitch[d]
  BY <1>3, <1>10
<1>12. /\ toSwitch'[c] = << >> \/ (toSwitch'[c] = << Acquire(c) >> /\ sent[c])
       /\ Acquires(c) <=> toSwitch'[c] = << Acquire(c) >>
  <2>1. << Acquire(c) >> # << >>
    OBVIOUS
  <2> QED  BY <1>3, <1>10, <2>1
<1>13. PathOf(c)' /\ ~ Releases(c)' /\ (Acquires(c)' <=> Acquires(c))
  <2>1. Acquire(c)' = Acquire(c)
    BY <1>9 DEF Acquire, Packet
  <2>2. CASE toSwitch'[c] = << >>
    <3>1. ~ Acquires(c)
      BY <1>12, <2>2
    <3> QED  BY <2>2, <3>1 DEF PathOf, Releases, Acquires
  <2>3. CASE toSwitch'[c] = << Acquire(c) >> /\ sent[c]
    <3>1. ~ Releases(c)' /\ Acquires(c)'
      BY <2>3 DEF Releases, Acquires, Acquire, Packet
    <3> QED  BY <1>9, <1>12, <2>1, <2>3, <3>1 DEF PathOf
  <2> QED  BY <1>12, <2>2, <2>3
<1>14. ASSUME NEW d \in Clients, d # c
       PROVE  PathOf(d)' /\ ~ Releases(d)' /\ (Acquires(d)' <=> Acquires(d))
  BY <1>2, <1>7, <1>9, <1>11, <1>14, PathStays
<1>15. HolderInv' /\ \A d \in Clients : ~ Holds(d)'
  BY <1>1, <1>4, <1>7, HolderQuiet
<1>16. EntryInv'
  <2>1. ASSUME NEW i \in 0 .. W - 2
        PROVE  Entry(i)' \in Requests /\ \E d \in Clients, m \in Nat : EntryOf(i, d, m)'
    <3>1. i + 1 \in 0 .. W - 1 /\ i + 1 # 0 /\ Entry(i)' = Entry(i + 1)
      BY <1>8
    <3>2. PICK d \in Clients, m \in Nat : EntryOf(i + 1, d, m)
      BY <1>1, <1>8, <3>1 DEF QueueInv, EntryInv
    <3>3. EntryOf(i, d, m)'
      BY <1>9, <1>13, <1>14, <3>1, <3>2 DEF EntryOf
    <3> QED  BY <1>1, <1>8, <3>1, <3>3 DEF QueueInv, EntryInv
  <2>2. ASSUME NEW i \in 0 .. W - 2, NEW j \in 0 .. W - 2, Entry(i)' = Entry(j)'
        PROVE  i = j
    <3>1. /\ i + 1 \in 0 .. W - 1 /\ j + 1 \in 0 .. W - 1
          /\ Entry(i + 1) = Entry(j + 1)
      BY <1>8, <2>2
    <3>2. i + 1 = j + 1
      BY <1>1, <1>8, <3>1 DEF QueueInv, EntryInv
    <3> QED  BY <3>2
  <2>3. 0 .. Waiting' - 1 = 0 .. W - 2
    BY <1>8
  <2> QED  BY <2>1, <2>2, <2>3 DEF EntryInv
<1>17. recirculating' = FollowUp
  BY <1>4, <1>6 DEF FollowUp
<1>18. TurnInv'
  BY <1>8, <1>17 DEF TurnInv, Slots
<1>19. ASSUME NEW d \in Clients  PROVE UseOf(d)' /\ ResumeOf(d)'
  <2>1. UseOf(d)'
    BY <1>13, <1>14, <1>15 DEF UseOf
  <2>2. d = c => Normal(d)
    BY <1>2, <1>3 DEF ResumeOf, Releases
  <2>3. Normal(d)' <=> Normal(d)
    BY <1>9 DEF Normal
  <2>4. ResumeOf(d)'
    BY <1>2, <1>9, <1>11, <1>15, <2>2, <2>3 DEF ResumeOf
  <2> QED  BY <2>1, <2>4
<1> QED  BY <1>8, <1>13, <1>14, <1>15, <1>16, <1>18, <1>19 DEF QueueInv

\* The packet of a release that popped: it grants the entry now at the head.
LEMMA RecirculateQueue ==
    ASSUME RoomInv, Recirculate
    PROVE  HolderInv' /\ QueueInv'
<1>1. TypeInv /\ HolderInv /\ QueueInv
  BY DEF RoomInv, Recirculate
<1>2. \A d \in Clients : PathOf(d) /\ UseOf(d) /\ ResumeOf(d)
  BY <1>1 DEF QueueInv
<1> DEFINE p == Head(recirculating)
<1>3. /\ Waiting > 0
      /\ p.flag = 1 /\ p.dequeuedExclusive /\ p.curHead = head
      /\ Tail(recirculating) = << >>
  BY <1>1 DEF QueueInv, TurnInv, Recirculate
<1>4. recirculating # << >>
  BY DEF Recirculate
<1>5. \A d \in Clients : ~ Holds(d) /\ ~ Releases(d)
  BY <1>2, <1>4 DEF UseOf
<1>6. head \in Slots /\ Ahead(0) = head /\ 0 \in 0 .. Waiting - 1
  <2>1. head \in Slots /\ Waiting \in Int
    BY <1>1, Sizes DEF TypeInv, QueueInv, RingInv, Waiting
  <2> QED  BY <1>3, <2>1, AheadSlots
<1>7. PICK c \in Clients, n \in Nat : EntryOf(0, c, n)
  BY <1>1, <1>6 DEF QueueInv, EntryInv
<1>8. Entry(0) = << c, attempt[c] >> /\ sent[c] /\ Entry(0) = slot[head]
  BY <1>5, <1>6, <1>7 DEF EntryOf, Entry
<1>9. Entry(0) \in Requests
  BY <1>1, <1>6 DEF QueueInv, EntryInv
<1>10. slot[p.curHead] = << c, attempt[c] >> /\ slot[p.curHead] # NoRequest
       /\ IsExclusive(slot[p.curHead])
  <2>1. slot[p.curHead] = Entry(0)
    BY <1>3, <1>8
  <2> QED  BY <1>8, <1>9, <2>1, RequestsAssumption, FailoverAssumption DEF IsExclusive
<1>11. Notifies(p) /\ NextPass(p) = << >>
  BY <1>3, <1>10 DEF Notifies, NextPass, Continues
<1>12. /\ Grant(<< c, attempt[c] >>) /\ recirculating' = << >>
       /\ UNCHANGED << switchVars, toSwitch, received, clientVars >>
  <2>1. Grant(slot[p.curHead]) /\ recirculating' = Tail(recirculating) \o NextPass(p)
    BY <1>10, <1>11 DEF Recirculate
  <2>2. UNCHANGED << switchVars, toSwitch, received, clientVars >>
    BY DEF Recirculate
  <2>3. recirculating' = << >>
    BY <1>3, <1>11, <2>1
  <2>4. Grant(<< c, attempt[c] >>)
    BY <1>10, <2>1
  <2> QED  BY <2>2, <2>3, <2>4
<1>13. HolderInv' /\ \A d \in Clients : Holds(d)' <=> d = c
  BY <1>1, <1>5, <1>8, <1>12, GrantGiven
<1>14. /\ Waiting' = Waiting /\ (\A i : Entry(i)' = Entry(i)) /\ RingInv'
       /\ UNCHANGED << attempt, sent, failure_act >>
  BY <1>1, <1>12, RingStays DEF QueueInv, clientVars
<1>15. \A d \in Clients : PathOf(d)' /\ ~ Releases(d)' /\ (Acquires(d)' <=> Acquires(d))
  BY <1>2, <1>5, <1>12, <1>14, PathStays
<1>16. EntryInv'
  BY <1>1, <1>5, <1>14, <1>15 DEF QueueInv, EntryInv, EntryOf
<1>17. ASSUME NEW d \in Clients  PROVE UseOf(d)' /\ ResumeOf(d)'
  <2>1. attempt[c] \in Nat
    BY <1>1 DEF TypeInv
  <2>2. UseOf(d)'
    BY <1>3, <1>8, <1>12, <1>13, <1>14, <1>15, <2>1 DEF UseOf
  <2>3. Normal(c) /\ (Normal(d)' <=> Normal(d))
    BY <1>2, <1>8, <1>14 DEF ResumeOf, Normal
  <2>4. ResumeOf(d)'
    BY <1>2, <1>12, <1>13, <1>14, <2>3 DEF ResumeOf
  <2> QED  BY <2>2, <2>4
<1>18. TurnInv'
  BY <1>12 DEF TurnInv
<1> QED  BY <1>13, <1>14, <1>15, <1>16, <1>17, <1>18 DEF QueueInv

-----------------------------------------------------------------------------
(* The clients' side of the queue.                                         *)

\* What is not at the switch does not disturb its queue.
LEMMA QueueStays ==
    ASSUME QueueInv, UNCHANGED << switchVars, toSwitch, recirculating, attempt, sent >>,
           \A d \in Clients : Holds(d)' => Holds(d),
           \A d \in Clients : Normal(d)' <=> Normal(d)
    PROVE  QueueInv'
<1>1. /\ Waiting' = Waiting /\ (\A i : Entry(i)' = Entry(i)) /\ RingInv'
  BY RingStays DEF QueueInv
<1>2. \A d \in Clients : PathOf(d) /\ UseOf(d) /\ ResumeOf(d)
  BY DEF QueueInv
<1>3. \A d \in Clients : PathOf(d)' /\ (Releases(d)' <=> Releases(d)) /\ (Acquires(d)' <=> Acquires(d))
  BY <1>1, <1>2, PathStays
<1>4. EntryInv'
  BY <1>1, <1>3 DEF QueueInv, EntryInv, EntryOf
<1>5. \A d \in Clients : UseOf(d)' /\ ResumeOf(d)'
  BY <1>1, <1>2, <1>3 DEF UseOf, ResumeOf
<1>6. TurnInv'
  BY <1>1 DEF QueueInv, TurnInv, switchVars, Slots
<1> QED  BY <1>1, <1>3, <1>4, <1>5, <1>6 DEF QueueInv

LEMMA AppendToOne ==
    ASSUME NEW a, NEW b
    PROVE  Append(<< >>, a) = << a >> /\ Append(<< a >>, b) = << a, b >>
<1> DEFINE S == {a, b}
           p == Append(<< a >>, b)
           q == << a, b >>
<1>1. << a >> \in Seq(S) /\ << a, b >> \in Seq(S) /\ b \in S
  OBVIOUS
<1>2. /\ Append(<< a >>, b) \in Seq(S) /\ Len(Append(<< a >>, b)) = 2
      /\ Append(<< a >>, b)[1] = a /\ Append(<< a >>, b)[2] = b
  BY <1>1, AppendProperties
<1>3. Len(<< a, b >>) = 2 /\ << a, b >>[1] = a /\ << a, b >>[2] = b
  OBVIOUS
<1>4. p \in Seq(S) /\ q \in Seq(S) /\ Len(p) = 2 /\ Len(q) = 2 /\ p[1] = q[1] /\ p[2] = q[2]
  BY <1>1, <1>2, <1>3
<1> HIDE DEF S, p, q
<1>5. \A i \in 1 .. Len(p) : p[i] = q[i]
  BY <1>4
<1>6. p = q
  BY <1>4, <1>5, SeqEqual
<1>7. Append(<< a >>, b) = << a, b >>
  BY <1>6 DEF p, q
<1>8. Append(<< >>, a) = << a >>
  OBVIOUS
<1> QED  BY <1>7, <1>8

\* A client asks for the lock: it has nothing of an earlier request but,
\* perhaps, the release on its way.
LEMMA TxAcquireQueue ==
    ASSUME RoomInv, QueueInv, NEW c \in Clients, TxAcquire(c)
    PROVE  QueueInv'
<1>1. TypeInv /\ HolderInv
  BY DEF RoomInv
<1>2. \A d \in Clients : PathOf(d) /\ UseOf(d) /\ ResumeOf(d)
  BY DEF QueueInv
<1>3. ~ sent[c] /\ Normal(c) /\ UNCHANGED << switchVars, recirculating, attempt, failure_act >>
  BY DEF TxAcquire, Normal
<1>4. /\ toSwitch' = [toSwitch EXCEPT ![c] = Append(@, Acquire(c))]
      /\ sent' = [sent EXCEPT ![c] = TRUE]
  BY DEF TxAcquire, ToSwitch, Acquire
<1>5. /\ toSwitch \in [Clients -> Seq([op : {"acquire", "release"}, request : Requests])]
      /\ sent \in [Clients -> BOOLEAN]
  BY <1>1 DEF TypeInv
<1>6. /\ Waiting' = Waiting /\ (\A i : Entry(i)' = Entry(i)) /\ RingInv'
  BY <1>3, RingStays DEF QueueInv
<1>7. \A d \in Clients : d # c => toSwitch'[d] = toSwitch[d] /\ sent'[d] = sent[d]
  BY <1>4, <1>5
<1>8. \A d \in Clients : d # c =>
        PathOf(d)' /\ (Releases(d)' <=> Releases(d)) /\ (Acquires(d)' <=> Acquires(d))
  BY <1>2, <1>3, <1>6, <1>7, PathStays
<1>9. toSwitch[c] = << >> \/ toSwitch[c] = << Release >>
  BY <1>2, <1>3 DEF PathOf
<1>10. /\ sent'[c] /\ Acquire(c)' = Acquire(c) /\ Release' = Release
       /\ \/ toSwitch[c] = << >> /\ toSwitch'[c] = << Acquire(c) >>
          \/ toSwitch[c] = << Release >> /\ toSwitch'[c] = << Release, Acquire(c) >>
  <2>1. /\ Append(<< >>, Acquire(c)) = << Acquire(c) >>
        /\ Append(<< Release >>, Acquire(c)) = << Release, Acquire(c) >>
    BY AppendToOne
  <2>2. toSwitch'[c] = Append(toSwitch[c], Acquire(c)) /\ sent'[c]
    BY <1>4, <1>5
  <2>3. Acquire(c)' = Acquire(c) /\ Release' = Release
    BY <1>3, <1>6 DEF Acquire, Release, Packet
  <2> QED  BY <1>9, <2>1, <2>2, <2>3
<1>11. PathOf(c)' /\ (Releases(c)' <=> Releases(c))
  <2>1. CASE toSwitch[c] = << >> /\ toSwitch'[c] = << Acquire(c) >>
    <3>1. ~ Releases(c) /\ ~ Releases(c)'
      BY <2>1 DEF Releases, Acquire, Packet
    <3> QED  BY <1>10, <2>1, <3>1 DEF PathOf
  <2>2. CASE toSwitch[c] = << Release >> /\ toSwitch'[c] = << Release, Acquire(c) >>
    <3>1. Releases(c) /\ Releases(c)'
      BY <2>2 DEF Releases, Release, Packet
    <3> QED  BY <1>10, <2>2, <3>1 DEF PathOf
  <2> QED  BY <1>10, <2>1, <2>2
<1>12. ASSUME NEW i \in Int, NEW d \in Clients, NEW n \in Nat, EntryOf(i, d, n)
       PROVE  EntryOf(i, d, n)'
  BY <1>3, <1>6, <1>7, <1>8, <1>11, <1>12 DEF EntryOf
<1>13. EntryInv'
  BY <1>6, <1>12 DEF QueueInv, EntryInv
<1>14. ~ Holds(c)
  BY <1>1, <1>3 DEF HolderInv, GrantInv
<1>15. \A d \in Clients : Holds(d)' <=> Holds(d)
  BY DEF TxAcquire, Holds
<1>16. ASSUME NEW d \in Clients  PROVE UseOf(d)' /\ ResumeOf(d)'
  <2>1. UseOf(d)'
    BY <1>2, <1>3, <1>6, <1>8, <1>11, <1>15 DEF UseOf
  <2>2. ResumeOf(d)'
    BY <1>2, <1>3, <1>7, <1>15 DEF ResumeOf, Normal
  <2> QED  BY <2>1, <2>2
<1>17. TurnInv'
  BY <1>3, <1>6 DEF QueueInv, TurnInv, switchVars, Slots
<1> QED  BY <1>6, <1>8, <1>11, <1>13, <1>16, <1>17 DEF QueueInv

\* A client is through with the lock: what it releases is the entry at the head.
LEMMA TxCommitQueue ==
    ASSUME RoomInv, QueueInv, NEW c \in Clients, TxCommit(c)
    PROVE  QueueInv'
<1>1. TypeInv /\ HolderInv
  BY DEF RoomInv
<1>2. \A d \in Clients : PathOf(d) /\ UseOf(d) /\ ResumeOf(d)
  BY DEF QueueInv
<1>3. got[c] # {} /\ ToSwitch(c, "release", CHOOSE r \in got[c] : TRUE)
  BY <1>1, CommittedGrant
<1>4. Holds(c) /\ Normal(c)
  BY <1>3 DEF Holds, TxCommit, Normal
<1>5. /\ Waiting > 0 /\ recirculating = << >> /\ Entry(0) = << c, attempt[c] >>
      /\ ~ Releases(c) /\ attempt[c] \in Nat
  <2>1. attempt[c] \in Nat
    BY <1>1 DEF TypeInv
  <2> QED  BY <1>2, <1>4, <2>1 DEF UseOf
<1>6. got[c] = {Entry(0)}
  <2>1. PICK n \in Nat : HasGrant(c, << c, n >>) /\ n = attempt[c]
    BY <1>1, <1>4 DEF HolderInv, GrantInv
  <2> QED  BY <1>3, <1>5, <2>1 DEF HasGrant
<1>7. /\ toSwitch' = [toSwitch EXCEPT ![c] = Append(@, Release)]
      /\ sent' = [sent EXCEPT ![c] = FALSE]
      /\ attempt' = [attempt EXCEPT ![c] = @ + 1]
      /\ got' = [got EXCEPT ![c] = {}]
      /\ UNCHANGED << switchVars, recirculating, failure_act, toClient, received >>
  <2>1. (CHOOSE r \in got[c] : TRUE) = Entry(0)
    BY <1>6
  <2>2. ToSwitch(c, "release", Entry(0))
    BY <1>3, <2>1
  <2> QED  BY <2>2 DEF ToSwitch, TxCommit, Release
<1>8. /\ toSwitch \in [Clients -> Seq([op : {"acquire", "release"}, request : Requests])]
      /\ sent \in [Clients -> BOOLEAN] /\ attempt \in [Clients -> Nat \ {0}]
      /\ got \in [Clients -> SUBSET Requests]
  BY <1>1 DEF TypeInv
<1>9. Waiting \in Int /\ 0 \in 0 .. Waiting - 1
  BY <1>5, Sizes DEF QueueInv, RingInv, Waiting
<1>10. ~ Acquires(c)
  <2>1. PICK d \in Clients, n \in Nat : EntryOf(0, d, n)
    BY <1>9 DEF QueueInv, EntryInv
  <2>2. d = c
    BY <1>5, <2>1 DEF EntryOf
  <2> QED  BY <1>5, <2>1, <2>2 DEF EntryOf
<1>11. toSwitch[c] = << >>
  BY <1>2, <1>5, <1>10, PathShapes DEF PathOf
<1>12. /\ Waiting' = Waiting /\ (\A i : Entry(i)' = Entry(i)) /\ RingInv'
  BY <1>7, RingStays DEF QueueInv
<1>13. \A d \in Clients : d # c =>
         /\ toSwitch'[d] = toSwitch[d] /\ sent'[d] = sent[d] /\ attempt'[d] = attempt[d]
         /\ PathOf(d)' /\ (Releases(d)' <=> Releases(d)) /\ (Acquires(d)' <=> Acquires(d))
  <2>1. \A d \in Clients : d # c =>
          toSwitch'[d] = toSwitch[d] /\ sent'[d] = sent[d] /\ attempt'[d] = attempt[d]
    BY <1>7, <1>8
  <2> QED  BY <1>2, <1>12, <2>1, PathStays
<1>14. toSwitch'[c] = << Release >> /\ Release' = Release /\ attempt'[c] = attempt[c] + 1
  <2>1. Append(<< >>, Release) = << Release >>
    OBVIOUS
  <2> QED  BY <1>7, <1>8, <1>11, <1>12, <2>1 DEF Release, Packet
<1>15. PathOf(c)' /\ Releases(c)'
  BY <1>14 DEF PathOf, Releases, Release, Packet
<1>16. ASSUME NEW i \in 0 .. Waiting - 1
       PROVE  Entry(i)' \in Requests /\ \E d \in Clients, n \in Nat : EntryOf(i, d, n)'
  <2>1. PICK d \in Clients, n \in Nat : EntryOf(i, d, n)
    BY DEF QueueInv, EntryInv
  <2>2. CASE d # c
    <3>1. EntryOf(i, d, n)'
      BY <1>12, <1>13, <2>1, <2>2 DEF EntryOf
    <3> QED  BY <1>12, <3>1 DEF QueueInv, EntryInv
  <2>3. CASE d = c
    <3>1. Entry(i) = Entry(0)
      BY <1>5, <2>1, <2>3 DEF EntryOf
    <3>2. i = 0
      BY <1>9, <3>1 DEF QueueInv, EntryInv
    <3>3. EntryOf(i, d, n)'
      BY <1>12, <1>15, <2>1, <2>3, <3>2 DEF EntryOf
    <3> QED  BY <1>12, <3>3 DEF QueueInv, EntryInv
  <2> QED  BY <2>2, <2>3
<1>17. EntryInv'
  BY <1>12, <1>16 DEF QueueInv, EntryInv
<1>18. \A d \in Clients : ~ Holds(d)'
  <2>1. \A d \in Clients : Holds(d) => d = c
    BY <1>1, <1>4 DEF HolderInv
  <2>2. toClient[c] = << >> /\ received[c] = None
    BY <1>1, <1>3, <1>4 DEF HolderInv, GrantInv, HasGrant
  <2>3. \A d \in Clients : d # c => got'[d] = got[d]
    BY <1>7, <1>8
  <2>4. got'[c] = {}
    BY <1>7, <1>8
  <2> QED  BY <1>7, <2>1, <2>2, <2>3, <2>4 DEF Holds
<1>19. ASSUME NEW d \in Clients  PROVE UseOf(d)' /\ ResumeOf(d)'
  <2>1. CASE d = c
    <3>1. attempt[c] < attempt'[c]
      BY <1>5, <1>14
    <3>2. UseOf(c)'
      BY <1>5, <1>7, <1>12, <1>18, <3>1 DEF UseOf
    <3>3. ResumeOf(c)'
      BY <1>4, <1>7 DEF ResumeOf, Normal
    <3> QED  BY <2>1, <3>2, <3>3
  <2>2. CASE d # c
    <3>1. ~ Releases(d)
      BY <1>2, <1>5, <2>2 DEF UseOf
    <3>2. UseOf(d)'
      BY <1>13, <1>18, <2>2, <3>1 DEF UseOf
    <3>3. ResumeOf(d)'
      BY <1>2, <1>7, <1>13, <1>18, <2>2 DEF ResumeOf, Normal
    <3> QED  BY <3>2, <3>3
  <2> QED  BY <2>1, <2>2
<1>20. TurnInv'
  BY <1>5, <1>7 DEF TurnInv
<1> QED  BY <1>12, <1>13, <1>15, <1>17, <1>19, <1>20 DEF QueueInv

\* Nobody is giving up while the switch works: before the failure nobody has
\* heard of one, after the recovery everybody is through with it.
LEMMA NoRollback ==
    ASSUME TypeInv, ProbeInv, failure_status = 0, NEW c \in Clients
    PROVE  failure_act[c] # "ROLLBACK" /\ ~ rollingBack[c]
<1>1. HostOf[c] \in Hosts
  BY FailoverAssumption
<1>2. HeardInv(HostOf[c]) /\ ActInv(c)
  BY <1>1 DEF ProbeInv
<1>3. controller = "working" \/ controller = "recovered"
  BY DEF TypeInv
<1> QED  BY <1>2, <1>3 DEF HeardInv, ActInv, Normal

\* A client hears of the failure while the switch is down, and of the recovery
\* after it.
LEMMA WhenHeard ==
    ASSUME TypeInv, ProbeInv, NEW h \in Hosts, ProbeArrives(h), NEW c \in Clients
    PROVE  /\ ~ Normal(c) /\ Normal(c)' => failure_status = 0
           /\ Normal(c) /\ ~ Normal(c)' => failure_status = 1
<1> DEFINE x == Head(probes[h])
           last == last_failure_status[h]
<1>1. probes[h] \in Seq({0, 1}) /\ probes[h] # << >> /\ last \in {0, 1}
  BY DEF ProbeArrives, TypeInv
<1>2. x \in {0, 1} /\ x = probes[h][1] /\ 1 \in DOMAIN probes[h]
  <2>1. x \in {0, 1}
    BY <1>1, HeadTailProperties
  <2> QED  BY <1>1, <2>1, LenProperties, EmptySeq
<1>3. failure_act'[c] = IF HostOf[c] = h THEN Act(c, x, last) ELSE failure_act[c]
  BY DEF ProbeArrives, ActOfHost
<1>4. HeardInv(h) /\ ActInv(c)
  BY DEF ProbeInv
<1>5. \A s \in {0, 1} : Only(probes[h], s) => x = s
  BY <1>2 DEF Only
<1>6. /\ controller = "working" \/ controller = "recovered" \/ Failing
      /\ failure_status = IF Failing THEN 1 ELSE 0
  BY DEF TypeInv
<1> HIDE DEF x, last
<1>7. CASE HostOf[c] # h \/ x = last
  <2>1. failure_act'[c] = failure_act[c]
    BY <1>1, <1>2, <1>3, <1>7, ActCases DEF last
  <2> QED  BY <2>1 DEF Normal
<1>8. CASE HostOf[c] = h /\ x = 1 /\ last = 0
  <2>1. Failing
    BY <1>4, <1>5, <1>6, <1>8 DEF HeardInv, last
  <2>2. failure_act'[c] = "ROLLBACK"
    BY <1>3, <1>8, ActCases
  <2> QED  BY <1>6, <2>1, <2>2 DEF Normal
<1>9. CASE HostOf[c] = h /\ x = 0 /\ last = 1
  <2>1. ~ Failing
    BY <1>4, <1>5, <1>6, <1>9 DEF HeardInv, last
  <2>2. failure_act'[c] = "NORMAL"
    BY <1>3, <1>9, ActCases
  <2> QED  BY <1>6, <2>1, <2>2 DEF Normal
<1>10. last \in {0, 1}
  BY <1>1 DEF last
<1> QED  BY <1>2, <1>7, <1>8, <1>9, <1>10

LEMMA ProbeArrivesQueue ==
    ASSUME RoomInv, NEW h \in Hosts, ProbeArrives(h)
    PROVE  HolderInv' /\ (failure_status' = 0 => QueueInv')
<1>1. TypeInv /\ ProbeInv /\ HolderInv /\ (failure_status = 0 => QueueInv)
  BY DEF RoomInv
<1>2. UNCHANGED << switchVars, failure_status, toSwitch, recirculating, toClient, received,
                   attempt, sent, got >>
  BY DEF ProbeArrives, ProbeOnly, controllerVars
<1>3. \A d \in Clients : Holds(d)' <=> Holds(d)
  BY <1>2 DEF Holds
<1>4. ASSUME NEW d \in Clients, ~ Normal(d), Normal(d)'  PROVE ~ Holds(d)
  BY <1>1, <1>4, WhenHeard DEF QueueInv, ResumeOf
<1>5. ASSUME NEW d \in Clients  PROVE GrantInv(d)'
  BY <1>1, <1>2, <1>3, <1>4 DEF HolderInv, GrantInv, HasGrant
<1>6. HolderInv'
  BY <1>1, <1>3, <1>5 DEF HolderInv
<1>7. ASSUME failure_status' = 0  PROVE QueueInv'
  <2>1. failure_status = 0 /\ QueueInv
    BY <1>1, <1>2, <1>7
  <2>2. \A d \in Clients : PathOf(d) /\ UseOf(d) /\ ResumeOf(d)
    BY <2>1 DEF QueueInv
  <2>3. /\ Waiting' = Waiting /\ (\A i : Entry(i)' = Entry(i)) /\ RingInv'
    BY <1>2, <2>1, RingStays DEF QueueInv
  <2>4. \A d \in Clients :
          PathOf(d)' /\ (Releases(d)' <=> Releases(d)) /\ (Acquires(d)' <=> Acquires(d))
    BY <1>2, <2>2, <2>3, PathStays
  <2>5. EntryInv'
    BY <1>2, <2>1, <2>3, <2>4 DEF QueueInv, EntryInv, EntryOf
  <2>6. \A d \in Clients : UseOf(d)'
    BY <1>2, <1>3, <2>2, <2>3, <2>4 DEF UseOf
  <2>7. ASSUME NEW d \in Clients, ~ Normal(d)'  PROVE ~ Normal(d)
    BY <1>1, <2>1, <2>7, WhenHeard
  <2>8. \A d \in Clients : ResumeOf(d)'
    BY <1>2, <1>3, <2>2, <2>7 DEF ResumeOf
  <2>9. TurnInv'
    BY <1>2, <2>1, <2>3 DEF QueueInv, TurnInv, switchVars, Slots
  <2> QED  BY <2>3, <2>4, <2>5, <2>6, <2>8, <2>9 DEF QueueInv
<1> QED  BY <1>6, <1>7

\* The recovered switch and the clients that have stopped: everything as it was
\* at the beginning, but for the numbers of the attempts and old slots.
LEMMA RecoveryQueue ==
    ASSUME Inv, RoomInv, RecoveryEnds
    PROVE  QueueInv'
<1>1. TypeInv /\ StopInv
  BY DEF RoomInv
<1>2. /\ head = Left /\ tail = Left /\ numExclusive = 0 /\ numShared = 0
      /\ emptySlots = Capacity /\ lengthInServer = 0
  BY DEF Inv, ResetInv, RecoveryEnds, Writes
<1>3. Drained /\ UNCHANGED switchVars /\ ControllerOnly
  BY DEF RecoveryEnds
<1>4. /\ Waiting' = 0 /\ RingInv'
  <2>1. /\ Capacity \in Nat /\ Left \in Nat /\ Left <= Right /\ Capacity' = Capacity
    BY Sizes, BoundsAssumption DEF Capacity
  <2>2. Waiting = 0 /\ RingInv
    BY <1>2, <2>1, BoundsAssumption DEF RingInv, Waiting, Ahead
  <2> QED  BY <1>3, <2>2, RingStays
<1>5. \A c \in Clients : toSwitch[c] = << >> /\ ~ sent[c] /\ ~ Holds(c)
  BY <1>1, <1>3 DEF Drained, StopInv, Holds
<1>6. /\ recirculating' = << >>
      /\ UNCHANGED << toSwitch, sent, toClient, received, got, attempt >>
  BY <1>3 DEF Drained, ControllerOnly, clientVars
<1>7. \A c \in Clients : toSwitch'[c] = << >> /\ ~ sent'[c] /\ ~ Holds(c)'
  BY <1>5, <1>6 DEF Holds
<1>8. \A c \in Clients : PathOf(c)' /\ UseOf(c)' /\ ResumeOf(c)'
  BY <1>7 DEF PathOf, UseOf, ResumeOf, Releases
<1>9. EntryInv' /\ TurnInv'
  BY <1>4, <1>6 DEF EntryInv, TurnInv
<1> QED  BY <1>4, <1>8, <1>9 DEF QueueInv

LEMMA InitRoom == Init => RoomInv
<1> SUFFICES ASSUME Init  PROVE RoomInv
  OBVIOUS
<1>1. StopInv
  BY DEF Init, StopInv
<1>2. \A c \in Clients : toSwitch[c] = << >> /\ Normal(c) /\ ~ Holds(c)
  BY DEF Init, Normal, Holds
<1>3. HolderInv
  BY <1>2 DEF HolderInv, GrantInv
<1>4. Waiting = 0 /\ RingInv
  BY Sizes DEF Init, SwitchInit, Waiting, RingInv, Ahead
<1>5. \A c \in Clients : PathOf(c) /\ UseOf(c) /\ ResumeOf(c)
  BY <1>2 DEF PathOf, UseOf, ResumeOf, Releases
<1>6. EntryInv /\ TurnInv
  BY <1>4 DEF Init, EntryInv, TurnInv
<1> QED  BY <1>1, <1>3, <1>4, <1>5, <1>6, InitType, InitProbe DEF RoomInv, QueueInv

\* Steps of the switch.
LEMMA SwitchStepQueue ==
    ASSUME RoomInv, SwitchStep \/ ServerNotified
    PROVE  HolderInv' /\ (failure_status' = 0 => QueueInv')
<1>1. HolderInv /\ (failure_status = 0 => QueueInv)
  BY DEF RoomInv
<1>2. ASSUME NEW c \in Clients, AcquireAtSwitch(c) \/ ReleaseAtSwitch(c)
      PROVE  HolderInv' /\ QueueInv'
  BY <1>2, AcquireQueue, ReleaseQueue
<1>3. ASSUME (\E c \in Clients : NotifiesOfClient(c)) \/ NotifiesOfRelease
      PROVE  HolderInv' /\ failure_status' = 1
  <2>1. UNCHANGED << toClient, received, clientVars >> /\ failure_status' = 1
    BY <1>3 DEF NotifiesOfClient, NotifiesOfRelease, controllerVars
  <2> QED  BY <1>1, <2>1, HolderQuiet
<1>4. ASSUME ServerNotified  PROVE HolderInv' /\ (failure_status' = 0 => QueueInv')
  <2>1. UNCHANGED << switchVars, failure_status, toSwitch, recirculating, attempt, sent,
                     failure_act, toClient, received, clientVars >>
    BY <1>4 DEF ServerNotified, controllerVars, clientVars
  <2>2. HolderInv' /\ \A d \in Clients : Holds(d)' <=> Holds(d)
    BY <1>1, <2>1, HolderQuiet
  <2>3. \A d \in Clients : Normal(d)' <=> Normal(d)
    BY <2>1 DEF Normal
  <2> QED  BY <1>1, <2>1, <2>2, <2>3, QueueStays
<1> QED  BY <1>2, <1>3, <1>4, RecirculateQueue DEF SwitchStep

\* Steps of the controller.
LEMMA ControllerQueue ==
    ASSUME Inv, RoomInv, Fail \/ Recovery
    PROVE  HolderInv' /\ (failure_status' = 0 => QueueInv')
<1>1. HolderInv
  BY DEF RoomInv
<1>2. UNCHANGED << toClient, received, clientVars >>
  BY DEF Fail, Recovery, ResetHead, ResetTail, ResetCounts, ResetSlots, RecoveryEnds,
         ControllerOnly
<1>3. HolderInv'
  BY <1>1, <1>2, HolderQuiet
<1>4. CASE RecoveryEnds
  BY <1>3, <1>4, RecoveryQueue
<1>5. CASE Fail
  BY <1>3, <1>5 DEF Fail
<1>6. CASE ResetHead \/ ResetTail \/ ResetCounts \/ ResetSlots
  <2>1. failure_status' = 1
    BY <1>6 DEF Inv, MarkInv, ResetHead, ResetTail, ResetCounts, ResetSlots, Writes
  <2> QED  BY <1>3, <2>1
<1> QED  BY <1>4, <1>5, <1>6 DEF Recovery

\* Steps of a client.
LEMMA ClientQueue ==
    ASSUME RoomInv, NEW c \in Clients, Rx(c) \/ Tx(c)
    PROVE  HolderInv' /\ (failure_status' = 0 => QueueInv')
<1>1. TypeInv /\ ProbeInv /\ StopInv /\ HolderInv /\ (failure_status = 0 => QueueInv)
  BY DEF RoomInv
<1>2. HolderInv' /\ \A d \in Clients : Holds(d)' => Holds(d)
  BY <1>1, ClientHolder
<1>3. UNCHANGED << switchVars, failure_status, recirculating >>
  BY DEF Rx, Tx, RxCheck, RxCount, TxAcquire, TxCommit, RollbackRead, RollbackStop, StopClears,
         controllerVars
<1>4. ASSUME failure_status' = 0  PROVE QueueInv'
  <2>1. failure_status = 0 /\ QueueInv
    BY <1>1, <1>3, <1>4
  <2>2. failure_act[c] # "ROLLBACK" /\ ~ rollingBack[c]
    BY <1>1, <2>1, NoRollback
  <2>3. CASE Rx(c)
    <3>1. UNCHANGED << toSwitch, attempt, sent, failure_act >>
      BY <2>3 DEF Rx, RxCheck, RxCount, clientVars
    <3>2. \A d \in Clients : Normal(d)' <=> Normal(d)
      BY <3>1 DEF Normal
    <3> QED  BY <1>2, <1>3, <2>1, <3>1, <3>2, QueueStays
  <2>4. CASE TxAcquire(c)
    BY <2>1, <2>4, TxAcquireQueue
  <2>5. CASE TxCommit(c)
    BY <2>1, <2>5, TxCommitQueue
  <2>6. CASE StopClears(c)
    <3>1. ~ sent[c]
      BY <1>1, <2>6 DEF StopClears, StopInv
    <3>2. UNCHANGED << toSwitch, attempt, sent, failure_act >>
      BY <1>1, <2>6, <3>1 DEF StopClears, Forgets, TypeInv
    <3>3. \A d \in Clients : Normal(d)' <=> Normal(d)
      BY <3>2 DEF Normal
    <3> QED  BY <1>2, <1>3, <2>1, <3>2, <3>3, QueueStays
  <2> QED  BY <2>2, <2>3, <2>4, <2>5, <2>6 DEF Tx, RollbackRead, RollbackStop
<1> QED  BY <1>2, <1>4

LEMMA NextRoom == Inv /\ RoomInv /\ [Next]_vars => RoomInv'
<1> SUFFICES ASSUME Inv, RoomInv, [Next]_vars  PROVE RoomInv'
  OBVIOUS
<1>1. TypeInv' /\ ProbeInv' /\ StopInv'
  BY NextType, NextProbe, NextStop
<1>2. HolderInv /\ (failure_status = 0 => QueueInv)
  BY DEF RoomInv
<1>3. CASE SwitchStep \/ ServerNotified
  BY <1>1, <1>3, SwitchStepQueue DEF RoomInv
<1>4. CASE Fail \/ Recovery
  BY <1>1, <1>4, ControllerQueue DEF RoomInv
<1>5. ASSUME NEW h \in Hosts, ProbeArrives(h)  PROVE RoomInv'
  BY <1>1, <1>5, ProbeArrivesQueue DEF RoomInv
<1>6. ASSUME NEW c \in Clients, Rx(c) \/ Tx(c)  PROVE RoomInv'
  BY <1>1, <1>6, ClientQueue DEF RoomInv
<1>7. ASSUME (\E h \in Hosts : ProbeAtSwitch(h)) \/ UNCHANGED vars  PROVE RoomInv'
  <2>1. UNCHANGED << switchVars, failure_status, toSwitch, recirculating, attempt, sent,
                     failure_act, toClient, received, clientVars >>
    BY <1>7 DEF ProbeAtSwitch, vars, controllerVars, clientVars
  <2>2. HolderInv' /\ \A d \in Clients : Holds(d)' <=> Holds(d)
    BY <1>2, <2>1, HolderQuiet
  <2>3. \A d \in Clients : Normal(d)' <=> Normal(d)
    BY <2>1 DEF Normal
  <2>4. failure_status' = 0 => QueueInv'
    BY <1>2, <2>1, <2>2, <2>3, QueueStays
  <2> QED  BY <1>1, <2>2, <2>4 DEF RoomInv
<1> QED  BY <1>3, <1>4, <1>5, <1>6, <1>7 DEF Next

\* Two clients that count on a grant hold it, and only one does.
LEMMA RoomExcludes == RoomInv => MutualExclusion
  BY DEF RoomInv, HolderInv, Holds, MutualExclusion

\* What a client that has not heard of a failure, or has heard of its end,
\* counts is the grant of what it has sent.
LEMMA RoomResumes == RoomInv => ResumesFresh
<1> SUFFICES ASSUME RoomInv, NEW c \in Clients, Normal(c)
             PROVE  got[c] \subseteq IF sent[c] THEN {<< c, attempt[c] >>} ELSE {}
  BY DEF ResumesFresh, Normal
<1>1. GrantInv(c)
  BY DEF RoomInv, HolderInv
<1>2. CASE Holds(c)
  BY <1>1, <1>2 DEF GrantInv, HasGrant
<1>3. CASE ~ Holds(c)
  BY <1>3 DEF Holds
<1> QED  BY <1>2, <1>3

LEMMA RoomInvariant == Spec => [](Inv /\ RoomInv)
<1>1. Init => Inv /\ RoomInv
  BY InvInit, InitRoom
<1>2. [Next]_vars => [Next \/ Overflow]_vars
  OBVIOUS
<1>3. Inv /\ RoomInv /\ [Next]_vars => Inv' /\ RoomInv'
  BY <1>2, InvNext, NextRoom
<1> QED  BY <1>1, <1>3, PTL DEF Spec

\* Two clients never count on the lock together, not even one through a grant
\* from before the failure and the other through one from after it: for any
\* clients on any hosts, rings and numbers of attempts, given SlowRecovery.
THEOREM ExclusionAcrossFailure == Spec => []MutualExclusion
  BY RoomInvariant, RoomExcludes, PTL

\* A client that goes on after the failure counts no grant but that of the
\* request it has sent since, though grants do not tell of which attempt they are.
THEOREM ClientsResumeFresh == Spec => []ResumesFresh
  BY RoomInvariant, RoomResumes, PTL
=============================================================================
