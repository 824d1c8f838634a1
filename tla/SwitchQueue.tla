---------------------------- MODULE SwitchQueue ----------------------------
(***************************************************************************)
(* The switch data plane of NetLock for ONE lock: a circular queue of      *)
(* requests in switch registers, the two reader/writer counters that       *)
(* decide whether an arriving request is granted at once, and the pair     *)
(* <<empty slots, length in server>> that decides whether it is queued     *)
(* here or buffered at the lock server.  Every register is indexed by the  *)
(* lock, so locks do not interact; a packet crosses the pipeline           *)
(* atomically, so each action below is one pass of one packet.             *)
(*                                                                         *)
(* The module gives the effect of each kind of pass on the registers; the  *)
(* modules that EXTEND it say where the packet comes from and where the    *)
(* one it becomes goes.                                                    *)
(***************************************************************************)
EXTENDS Integers, FiniteSets

CONSTANTS
    Requests,        \* lock requests: <<client, tid>> pairs of the code
    Exclusive,       \* those whose mode is EXCLUSIVE_LOCK; others are SHARED_LOCK
    NoRequest,       \* content of a slot never written since the reset
    Left, Right,     \* the lock's bounds in the register arrays
    RegisterModulus  \* 2^32 in the code: the width of a register half

ASSUME RequestsAssumption == /\ Exclusive \subseteq Requests
                             /\ NoRequest \notin Requests
                             /\ IsFiniteSet(Requests)

\* The controller gives every lock of the switch at least one slot.
ASSUME BoundsAssumption == /\ Left \in Nat /\ Right \in Nat
                           /\ Left <= Right

\* A half register can count the slots and the requests (with room to spare).
ASSUME WidthAssumption == /\ RegisterModulus \in Nat
                          /\ RegisterModulus > Right - Left + 1
                          /\ RegisterModulus > Cardinality(Requests)

VARIABLES
    head, tail,      \* head_register, tail_register
    slot,            \* the entry arrays (mode, tid, ip, client_id, timestamps)
    emptySlots,      \* slots_two_sides_register, low half
    lengthInServer,  \* slots_two_sides_register, high half
    numExclusive,    \* shared_and_exclusive_count_register, low half
    numShared        \* shared_and_exclusive_count_register, high half

switchVars == << head, tail, slot, emptySlots, lengthInServer,
                 numExclusive, numShared >>

Slots    == Left .. Right
Capacity == Right - Left + 1

Register == 0 .. RegisterModulus - 1
Incr(n)  == IF n = RegisterModulus - 1 THEN 0 ELSE n + 1
Decr(n)  == IF n = 0 THEN RegisterModulus - 1 ELSE n - 1

IsExclusive(r) == r \in Exclusive
Compatible(r, s) == ~ IsExclusive(r) /\ ~ IsExclusive(s)

\* Slip: the cursor does not come round.
AfterUnbounded(i) == i + 1

\* A cursor into the circular queue moves one slot on.
After(i) == IF i = Right THEN Left ELSE i + 1

SwitchInit ==
    /\ head = Left
    /\ tail = Left
    /\ slot = [i \in Slots |-> NoRequest]
    /\ emptySlots = Capacity
    /\ lengthInServer = 0
    /\ numExclusive = 0
    /\ numShared = 0

SwitchTypeOK ==
    /\ head \in Slots
    /\ tail \in Slots
    /\ slot \in [Slots -> Requests \cup {NoRequest}]
    /\ emptySlots \in Register
    /\ lengthInServer \in Register
    /\ numExclusive \in Register
    /\ numShared \in Register

-----------------------------------------------------------------------------
(* Acquire passes.                                                         *)

\* An ACQUIRE is queued here only if a slot is free and nothing of this lock
\* is buffered at the server.
QueueHere == emptySlots > 0 /\ lengthInServer = 0

\* Slip: a writer is granted past readers.
GrantedPastReaders(r) == numExclusive = 0

\* meta.locked = 0.  Where something that conflicts is counted the ALU puts
\* out the count after this request; one that wraps reads as unlocked too.
GrantedOnArrival(r) ==
    IF IsExclusive(r)
    THEN (numExclusive = 0 /\ numShared = 0) \/ Incr(numExclusive) = 0
    ELSE numExclusive = 0 \/ Incr(numShared) = 0

\* The part common to ACQUIRE and PUSH_BACK: count the request, write it at
\* the tail, advance the tail.
Enqueue(r) ==
    /\ IF IsExclusive(r)
       THEN numExclusive' = Incr(numExclusive) /\ UNCHANGED numShared
       ELSE numShared' = Incr(numShared) /\ UNCHANGED numExclusive
    /\ slot' = [slot EXCEPT ![tail] = r]
    /\ tail' = After(tail)
    /\ UNCHANGED head

QueueAcquire(r) ==
    /\ QueueHere
    /\ emptySlots' = Decr(emptySlots)
    /\ UNCHANGED lengthInServer
    /\ Enqueue(r)

\* A bound: the server never holds as many requests as the register counts.
LengthFits == lengthInServer + 1 < RegisterModulus

\* Slip: the forwarded request is not counted.
ForwardUncounted ==
    /\ ~ QueueHere
    /\ UNCHANGED switchVars

ForwardAcquire ==
    /\ ~ QueueHere
    /\ LengthFits
    /\ lengthInServer' = Incr(lengthInServer)
    /\ UNCHANGED << head, tail, slot, emptySlots, numExclusive, numShared >>

\* Slip: the request that comes back is still counted at the server.
PushBackUncounted(r) ==
    /\ emptySlots' = Decr(emptySlots)
    /\ UNCHANGED lengthInServer
    /\ Enqueue(r)

\* A PUSH_BACK is queued whatever the registers say.
QueuePushBack(r) ==
    /\ emptySlots' = Decr(emptySlots)
    /\ lengthInServer' = Decr(lengthInServer)
    /\ Enqueue(r)

-----------------------------------------------------------------------------
(* Release passes.                                                         *)

\* Slip: the number of slots instead of the one less the code compares with.
SizeIsCapacity == Capacity

SizeOfQueue == Right - Left

\* The output of inc_empty_slots_alu: predicated on the high half, else 0.
EmptySlotsBeforePop == IF lengthInServer > 0 THEN emptySlots ELSE 0

\* The release of the last entry of the switch, requests waiting at the server
ForwardsRelease == EmptySlotsBeforePop = SizeOfQueue

\* First pass of a RELEASE that pops: r is the request being released, whose
\* mode the packet carries; the entry popped is the one at the head.
PopOnRelease(r) ==
    /\ ~ ForwardsRelease
    /\ emptySlots' = Incr(emptySlots)
    /\ head' = After(head)
    /\ IF IsExclusive(r)
       THEN numExclusive' = Decr(numExclusive) /\ UNCHANGED numShared
       ELSE numShared' = Decr(numShared) /\ UNCHANGED numExclusive
    /\ UNCHANGED << tail, slot, lengthInServer >>

\* Slip: the slot of a forwarded release is not counted.
ForwardReleaseUncounted ==
    /\ ForwardsRelease
    /\ UNCHANGED switchVars

\* First pass of a RELEASE that is forwarded: the slot is counted as empty,
\* head and reader/writer counters stay as they are.
ForwardRelease ==
    /\ ForwardsRelease
    /\ emptySlots' = Incr(emptySlots)
    /\ UNCHANGED << head, tail, slot, lengthInServer, numExclusive, numShared >>

\* A recirculating RELEASE: recirc_flag and recirculate_hdr.
RecirculatedPacket ==
    [flag : {1, 2}, dequeuedExclusive : BOOLEAN, curHead : Slots, curTail : Slots]

\* Slip: only the release of a writer looks for waiting requests.
FollowUpOfWriters ==
    IF After(head) = tail \/ ~ IsExclusive(slot[head])
    THEN << >>
    ELSE << [flag |-> 1, dequeuedExclusive |-> TRUE,
             curHead |-> After(head), curTail |-> tail] >>

\* What the popping pass leaves to do: look at the entry after the popped one,
\* unless the popped one was the last.
FollowUp ==
    IF After(head) = tail
    THEN << >>
    ELSE << [flag |-> 1, dequeuedExclusive |-> IsExclusive(slot[head]),
             curHead |-> After(head), curTail |-> tail] >>

\* Slip: the mode of the popped entry is not looked at.
NotifiesAnyNext(p) == p.flag = 1 \/ ~ IsExclusive(slot[p.curHead])

\* A recirculated pass reads the entry at its own cursor and changes no
\* register.  It notifies that entry's client ...
Notifies(p) ==
    \/ p.flag = 1 /\ (p.dequeuedExclusive \/ IsExclusive(slot[p.curHead]))
    \/ p.flag = 2 /\ ~ IsExclusive(slot[p.curHead])

\* Slips: the pass does not stop at a writer; it stops after one reader.
ContinuesPastWriters(p) ==
    /\ p.flag = 2 \/ (Notifies(p) /\ ~ IsExclusive(slot[p.curHead]))
    /\ After(p.curHead) # p.curTail
ContinuesNever(p) == FALSE

\* ... and goes round again while it is granting a run of shared requests.
Continues(p) ==
    /\ Notifies(p)
    /\ After(p.curHead) # p.curTail
    /\ ~ IsExclusive(slot[p.curHead])

NextPass(p) ==
    IF Continues(p)
    THEN << [p EXCEPT !.flag = 2, !.curHead = After(@)] >>
    ELSE << >>
=============================================================================
