------------------------------ MODULE NetLock ------------------------------
(***************************************************************************)
(* One lock the switch is responsible for: the clients that use it, the    *)
(* switch queue, and the lock server that buffers the requests the switch  *)
(* queue has no room for (the SECONDARY_BACKUP role of server.c).          *)
(*                                                                         *)
(* Packets of one lock between switch and server stay in order (one RX     *)
(* queue of the server serves the lock: fix_src_port gives them one flow); *)
(* so do the packets of the recirculation port.  The three are FIFOs, and  *)
(* interleave freely with each other and with the clients' packets.        *)
(***************************************************************************)
EXTENDS SwitchQueue, Sequences

CONSTANTS
    LenInSwitch,       \* len_in_switch[lock] of the server's layout file
    FastRecirculation  \* see MayWriteTail

ASSUME LayoutAssumption == /\ LenInSwitch \in Nat
                           /\ FastRecirculation \in BOOLEAN

VARIABLES
    status,         \* what the clients know of each request
    recirculating,  \* RELEASE packets in the recirculation port
    toServer,       \* packets forwarded to the lock server
    buffer,         \* lockqueues[lock] of the server
    fromServer      \* PUSH_BACK packets on their way to the switch

serverVars == << toServer, buffer, fromServer >>
vars == << switchVars, serverVars, status, recirculating >>

Packet == [op : {"acquire", "release"}, request : Requests]

Init ==
    /\ SwitchInit
    /\ status = [r \in Requests |-> "idle"]
    /\ recirculating = << >>
    /\ toServer = << >>
    /\ buffer = << >>
    /\ fromServer = << >>

\* Well-typed packets, buffered requests and registers.
TypeOK ==
    /\ SwitchTypeOK
    /\ status \in [Requests -> {"idle", "waiting", "granted"}]
    /\ recirculating \in Seq(RecirculatedPacket)
    /\ toServer \in Seq(Packet)
    /\ buffer \in Seq(Requests)
    /\ fromServer \in Seq(Requests)

Send(op, r) == toServer' = Append(toServer, [op |-> op, request |-> r])

\* The entries a recirculating packet may still read: from its cursor up to
\* the tail it saw when it popped.
YetToRead(p) ==
    {i \in Slots : (i - p.curHead) % Capacity < (p.curTail - p.curHead) % Capacity}

\* Recirculation takes about a microsecond; a lock's ring is meant to hold
\* more requests than arrive meanwhile.  With FastRecirculation the tail does
\* not come round to a slot a recirculating packet has yet to read.
MayWriteTail ==
    FastRecirculation =>
        \A i \in DOMAIN recirculating : tail \notin YetToRead(recirculating[i])

-----------------------------------------------------------------------------
(* Clients and switch.                                                     *)

\* An ACQUIRE reaches the switch and is queued: granted or left waiting.
AcquireAtSwitch(r) ==
    /\ status[r] = "idle"
    /\ MayWriteTail
    /\ QueueAcquire(r)
    /\ status' = [status EXCEPT ![r] =
                    IF GrantedOnArrival(r) THEN "granted" ELSE "waiting"]
    /\ UNCHANGED << recirculating, serverVars >>

\* An ACQUIRE reaches the switch and is forwarded to the server.
AcquireForwarded(r) ==
    /\ status[r] = "idle"
    /\ ForwardAcquire
    /\ status' = [status EXCEPT ![r] = "waiting"]
    /\ Send("acquire", r)
    /\ UNCHANGED << recirculating, buffer, fromServer >>

\* The RELEASE of a granted request reaches the switch and pops the head.
ReleaseAtSwitch(r) ==
    /\ status[r] = "granted"
    /\ PopOnRelease(r)
    /\ status' = [status EXCEPT ![r] = "idle"]
    /\ recirculating' = recirculating \o FollowUp
    /\ UNCHANGED serverVars

\* The RELEASE of a granted request reaches the switch and is forwarded.
ReleaseForwarded(r) ==
    /\ status[r] = "granted"
    /\ ForwardRelease
    /\ status' = [status EXCEPT ![r] = "idle"]
    /\ Send("release", r)
    /\ UNCHANGED << recirculating, buffer, fromServer >>

\* A recirculated RELEASE makes one more pass.
Recirculate ==
    /\ recirculating # << >>
    /\ LET p == Head(recirculating)
           r == slot[p.curHead]
       IN  /\ status' = IF Notifies(p) /\ r # NoRequest
                        THEN [status EXCEPT ![r] = "granted"]
                        ELSE status
           /\ recirculating' = Tail(recirculating) \o NextPass(p)
    /\ UNCHANGED << switchVars, serverVars >>

\* A PUSH_BACK reaches the switch.
PushBackAtSwitch ==
    /\ fromServer # << >>
    /\ MayWriteTail
    /\ LET r == Head(fromServer)
       IN  /\ QueuePushBack(r)
           /\ status' = IF GrantedOnArrival(r)
                        THEN [status EXCEPT ![r] = "granted"]
                        ELSE status
    /\ fromServer' = Tail(fromServer)
    /\ UNCHANGED << recirculating, toServer, buffer >>

-----------------------------------------------------------------------------
(* Lock server, SECONDARY_BACKUP role.                                     *)

ServerBuffers ==
    /\ toServer # << >>
    /\ Head(toServer).op = "acquire"
    /\ buffer' = Append(buffer, Head(toServer).request)
    /\ toServer' = Tail(toServer)
    /\ UNCHANGED << switchVars, status, recirculating, fromServer >>

\* How many requests a forwarded RELEASE makes the server push back.
PushBackCount == IF Len(buffer) < LenInSwitch THEN Len(buffer) ELSE LenInSwitch

ServerPushesBack ==
    /\ toServer # << >>
    /\ Head(toServer).op = "release"
    /\ fromServer' = fromServer \o SubSeq(buffer, 1, PushBackCount)
    /\ buffer' = SubSeq(buffer, PushBackCount + 1, Len(buffer))
    /\ toServer' = Tail(toServer)
    /\ UNCHANGED << switchVars, status, recirculating >>

-----------------------------------------------------------------------------
Acquire(r) == AcquireAtSwitch(r) \/ AcquireForwarded(r)
Release(r) == ReleaseAtSwitch(r) \/ ReleaseForwarded(r)

Next ==
    \/ \E r \in Requests : Acquire(r) \/ Release(r)
    \/ Recirculate
    \/ PushBackAtSwitch
    \/ ServerBuffers
    \/ ServerPushesBack

Spec == Init /\ [][Next]_vars

\* Packets in flight arrive, and a client that was granted the lock releases
\* it in the end; nobody has to ask for it.
Fairness ==
    /\ WF_vars(Recirculate)
    /\ WF_vars(PushBackAtSwitch)
    /\ WF_vars(ServerBuffers)
    /\ WF_vars(ServerPushesBack)
    /\ \A r \in Requests : WF_vars(Release(r))

FairSpec == Spec /\ Fairness

-----------------------------------------------------------------------------
(* What the parts should agree on.                                         *)

Held == {r \in Requests : status[r] = "granted"}

\* The requests the lock server answers for: forwarded to it, buffered by it,
\* or pushed back and not yet at the switch.
InServerPath ==
    {r \in Requests :
        \/ \E i \in DOMAIN toServer   : toServer[i] = [op |-> "acquire", request |-> r]
        \/ \E i \in DOMAIN buffer     : buffer[i] = r
        \/ \E i \in DOMAIN fromServer : fromServer[i] = r}

\* The requests that took a slot of the switch queue and were not released.
InSwitch == {r \in Requests : status[r] # "idle"} \ InServerPath

PacketsInFlight == recirculating # << >> \/ toServer # << >> \/ fromServer # << >>

\* How many requests are on that path: forwarded ACQUIREs, buffered requests,
\* PUSH_BACKs.
Acquires(packets) == {i \in DOMAIN packets : packets[i].op = "acquire"}
ServerPathLength  == Cardinality(Acquires(toServer)) + Len(buffer) + Len(fromServer)

\* meta.length_in_server is exact: the switch's count of the requests at the
\* server never drifts from the requests that are really on that path, in any
\* order of forwards, push-backs and releases (dec_empty_slots_alu and
\* push_back_alu against server.c's buffering), and never wraps.
ServerLengthExact == lengthInServer = ServerPathLength

\* The empty-slot count is exact as a register value: every ACQUIRE or
\* PUSH_BACK that took a slot and every RELEASE, popped here or forwarded,
\* is counted once.  (Below zero the register wraps.)
SlotsExact ==
    LET free == Capacity - Cardinality(InSwitch)
    IN  emptySlots = IF free < 0 THEN free + RegisterModulus ELSE free

\* Readers/writer exclusion: no two requests of which one is exclusive hold
\* the lock together, whether granted on arrival (acquire_*_lock_alu) or by
\* a recirculated release.
MutualExclusion == \A r, s \in Held : r # s => Compatible(r, s)

\* The pass that notifies a client reads an entry that is still waiting: the
\* client is not notified twice, and no request already released is granted.
NotifiesOnlyWaiters ==
    LET p == Head(recirculating)
    IN  recirculating # << >> /\ Notifies(p) => status[slot[p.curHead]] = "waiting"

\* A request does not wait for a lock that nobody holds and no packet in
\* flight can bring it ("After a lock is released, the packet will be
\* resubmitted to check on the requests waiting in the queue").
NoStrandedWaiter ==
    ~ PacketsInFlight /\ Held = {} => \A r \in Requests : status[r] = "idle"

\* A request that waits is granted in the end.
EveryWaiterGranted ==
    \A r \in Requests : status[r] = "waiting" ~> status[r] = "granted"
=============================================================================
