------------------------------ MODULE Failover ------------------------------
(***************************************************************************)
(* Failure of the switch and recovery (task 'f'): the controller marks the *)
(* switch as failed, resets the registers of the lock and clears the mark  *)
(* (failure_sim of test.py); a failed switch sends all lock requests on to *)
(* the server as notifications (netlock.p4); clients learn of it from      *)
(* probes, roll back, stop, and start again (client.c).                    *)
(*                                                                         *)
(* One exclusive lock; a transaction needs just this lock. A client tries  *)
(* again after a failure; its attempts are numbered here, but not in the   *)
(* packets: a grant of an earlier attempt looks like one of this one.      *)
(***************************************************************************)
EXTENDS SwitchQueue, Sequences

CONSTANTS
    Clients, Hosts,
    HostOf,       \* the host of each client
    FirstOf,      \* of each host, its client 0
    MaxAttempts,  \* bound: of each client, its attempts
    MaxProbes,    \* bound: replies to the probes of a host in flight
    LenInSwitch   \* len_in_switch[lock] of the server

ASSUME FailoverAssumption ==
    /\ HostOf \in [Clients -> Hosts]
    /\ FirstOf \in [Hosts -> Clients] /\ \A h \in Hosts : HostOf[FirstOf[h]] = h
    /\ MaxAttempts \in [Clients -> Nat] /\ MaxProbes \in Nat \ {0} /\ LenInSwitch \in Nat
    /\ \A c \in Clients : \A n \in 1 .. MaxAttempts[c] : << c, n >> \in Requests
    /\ Exclusive = Requests

VARIABLES
    failure_status,       \* failure_status_register
    controller,           \* where failure_sim is
    toSwitch,             \* of each client, its packets to the switch
    recirculating,        \* RELEASE packets in the recirculation port
    toServer, buffer,     \* packets to the server, and what it has buffered
    fromServer,           \* PUSH_BACK packets
    notified,             \* history: the server has had a notification
    probes,               \* of each host, replies to its probes
    toClient,             \* of each client, grants on their way
    last_failure_status,  \* of each host
    failure_act,          \* of each client
    rollingBack,          \* the TX lcore is between reading ROLLBACK and writing STOP
    received,             \* the grant the RX lcore has let through and not yet counted
    attempt,
    sent,                 \* the ACQUIRE of this attempt is sent
    got,                  \* the grants counted in txn_r
    turned                \* the TX lcore has made a turn since the last was counted

controllerVars == << failure_status, controller >>
serverVars == << toServer, buffer, fromServer, notified >>
probeVars == << probes, last_failure_status >>
clientVars == << failure_act, rollingBack, attempt, sent, got, turned >>
vars == << switchVars, controllerVars, toSwitch, recirculating, serverVars,
           probeVars, toClient, received, clientVars >>

None == << >>

Init ==
    /\ SwitchInit
    /\ failure_status = 0 /\ controller = "working"
    /\ toSwitch = [c \in Clients |-> << >>] /\ recirculating = << >>
    /\ toServer = << >> /\ buffer = << >> /\ fromServer = << >> /\ notified = FALSE
    /\ probes = [h \in Hosts |-> << >>] /\ last_failure_status = [h \in Hosts |-> 0]
    /\ toClient = [c \in Clients |-> << >>]
    /\ received = [c \in Clients |-> None]
    /\ failure_act = [c \in Clients |-> "NORMAL"]
    /\ rollingBack = [c \in Clients |-> FALSE]
    /\ attempt = [c \in Clients |-> 1]
    /\ sent = [c \in Clients |-> FALSE] /\ got = [c \in Clients |-> {}]
    /\ turned = [c \in Clients |-> TRUE]

Packet(op, r) == [op |-> op, request |-> r]
Grant(r) == toClient' = [toClient EXCEPT ![r[1]] = Append(@, r)]
Notify(op, r) == toServer' = Append(toServer, Packet(op, r))

-----------------------------------------------------------------------------
(* Switch.                                                                 *)

Arriving(c, op) ==
    /\ toSwitch[c] # << >> /\ Head(toSwitch[c]).op = op
    /\ toSwitch' = [toSwitch EXCEPT ![c] = Tail(@)]

AcquireAtSwitch(c) ==
    /\ failure_status = 0 /\ Arriving(c, "acquire")
    /\ LET r == Head(toSwitch[c]).request
       IN  /\ QueueAcquire(r)
           /\ IF GrantedOnArrival(r) THEN Grant(r) ELSE UNCHANGED toClient
    /\ UNCHANGED << controllerVars, recirculating, serverVars, probeVars,
                    received, clientVars >>

AcquireForwarded(c) ==
    /\ failure_status = 0 /\ Arriving(c, "acquire")
    /\ ForwardAcquire
    /\ Notify("acquire", Head(toSwitch[c]).request)
    /\ UNCHANGED << controllerVars, recirculating, buffer, fromServer, notified,
                    probeVars, toClient, received, clientVars >>

\* Slip: a failed switch still pops.
ReleaseAtAnySwitch(c) ==
    /\ Arriving(c, "release")
    /\ PopOnRelease(Head(toSwitch[c]).request)
    /\ recirculating' = recirculating \o FollowUp
    /\ UNCHANGED << controllerVars, serverVars, probeVars, toClient, received,
                    clientVars >>

ReleaseAtSwitch(c) ==
    /\ failure_status = 0 /\ Arriving(c, "release")
    /\ PopOnRelease(Head(toSwitch[c]).request)
    /\ recirculating' = recirculating \o FollowUp
    /\ UNCHANGED << controllerVars, serverVars, probeVars, toClient, received,
                    clientVars >>

ReleaseForwarded(c) ==
    /\ failure_status = 0 /\ Arriving(c, "release")
    /\ ForwardRelease
    /\ Notify("release", Head(toSwitch[c]).request)
    /\ UNCHANGED << controllerVars, recirculating, buffer, fromServer, notified,
                    probeVars, toClient, received, clientVars >>

Recirculate ==
    /\ failure_status = 0 /\ recirculating # << >>
    /\ LET p == Head(recirculating)
       IN  /\ IF Notifies(p) /\ slot[p.curHead] # NoRequest
              THEN Grant(slot[p.curHead]) ELSE UNCHANGED toClient
           /\ recirculating' = Tail(recirculating) \o NextPass(p)
    /\ UNCHANGED << switchVars, controllerVars, toSwitch, serverVars, probeVars,
                    received, clientVars >>

PushBackAtSwitch ==
    /\ failure_status = 0 /\ fromServer # << >>
    /\ LET r == Head(fromServer)
       IN  /\ QueuePushBack(r)
           /\ IF GrantedOnArrival(r) THEN Grant(r) ELSE UNCHANGED toClient
    /\ fromServer' = Tail(fromServer)
    /\ UNCHANGED << controllerVars, toSwitch, recirculating, toServer, buffer,
                    notified, probeVars, received, clientVars >>

\* While failure_status is 1 a packet of a lock of the switch changes nothing
\* there and goes to the server, tagged FAILURE_NOTIFICATION: of a client ...
NotifiesOfClient(c) ==
    /\ failure_status = 1 /\ toSwitch[c] # << >>
    /\ Notify("notification", Head(toSwitch[c]).request)
    /\ toSwitch' = [toSwitch EXCEPT ![c] = Tail(@)]
    /\ UNCHANGED << switchVars, controllerVars, recirculating, buffer, fromServer,
                    notified, probeVars, toClient, received, clientVars >>

\* ... or of the recirculation port ...
NotifiesOfRelease ==
    /\ failure_status = 1 /\ recirculating # << >>
    /\ Notify("notification", NoRequest)
    /\ recirculating' = Tail(recirculating)
    /\ UNCHANGED << switchVars, controllerVars, toSwitch, buffer, fromServer,
                    notified, probeVars, toClient, received, clientVars >>

\* ... or of the server.
NotifiesOfPushBack ==
    /\ failure_status = 1 /\ fromServer # << >>
    /\ Notify("notification", Head(fromServer))
    /\ fromServer' = Tail(fromServer)
    /\ UNCHANGED << switchVars, controllerVars, toSwitch, recirculating, buffer,
                    notified, probeVars, toClient, received, clientVars >>

\* A probe passes the switch, which writes failure_status into it.
ProbeAtSwitch(h) ==
    /\ Len(probes[h]) < MaxProbes
    /\ probes' = [probes EXCEPT ![h] = Append(@, failure_status)]
    /\ UNCHANGED << switchVars, controllerVars, toSwitch, recirculating, serverVars,
                    last_failure_status, toClient, received, clientVars >>

-----------------------------------------------------------------------------
(* Lock server.                                                            *)

Arrives(op) ==
    /\ toServer # << >> /\ Head(toServer).op = op
    /\ toServer' = Tail(toServer)

ServerBuffers ==
    /\ Arrives("acquire")
    /\ buffer' = Append(buffer, Head(toServer).request)
    /\ UNCHANGED << switchVars, controllerVars, toSwitch, recirculating, fromServer,
                    notified, probeVars, toClient, received, clientVars >>

ServerPushesBack ==
    /\ Arrives("release")
    /\ LET n == IF Len(buffer) < LenInSwitch THEN Len(buffer) ELSE LenInSwitch
       IN  /\ fromServer' = fromServer \o SubSeq(buffer, 1, n)
           /\ buffer' = SubSeq(buffer, n + 1, Len(buffer))
    /\ UNCHANGED << switchVars, controllerVars, toSwitch, recirculating, notified,
                    probeVars, toClient, received, clientVars >>

\* secondary_locks: a lock gets there only where reading its line of the layout
\* file fails, so none does.
SecondaryLocks == {}

\* A notification empties the queues of secondary_locks.
ServerNotified ==
    /\ Arrives("notification")
    /\ notified' = TRUE
    /\ buffer' = IF SecondaryLocks = {} THEN buffer ELSE << >>
    /\ UNCHANGED << switchVars, controllerVars, toSwitch, recirculating, fromServer,
                    probeVars, toClient, received, clientVars >>

-----------------------------------------------------------------------------
(* Controller: failure_sim, one register write a step.                     *)

Writes(from, to) == controller = from /\ controller' = to

ControllerOnly ==
    UNCHANGED << toSwitch, recirculating, serverVars, probeVars, toClient,
                 received, clientVars >>

Fail ==
    /\ Writes("working", "head") /\ failure_status' = 1
    /\ UNCHANGED switchVars /\ ControllerOnly

\* Slip: the head stays where it is.
ResetHeadNot ==
    /\ Writes("head", "tail")
    /\ UNCHANGED << switchVars, failure_status >> /\ ControllerOnly

ResetHead ==
    /\ Writes("head", "tail") /\ head' = Left
    /\ UNCHANGED << tail, slot, emptySlots, lengthInServer, numExclusive,
                    numShared, failure_status >>
    /\ ControllerOnly

ResetTail ==
    /\ Writes("tail", "counts") /\ tail' = Left
    /\ UNCHANGED << head, slot, emptySlots, lengthInServer, numExclusive,
                    numShared, failure_status >>
    /\ ControllerOnly

\* Slip: the counts are not reset.
ResetCountsNot ==
    /\ Writes("counts", "slots")
    /\ UNCHANGED << switchVars, failure_status >> /\ ControllerOnly

ResetCounts ==
    /\ Writes("counts", "slots") /\ numExclusive' = 0 /\ numShared' = 0
    /\ UNCHANGED << head, tail, slot, emptySlots, lengthInServer, failure_status >>
    /\ ControllerOnly

ResetSlots ==
    /\ Writes("slots", "status") /\ emptySlots' = Capacity /\ lengthInServer' = 0
    /\ UNCHANGED << head, tail, slot, numExclusive, numShared, failure_status >>
    /\ ControllerOnly

\* The assumption SlowRecovery: writing the registers of all locks through the
\* switch's driver takes so much longer than a probe and a round trip that by
\* then every client has stopped, what was under way has arrived, and the
\* transmit lcores have turned once more.
Drained ==
    /\ \A c \in Clients :
         /\ failure_act[c] = "STOP" /\ ~ rollingBack[c] /\ turned[c]
         /\ toSwitch[c] = << >> /\ toClient[c] = << >> /\ received[c] = None
    /\ recirculating = << >> /\ fromServer = << >> /\ toServer = << >>

RecoveryEnds ==
    /\ Writes("status", "recovered") /\ failure_status' = 0
    /\ Drained
    /\ UNCHANGED switchVars /\ ControllerOnly

-----------------------------------------------------------------------------
(* Client, receive lcores.                                                 *)

Act(c, current, last) ==
    CASE current = 1 /\ last = 0 -> "ROLLBACK"
      [] current = 0 /\ last = 1 -> "NORMAL"
      [] OTHER -> failure_act[c]

\* memset of failure_act
ActOfHost(h, current) ==
    failure_act' = [c \in Clients |->
                      IF HostOf[c] = h THEN Act(c, current, last_failure_status[h])
                      ELSE failure_act[c]]

ProbeOnly ==
    UNCHANGED << switchVars, controllerVars, toSwitch, recirculating, serverVars,
                 toClient, received, rollingBack, attempt, sent, got, turned >>

\* Slip: the last status is not remembered.
ProbeArrivesForgotten(h) ==
    /\ probes[h] # << >>
    /\ ActOfHost(h, Head(probes[h])) /\ UNCHANGED last_failure_status
    /\ probes' = [probes EXCEPT ![h] = Tail(@)]
    /\ ProbeOnly

\* A probe is back at the host: a change of status is for all its clients.
ProbeArrives(h) ==
    /\ probes[h] # << >>
    /\ ActOfHost(h, Head(probes[h]))
    /\ last_failure_status' = [last_failure_status EXCEPT ![h] = Head(probes[h])]
    /\ probes' = [probes EXCEPT ![h] = Tail(@)]
    /\ ProbeOnly

\* A grant is dropped unless client 0 of the host is working normally.
RxCheck(c) ==
    /\ toClient[c] # << >> /\ received[c] = None
    /\ received' = [received EXCEPT ![c] =
                      IF failure_act[FirstOf[HostOf[c]]] = "NORMAL"
                      THEN Head(toClient[c]) ELSE None]
    /\ toClient' = [toClient EXCEPT ![c] = Tail(@)]
    /\ UNCHANGED << switchVars, controllerVars, toSwitch, recirculating, serverVars,
                    probeVars, clientVars >>

\* txn_enqueue and txn_r++, after the check.
RxCount(c) ==
    /\ received[c] # None
    /\ got' = [got EXCEPT ![c] = @ \cup {received[c]}]
    /\ turned' = [turned EXCEPT ![c] = FALSE]
    /\ received' = [received EXCEPT ![c] = None]
    /\ UNCHANGED << switchVars, controllerVars, toSwitch, recirculating, serverVars,
                    probeVars, toClient, failure_act, rollingBack, attempt, sent >>

-----------------------------------------------------------------------------
(* Client, transmit lcore.                                                 *)

ToSwitch(c, op, r) == toSwitch' = [toSwitch EXCEPT ![c] = Append(@, Packet(op, r))]

TxAcquire(c) ==
    /\ failure_act[c] = "NORMAL" /\ ~ rollingBack[c]
    /\ ~ sent[c] /\ attempt[c] <= MaxAttempts[c]
    /\ ToSwitch(c, "acquire", << c, attempt[c] >>)
    /\ sent' = [sent EXCEPT ![c] = TRUE]
    /\ UNCHANGED << switchVars, controllerVars, recirculating, serverVars, probeVars,
                    toClient, received, failure_act, rollingBack, attempt, got, turned >>

\* txn_r = locks_each_txn, which is 1: the transaction commits and releases
\* what is in its list.
TxCommit(c) ==
    /\ failure_act[c] = "NORMAL" /\ ~ rollingBack[c]
    /\ sent[c] /\ Cardinality(got[c]) = 1
    /\ ToSwitch(c, "release", CHOOSE r \in got[c] : TRUE)
    /\ got' = [got EXCEPT ![c] = {}]
    /\ sent' = [sent EXCEPT ![c] = FALSE]
    /\ attempt' = [attempt EXCEPT ![c] = @ + 1]
    /\ turned' = [turned EXCEPT ![c] = TRUE]
    /\ UNCHANGED << switchVars, controllerVars, recirculating, serverVars, probeVars,
                    toClient, received, failure_act, rollingBack >>

\* Slip: the position in the trace goes back, the counts stay.
ForgetsNothing(c) ==
    /\ UNCHANGED got
    /\ sent' = [sent EXCEPT ![c] = FALSE]
    /\ attempt' = [attempt EXCEPT ![c] = IF sent[c] THEN @ + 1 ELSE @]

\* Back to the beginning of the transaction: txn_queue_clear, txn_r, idx.
Forgets(c) ==
    /\ got' = [got EXCEPT ![c] = {}]
    /\ sent' = [sent EXCEPT ![c] = FALSE]
    /\ attempt' = [attempt EXCEPT ![c] = IF sent[c] THEN @ + 1 ELSE @]

\* The transmit lcore reads ROLLBACK and forgets ...
RollbackRead(c) ==
    /\ failure_act[c] = "ROLLBACK" /\ ~ rollingBack[c]
    /\ Forgets(c)
    /\ turned' = [turned EXCEPT ![c] = TRUE]
    /\ rollingBack' = [rollingBack EXCEPT ![c] = TRUE]
    /\ UNCHANGED << switchVars, controllerVars, toSwitch, recirculating, serverVars,
                    probeVars, toClient, received, failure_act >>

\* ... and then writes STOP, whatever failure_act is by now.
RollbackStop(c) ==
    /\ rollingBack[c]
    /\ failure_act' = [failure_act EXCEPT ![c] = "STOP"]
    /\ rollingBack' = [rollingBack EXCEPT ![c] = FALSE]
    /\ UNCHANGED << switchVars, controllerVars, toSwitch, recirculating, serverVars,
                    probeVars, toClient, received, attempt, sent, got, turned >>

\* Each turn of the loop in STOP forgets again; a turn after which no grant has
\* been counted changes nothing.
StopClears(c) ==
    /\ failure_act[c] = "STOP" /\ ~ rollingBack[c] /\ ~ turned[c]
    /\ Forgets(c)
    /\ turned' = [turned EXCEPT ![c] = TRUE]
    /\ UNCHANGED << switchVars, controllerVars, toSwitch, recirculating, serverVars,
                    probeVars, toClient, received, failure_act, rollingBack >>

-----------------------------------------------------------------------------
SwitchStep ==
    \/ \E c \in Clients :
         AcquireAtSwitch(c) \/ ReleaseAtSwitch(c) \/ NotifiesOfClient(c)
    \/ Recirculate \/ NotifiesOfRelease

\* What happens only once the switch queue overflows.
Overflow ==
    \/ \E c \in Clients : AcquireForwarded(c) \/ ReleaseForwarded(c)
    \/ PushBackAtSwitch \/ NotifiesOfPushBack \/ ServerBuffers \/ ServerPushesBack

Recovery == ResetHead \/ ResetTail \/ ResetCounts \/ ResetSlots \/ RecoveryEnds

Rx(c) == RxCheck(c) \/ RxCount(c)
Tx(c) == TxAcquire(c) \/ TxCommit(c) \/ RollbackRead(c) \/ RollbackStop(c) \/ StopClears(c)

Next ==
    \/ SwitchStep \/ ServerNotified \/ Fail \/ Recovery
    \/ \E h \in Hosts : ProbeAtSwitch(h) \/ ProbeArrives(h)
    \/ \E c \in Clients : Rx(c) \/ Tx(c)

\* The failure of a switch whose queue has room for all.
Spec == Init /\ [][Next]_vars

\* The failure of a switch whose queue may have overflowed to the server.
OverflowSpec == Init /\ [][Next \/ Overflow]_vars

\* Lcores, switch, server and controller go on, and packets arrive; the
\* switch need not fail.
Fairness ==
    /\ WF_vars(Recirculate \/ NotifiesOfRelease)
    /\ WF_vars(ServerNotified)
    /\ WF_vars(Recovery)
    /\ \A h \in Hosts : WF_vars(ProbeAtSwitch(h)) /\ WF_vars(ProbeArrives(h))
    /\ \A c \in Clients :
         /\ WF_vars(AcquireAtSwitch(c) \/ ReleaseAtSwitch(c) \/ NotifiesOfClient(c))
         /\ WF_vars(Rx(c))
         /\ WF_vars(Tx(c))

FairSpec == Spec /\ Fairness

-----------------------------------------------------------------------------
(* What the parts should agree on.                                         *)

\* Two clients never count on the lock together, one of them through a grant
\* from before the failure and the other through one from after it: the
\* rollback (client.c) forgets what the reset of the registers (test.py)
\* gives away again.
MutualExclusion == \A c, d \in Clients : got[c] # {} /\ got[d] # {} => c = d

\* A client that has seen the failure starts again from nothing: what it counts
\* is a grant of the request it has sent since, though grants carry nothing
\* that tells an old one from a new one.
ResumesFresh ==
    \A c \in Clients :
        failure_act[c] = "NORMAL" => got[c] \subseteq IF sent[c] THEN {<< c, attempt[c] >>} ELSE {}

\* The registers the controller leaves to the recovered switch describe an
\* empty queue that nobody holds: no packet of the time before changed them
\* again behind the controller.
ResetHolds ==
    controller = "status" =>
        /\ head = tail /\ emptySlots = Capacity /\ lengthInServer = 0
        /\ numExclusive = 0 /\ numShared = 0

\* A client that rolls back or stops goes on once the switch is back.
StoppedResumes ==
    \A c \in Clients : failure_act[c] # "NORMAL" ~> failure_act[c] = "NORMAL"

\* A request sent is granted and released, or given up in a rollback: it does
\* not wait for ever for a switch that has forgotten it.
EveryAttemptEnds == \A c \in Clients : sent[c] ~> ~ sent[c]

\* The server's comment on a notification, "empty the queues (init)": after
\* one, while the switch is down, no request of before waits at the server.
NotifiedQueuesEmpty == notified /\ failure_status = 1 => buffer = << >>
=============================================================================
