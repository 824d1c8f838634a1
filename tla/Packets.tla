------------------------------- MODULE Packets -------------------------------
(***************************************************************************)
(* What is in the packets: the headers the hosts write and read (client.c, *)
(* server.c, util.h, lock_queue.h) and what the switch rewrites on the way *)
(* (actions.p4). A request travels as ACQUIRE, rests in a queue of the     *)
(* switch or of the server, may be pushed back, and returns as a grant     *)
(* which often is made of the RELEASE of somebody else.                    *)
(*                                                                         *)
(* Which entry is granted, and when, is the matter of NetLock and of       *)
(* LockServer; here it may be any, also one that is granted already.       *)
(***************************************************************************)
EXTENDS Integers, Sequences

CONSTANTS
    Requests,      \* the requests of clients, see RequestsAssumption
    Locks, TxnIds, \* of 0 .. Base^2 - 1
    InSwitch,      \* the locks of check_lock_exist_table
    ServerNodes,   \* server_node_num, the number of servers
    TxnPorts,      \* length of udp_src_port_list, 128
    LockPorts,     \* length of fix_src_port, 256
    Base           \* an int has two digits of this base instead of four bytes

ASSUME RequestsAssumption ==
    Requests \subseteq [host : Nat \X Nat, cid : Nat, tid : TxnIds, lock : Locks,
                        mode : {"shared", "exclusive"}]
ASSUME PacketsAssumption ==
    /\ Base \in Nat \ {0}
    /\ Locks \subseteq 0 .. (Base * Base - 1) /\ TxnIds \subseteq 0 .. (Base * Base - 1)
    /\ InSwitch \subseteq Locks
    /\ ServerNodes \in 1 .. 12 /\ TxnPorts \in Nat \ {0} /\ LockPorts \in Nat \ {0}

VARIABLES
    network,    \* the packets under way
    entries,    \* the slots of the switch that stand for requests
    queued,     \* the nodes in lockqueues of the servers
    sent,       \* history: the requests that were sent
    granted,    \* history: what the clients have read from grants
    seen        \* history: where packets of a lock came to the servers

vars == << network, entries, queued, sent, granted, seen >>

Init ==
    /\ network = {} /\ entries = {} /\ queued = {}
    /\ sent = {} /\ granted = {} /\ seen = {}

-----------------------------------------------------------------------------
(* Hosts: writing and reading headers. Numbers of several bytes are kept   *)
(* as a host reads them; addresses, and the ports, as they are on the wire.*)

htonl(n) == (n % Base) * Base + (n \div Base)
ntohl(n) == htonl(n)

LK_PORT == 8888

ip_dst == << 1, 100 >>

Now == << >>

\* header_template, of which the addresses of Ethernet stay as they are.
Template ==
    [src |-> ip_dst, dst |-> ip_dst, srcPort |-> 8900, dstPort |-> 8900,
     ethSrc |-> << 0, 0, 0, 0 >>, ethDst |-> "none"]

\* Slip: the source port is made of the lock.
WrittenByLock(op, mode, lock, tid, from, to, timestamp, cid) ==
    [op |-> op, mode |-> mode, lock |-> htonl(lock), tid |-> htonl(tid), cid |-> cid,
     payload |-> IF timestamp = Now THEN << op, tid, lock >> ELSE timestamp,
     src |-> from, dst |-> IF to = << >> THEN ip_dst ELSE to,
     srcPort |-> LK_PORT + (lock % TxnPorts), dstPort |-> LK_PORT,
     ethSrc |-> Template.ethSrc, ethDst |-> Template.ethDst, recirculated |-> FALSE]

\* generate_write_request_pkt; to is empty for the address ip_dst. A reading of the
\* clock is what was written then; the timestamp 0, Now, asks for one.
Written(op, mode, lock, tid, from, to, timestamp, cid) ==
    [op |-> op, mode |-> mode, lock |-> htonl(lock), tid |-> htonl(tid), cid |-> cid,
     payload |-> IF timestamp = Now THEN << op, tid, lock >> ELSE timestamp,
     src |-> from, dst |-> IF to = << >> THEN ip_dst ELSE to,
     srcPort |-> LK_PORT + (tid % TxnPorts), dstPort |-> LK_PORT,
     ethSrc |-> Template.ethSrc, ethDst |-> Template.ethDst, recirculated |-> FALSE]

\* What the NIC hashes to choose an RX queue (ETH_RSS_UDP).
Flow(p) == << p.src, p.dst, p.srcPort, p.dstPort >>

\* What a client reads of a packet.
Read(p) == [host |-> p.dst, cid |-> p.cid, tid |-> ntohl(p.tid),
            lock |-> ntohl(p.lock), mode |-> p.mode]

-----------------------------------------------------------------------------
(* Clients.                                                                *)

AcquireOf(r) == Written("acquire", r.mode, r.lock, r.tid, r.host, << >>, Now, r.cid)

Acquire(r) ==
    /\ r \notin sent /\ sent' = sent \cup {r}
    /\ network' = network \cup {AcquireOf(r)}
    /\ UNCHANGED << entries, queued, granted, seen >>

\* What the switch and the servers send to a client.
Reply(p) == \E r \in Requests : p.dst = r.host

RxResend(p) ==
    /\ Reply(p) /\ p.op = "reject"
    /\ network' = (network \ {p}) \cup {AcquireOf(Read(p))}
    /\ UNCHANGED << entries, queued, sent, granted, seen >>

\* A grant is released as it was read.
RxGrant(p) ==
    /\ Reply(p) /\ p.op # "reject"
    /\ granted' = granted \cup {[request |-> Read(p), flow |-> Flow(p),
                                 payload |-> p.payload]}
    /\ LET r == Read(p)
       IN  network' = (network \ {p}) \cup
               {Written("release", r.mode, r.lock, r.tid, r.host, << >>, Now, r.cid)}
    /\ UNCHANGED << entries, queued, sent, seen >>

-----------------------------------------------------------------------------
(* Switch. It reads numbers in network order.                              *)

LockOf(p) == ntohl(p.lock)
AtSwitch(p) == ~ Reply(p) /\ p.ethDst = "none"

\* The arrays of the switch at the tail.
Entry(p) == [lock |-> LockOf(p), ip |-> p.src, mode |-> p.mode, tid |-> ntohl(p.tid),
             cid |-> p.cid, timestamp |-> p.payload]

\* notify_tail_client_action; reject_request_action does the same and sets op.
Returned(p) == [p EXCEPT !.dst = p.src]

SwitchRejects(p) ==
    /\ AtSwitch(p) /\ p.op = "acquire"
    /\ network' = (network \ {p}) \cup {[Returned(p) EXCEPT !.op = "reject"]}
    /\ UNCHANGED << entries, queued, sent, granted, seen >>

SwitchAcquires(p) ==
    /\ AtSwitch(p) /\ p.op \in {"acquire", "push_back"} /\ LockOf(p) \in InSwitch
    /\ entries' = entries \cup {Entry(p)}
    /\ network' \in {network \ {p}, (network \ {p}) \cup {Returned(p)}}
    /\ UNCHANGED << queued, sent, granted, seen >>

\* The head is popped; the RELEASE recirculates, or is dropped.
SwitchReleases(p) ==
    /\ AtSwitch(p) /\ p.op = "release" /\ LockOf(p) \in InSwitch /\ ~ p.recirculated
    /\ \E e \in entries : e.lock = LockOf(p) /\ entries' = entries \ {e}
    /\ network' \in {network \ {p},
                     (network \ {p}) \cup {[p EXCEPT !.recirculated = TRUE]}}
    /\ UNCHANGED << queued, sent, granted, seen >>

\* change_mode_act, on the clone of a recirculated RELEASE.
Notification(p, e) ==
    [p EXCEPT !.mode = e.mode, !.tid = htonl(e.tid), !.payload = e.timestamp,
              !.cid = e.cid, !.src = e.ip, !.dst = e.ip,
              !.srcPort = LK_PORT + (e.tid % TxnPorts), !.dstPort = LK_PORT]

SwitchNotifies(p) ==
    /\ AtSwitch(p) /\ p.recirculated
    /\ \E e \in entries :
         /\ e.lock = LockOf(p)
         /\ network' \in {(network \ {p}) \cup {Notification(p, e)},
                          network \cup {Notification(p, e)}}
    /\ UNCHANGED << entries, queued, sent, granted, seen >>

RecirculationEnds(p) ==
    /\ AtSwitch(p) /\ p.recirculated
    /\ network' = network \ {p}
    /\ UNCHANGED << entries, queued, sent, granted, seen >>

Bit(n, b) == (n \div (2 ^ b)) % 2

\* The entries of forward_to_server_table: i matches in the bits of the mask
\* server_node_num - 1; the first one that does is taken.
ServerOf(lock) ==
    LET Matches(i) == \A b \in 0 .. 3 :
                        Bit(ServerNodes - 1, b) = 1 => Bit(lock, b) = Bit(i, b)
    IN  CHOOSE i \in 0 .. (ServerNodes - 1) :
            Matches(i) /\ \A j \in 0 .. (i - 1) : ~ Matches(j)

server_ip(i) == << 1, 12 - i >>

\* No client runs on a server, nor has the address that stands for the switch.
ASSUME ApartAssumption ==
    \A r \in Requests : /\ r.host # ip_dst
                         /\ \A l \in Locks : r.host # server_ip(ServerOf(l))

\* Slip: the source port stays that of the transaction.
ForwardedUnfixed(p) ==
    [p EXCEPT !.ethSrc = << 0, 0 >> \o p.src,
              !.ethDst = IF LockOf(p) \in InSwitch THEN "secondary" ELSE "primary",
              !.src = server_ip(ServerOf(LockOf(p))),
              !.dst = server_ip(ServerOf(LockOf(p)))]

\* fix_src_port_action, set_tag_table, forward_to_server_action, in this order.
Forwarded(p) ==
    [p EXCEPT !.ethSrc = << 0, 0 >> \o p.src,
              !.srcPort = 9000 + (LockOf(p) % LockPorts),
              !.ethDst = IF LockOf(p) \in InSwitch THEN "secondary" ELSE "primary",
              !.src = server_ip(ServerOf(LockOf(p))),
              !.dst = server_ip(ServerOf(LockOf(p)))]

SwitchForwards(p) ==
    /\ AtSwitch(p) /\ ~ p.recirculated
    /\ p.op \in {"acquire", "release"}
    /\ network' = (network \ {p}) \cup {Forwarded(p)}
    /\ UNCHANGED << entries, queued, sent, granted, seen >>

-----------------------------------------------------------------------------
(* Servers.                                                                *)

AtServer(p, op, role) == p.op = op /\ p.ethDst = role

ip_from_eth(p) == << p.ethSrc[3], p.ethSrc[4] >>

\* A node keeps txnID as it is in the packet.
Node(p) ==
    [lock |-> ntohl(p.lock), mode |-> p.mode, client_id |-> p.cid, txnID |-> p.tid,
     ip_src |-> ip_from_eth(p), timestamp |-> p.payload]

Nodes(p) == {node \in queued : node.lock = ntohl(p.lock)}

Sees(p) == seen' = seen \cup {<< ntohl(p.lock), Flow(p) >>}

\* generate_write_request_pkt of the server, for a grant: it names the client as
\* the sender, too.
Granted(mode, lock, tid, client, timestamp, cid) ==
    Written("grant", mode, lock, tid, client, client, timestamp, cid)

GrantOfPacket(p) ==
    Granted(p.mode, ntohl(p.lock), ntohl(p.tid), ip_from_eth(p), p.payload, p.cid)

ServerAcquires(p) ==
    /\ \/ /\ AtServer(p, "acquire", "secondary")
          /\ network' = network \ {p}
       \/ /\ AtServer(p, "acquire", "primary")
          /\ network' \in {network \ {p}, (network \ {p}) \cup {GrantOfPacket(p)}}
    /\ queued' = queued \cup {Node(p)}
    /\ Sees(p)
    /\ UNCHANGED << entries, sent, granted >>

\* Slip: dequeue has turned txnID round already.
PushedBackUnturned(node) ==
    Written("push_back", node.mode, node.lock, node.txnID, node.ip_src, << >>,
            node.timestamp, node.client_id)

\* dequeue turns txnID round.
PushedBack(node) ==
    Written("push_back", node.mode, node.lock, ntohl(node.txnID), node.ip_src, << >>,
            node.timestamp, node.client_id)

ServerPushesBack(p) ==
    /\ AtServer(p, "release", "secondary")
    /\ \E nodes \in SUBSET Nodes(p) :
         /\ queued' = queued \ nodes
         /\ network' = (network \ {p}) \cup {PushedBack(node) : node \in nodes}
    /\ Sees(p)
    /\ UNCHANGED << entries, sent, granted >>

\* Slip: the grant is written now.
GrantOfNodeNow(node) ==
    Granted(node.mode, node.lock, ntohl(node.txnID), node.ip_src, Now, node.client_id)

GrantOfNode(node) ==
    Granted(node.mode, node.lock, ntohl(node.txnID), node.ip_src, node.timestamp,
            node.client_id)

ServerReleases(p) ==
    /\ AtServer(p, "release", "primary")
    /\ \E node \in Nodes(p) : \E waiting \in SUBSET (Nodes(p) \ {node}) :
         /\ queued' = queued \ {node}
         /\ network' = (network \ {p}) \cup {GrantOfNode(w) : w \in waiting}
    /\ Sees(p)
    /\ UNCHANGED << entries, sent, granted >>

-----------------------------------------------------------------------------
Client == (\E r \in Requests : Acquire(r)) \/ \E p \in network : RxResend(p) \/ RxGrant(p)

Switch ==
    \E p \in network :
        \/ SwitchRejects(p) \/ SwitchAcquires(p) \/ SwitchReleases(p)
        \/ SwitchNotifies(p) \/ RecirculationEnds(p) \/ SwitchForwards(p)

Server == \E p \in network : ServerAcquires(p) \/ ServerPushesBack(p) \/ ServerReleases(p)

Next == Client \/ Switch \/ Server

Spec == Init /\ [][Next]_vars

-----------------------------------------------------------------------------
\* A client is granted what it asked for: whichever way the request took and
\* whosever RELEASE brought it, the grant reaches the host, client and
\* transaction that sent it, for its lock and mode.
GrantIsOfRequest == \A g \in granted : g.request \in sent

\* All grants of a transaction come to one RX queue of its host, and so to one
\* lcore: it increments txn_r and appends to the list without a lock.
OneLcorePerTxn ==
    \A g, h \in granted :
        (g.request.host = h.request.host /\ g.request.tid = h.request.tid)
            => g.flow = h.flow

\* All packets of a lock come to one RX queue of one server: its lcores share
\* the queues and counters of the locks without a lock.
OneLcorePerLock == \A s, t \in seen : s[1] = t[1] => s[2] = t[2]

\* The latency a client computes is that of the ACQUIRE of the request, wherever
\* it waited and whatever brought the grant.
LatencyOfRequest ==
    \A g \in granted : g.payload = << "acquire", g.request.tid, g.request.lock >>
=============================================================================
