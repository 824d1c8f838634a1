--------------------------- MODULE Packets_proofs ---------------------------
(***************************************************************************)
(* Proofs about the packets, for any requests, locks and transactions, any *)
(* split of the locks between switch and servers, and any byte order that  *)
(* turns two digits round: a grant is of a request that was sent, is timed *)
(* from it, and finds the one lcore of its transaction; the packets of a   *)
(* lock find the one lcore of the lock.                                    *)
(***************************************************************************)
EXTENDS Packets, TLAPS

-----------------------------------------------------------------------------
(* Byte order.                                                             *)

\* The quotient and the remainder are the only ones.
LEMMA Division ==
    ASSUME NEW B \in Nat \ {0}, NEW q \in Nat, NEW r \in 0 .. (B - 1)
    PROVE  (q * B + r) \div B = q /\ (q * B + r) % B = r
<1> DEFINE n == q * B + r
           d == n \div B
           m == n % B
<1>1. n \in Nat /\ d \in Nat /\ m \in 0 .. (B - 1) /\ n = B * d + m
  OBVIOUS
<1>2. d * B + m = q * B + r
  BY <1>1
<1> HIDE DEF n, d, m
<1>3. ~ d < q
  <2> SUFFICES ASSUME d < q  PROVE FALSE
    OBVIOUS
  <2>1. (d + 1) * B <= q * B
    BY <1>1
  <2> QED  BY <1>1, <1>2, <2>1
<1>4. ~ q < d
  <2> SUFFICES ASSUME q < d  PROVE FALSE
    OBVIOUS
  <2>1. (q + 1) * B <= d * B
    BY <1>1
  <2> QED  BY <1>1, <1>2, <2>1
<1>5. d = q /\ m = r
  BY <1>1, <1>2, <1>3, <1>4
<1> QED  BY <1>5 DEF d, m, n

\* Turning a number round twice gives it back.
LEMMA TurnedTwice ==
    ASSUME NEW n \in 0 .. (Base * Base - 1)
    PROVE  htonl(n) \in Nat /\ ntohl(htonl(n)) = n
<1> DEFINE q == n \div Base
           r == n % Base
<1>1. /\ Base \in Nat \ {0}
      /\ n \in Nat /\ q \in Nat /\ r \in 0 .. (Base - 1) /\ n = q * Base + r
  BY PacketsAssumption
<1> HIDE DEF q, r
<1>2. q \in 0 .. (Base - 1)
  <2> SUFFICES ASSUME q >= Base  PROVE FALSE
    BY <1>1
  <2>1. q * Base >= Base * Base
    BY <1>1
  <2> QED  BY <1>1, <2>1
<1>3. htonl(n) = r * Base + q
  BY DEF htonl, q, r
<1>4. htonl(n) \div Base = r /\ htonl(n) % Base = q
  <2>1. (r * Base + q) \div Base = r /\ (r * Base + q) % Base = q
    BY <1>1, <1>2, Division
  <2> QED  BY <1>3, <2>1
<1>5. htonl(n) \in Nat
  BY <1>1, <1>2, <1>3
<1>6. ntohl(htonl(n)) = q * Base + r
  BY <1>4 DEF ntohl, htonl
<1> QED  BY <1>1, <1>5, <1>6

-----------------------------------------------------------------------------
(* The inductive invariant: what there is of a request, wherever it is. S  *)
(* is the set of the requests sent.                                        *)

Hosts == {r.host : r \in Requests}
Places == Hosts \cup {ip_dst} \cup {server_ip(ServerOf(l)) : l \in Locks}
Modes == {"shared", "exclusive"}
WireLocks == {htonl(l) : l \in Locks}
WireIds == {htonl(t) : t \in TxnIds}
Times == {"acquire", "release"} \X TxnIds \X Locks

Ops == {"acquire", "release", "grant", "push_back", "reject"}
EthSources == {<< 0, 0, 0, 0 >>} \cup {<< 0, 0 >> \o h : h \in Hosts}
EthDestinations == {"none", "primary", "secondary"}

Header ==
    [op : Ops, mode : Modes, lock : WireLocks, tid : WireIds, cid : Nat,
     payload : Times, src : Places, dst : Places, srcPort : Int, dstPort : {LK_PORT},
     ethSrc : EthSources, ethDst : EthDestinations, recirculated : BOOLEAN]

\* The request of a host that the rest of the packet names.
RequestIn(p, h) ==
    [host |-> h, cid |-> p.cid, tid |-> ntohl(p.tid), lock |-> ntohl(p.lock),
     mode |-> p.mode]

TxnPort(p) == LK_PORT + (ntohl(p.tid) % TxnPorts)
Timed(p) == p.payload = << "acquire", ntohl(p.tid), ntohl(p.lock) >>

\* On its way to the switch, ...
ToSwitch(p, S) ==
    /\ p.ethDst = "none" /\ p.src \in Hosts /\ p.dst = ip_dst
    /\ p.srcPort = TxnPort(p)
    /\ p.op \in {"acquire", "push_back"} => RequestIn(p, p.src) \in S /\ Timed(p)
\* ... back to a client, ...
ToClient(p, S) ==
    /\ p.ethDst = "none" /\ p.dst \in Hosts /\ p.src = p.dst
    /\ p.srcPort = TxnPort(p)
    /\ RequestIn(p, p.dst) \in S /\ Timed(p)
\* ... or on to a server.
ToServer(p, S) ==
    /\ p.ethDst \in {"primary", "secondary"}
    /\ p.dst = server_ip(ServerOf(LockOf(p))) /\ p.src = p.dst
    /\ p.srcPort = 9000 + (LockOf(p) % LockPorts)
    /\ ip_from_eth(p) \in Hosts
    /\ p.op = "acquire" => RequestIn(p, ip_from_eth(p)) \in S /\ Timed(p)

PacketInv(p, S) ==
    /\ p \in Header
    /\ ToSwitch(p, S) \/ ToClient(p, S) \/ ToServer(p, S)

EntryInv(e, S) ==
    /\ e \in [lock : Locks, ip : Hosts, mode : Modes, tid : TxnIds, cid : Nat,
              timestamp : Times]
    /\ [host |-> e.ip, cid |-> e.cid, tid |-> e.tid, lock |-> e.lock,
        mode |-> e.mode] \in S
    /\ e.timestamp = << "acquire", e.tid, e.lock >>

NodeInv(n, S) ==
    /\ n \in [lock : Locks, mode : Modes, client_id : Nat, txnID : WireIds,
              ip_src : Hosts, timestamp : Times]
    /\ [host |-> n.ip_src, cid |-> n.client_id, tid |-> ntohl(n.txnID),
        lock |-> n.lock, mode |-> n.mode] \in S
    /\ n.timestamp = << "acquire", ntohl(n.txnID), n.lock >>

FlowToClient(r) ==
    << r.host, r.host, LK_PORT + (r.tid % TxnPorts), LK_PORT >>

GrantInv(g, S) ==
    /\ g.request \in S
    /\ g.flow = FlowToClient(g.request)
    /\ g.payload = << "acquire", g.request.tid, g.request.lock >>

FlowToServer(l) ==
    << server_ip(ServerOf(l)), server_ip(ServerOf(l)), 9000 + (l % LockPorts), LK_PORT >>

SeenInv(s) == s[2] = FlowToServer(s[1])

Inv ==
    /\ sent \subseteq Requests
    /\ \A p \in network : PacketInv(p, sent)
    /\ \A e \in entries : EntryInv(e, sent)
    /\ \A n \in queued : NodeInv(n, sent)
    /\ \A g \in granted : GrantInv(g, sent)
    /\ \A s \in seen : SeenInv(s)

-----------------------------------------------------------------------------
(* The constructors of packets.                                            *)

LEMMA WireFacts ==
    /\ \A l \in Locks : htonl(l) \in WireLocks /\ ntohl(htonl(l)) = l
    /\ \A t \in TxnIds : htonl(t) \in WireIds /\ ntohl(htonl(t)) = t
    /\ \A w \in WireLocks : ntohl(w) \in Locks
    /\ \A w \in WireIds : ntohl(w) \in TxnIds
<1>1. \A l \in Locks : htonl(l) \in WireLocks /\ ntohl(htonl(l)) = l
  BY TurnedTwice, PacketsAssumption DEF WireLocks
<1>2. \A t \in TxnIds : htonl(t) \in WireIds /\ ntohl(htonl(t)) = t
  BY TurnedTwice, PacketsAssumption DEF WireIds
<1> QED  BY <1>1, <1>2 DEF WireLocks, WireIds

LEMMA HostFacts ==
    /\ \A h \in Hosts : h \in Nat \X Nat /\ h # << >>
    /\ \A h \in Hosts : h # ip_dst /\ \A l \in Locks : h # server_ip(ServerOf(l))
    /\ \A p : Reply(p) <=> p.dst \in Hosts
<1>1. ASSUME NEW a \in Nat, NEW b \in Nat  PROVE << a, b >> # << >>
  <2>1. Len(<< a, b >>) = 2 /\ Len(<< >>) = 0
    OBVIOUS
  <2> QED  BY <2>1
<1>2. \A h \in Hosts : h \in Nat \X Nat
  BY RequestsAssumption DEF Hosts
<1>3. \A h \in Hosts : h # ip_dst /\ \A l \in Locks : h # server_ip(ServerOf(l))
  BY ApartAssumption DEF Hosts
<1>4. \A p : Reply(p) <=> p.dst \in Hosts
  BY DEF Reply, Hosts
<1> QED  BY <1>1, <1>2, <1>3, <1>4

LEMMA PortFacts ==
    /\ \A t \in TxnIds : LK_PORT + (t % TxnPorts) \in Int
    /\ \A l \in Locks : 9000 + (l % LockPorts) \in Int
<1>1. TxnIds \subseteq Int /\ Locks \subseteq Int
  BY PacketsAssumption
<1>2. TxnPorts \in Nat \ {0} /\ LockPorts \in Nat \ {0}
  BY PacketsAssumption
<1>3. \A t \in Int : LK_PORT + (t % TxnPorts) \in Int /\ 9000 + (t % LockPorts) \in Int
  BY <1>2 DEF LK_PORT
<1> QED  BY <1>1, <1>3

\* What a host names of its request is what generate_write_request_pkt is given.
LEMMA RequestFacts ==
    ASSUME NEW r \in Requests
    PROVE  /\ r.mode \in Modes /\ r.lock \in Locks /\ r.tid \in TxnIds
           /\ r.host \in Hosts /\ r.cid \in Nat
           /\ r = [host |-> r.host, cid |-> r.cid, tid |-> r.tid, lock |-> r.lock,
                   mode |-> r.mode]
BY RequestsAssumption DEF Modes, Hosts

\* The fields of a packet that a host wrote for a request.
Names(p, op, r, to, timestamp) ==
    /\ p \in Header
    /\ p.op = op /\ p.mode = r.mode /\ p.cid = r.cid
    /\ ntohl(p.lock) = r.lock /\ ntohl(p.tid) = r.tid
    /\ p.src = r.host /\ p.dst = (IF to = << >> THEN ip_dst ELSE to)
    /\ p.srcPort = TxnPort(p) /\ p.ethDst = "none"
    /\ p.payload = (IF timestamp = Now THEN << op, r.tid, r.lock >> ELSE timestamp)

\* generate_write_request_pkt puts in what it is given.
LEMMA WrittenFields ==
    ASSUME NEW op \in {"acquire", "release", "grant", "push_back"},
           NEW r \in Requests, NEW to \in {r.host, << >>},
           NEW timestamp \in Times \cup {Now},
           timestamp = Now => op \in {"acquire", "release"}
    PROVE  Names(Written(op, r.mode, r.lock, r.tid, r.host, to, timestamp, r.cid),
                 op, r, to, timestamp)
<1> DEFINE mode == r.mode
           lock == r.lock
           tid == r.tid
           from == r.host
           cid == r.cid
           p == Written(op, r.mode, r.lock, r.tid, r.host, to, timestamp, r.cid)
<1>0. /\ mode \in Modes /\ lock \in Locks /\ tid \in TxnIds /\ from \in Hosts
      /\ cid \in Nat
      /\ p = Written(op, mode, lock, tid, from, to, timestamp, cid)
      /\ to \in Hosts \cup {<< >>}
      /\ mode = r.mode /\ lock = r.lock /\ tid = r.tid /\ from = r.host /\ cid = r.cid
  BY RequestFacts
<1> HIDE DEF mode, lock, tid, from, cid, p
<1> DEFINE payload == IF timestamp = Now THEN << op, tid, lock >> ELSE timestamp
           dst == IF to = << >> THEN ip_dst ELSE to
           port == LK_PORT + (tid % TxnPorts)
           zeros == << 0, 0, 0, 0 >>
           wlock == htonl(lock)
           wtid == htonl(tid)
<1>1. wlock \in WireLocks /\ wtid \in WireIds /\ ntohl(wlock) = lock /\ ntohl(wtid) = tid
  BY <1>0, WireFacts
<1>2. dst \in Places /\ from \in Places
  BY <1>0 DEF Places
<1>3. payload \in Times
  BY <1>0 DEF Times, Now
<1>4. p = [op |-> op, mode |-> mode, lock |-> wlock, tid |-> wtid, cid |-> cid,
           payload |-> payload, src |-> from, dst |-> dst, srcPort |-> port,
           dstPort |-> LK_PORT, ethSrc |-> zeros, ethDst |-> "none",
           recirculated |-> FALSE]
  BY <1>0 DEF Written, Template
<1>5. port \in Int
  BY <1>0, PacketsAssumption DEF LK_PORT
<1>6. /\ payload = IF timestamp = Now THEN << op, tid, lock >> ELSE timestamp
      /\ dst = IF to = << >> THEN ip_dst ELSE to
      /\ port = LK_PORT + (tid % TxnPorts) /\ zeros = << 0, 0, 0, 0 >>
  OBVIOUS
<1> HIDE DEF payload, dst, port, zeros, wlock, wtid
<1>7. p \in Header
  <2>1. op \in Ops /\ zeros \in EthSources /\ "none" \in EthDestinations
    BY <1>6 DEF Ops, EthSources, EthDestinations
  <2>2. /\ mode \in Modes /\ cid \in Nat /\ wlock \in WireLocks /\ wtid \in WireIds
        /\ payload \in Times /\ from \in Places /\ dst \in Places /\ port \in Int
        /\ LK_PORT \in {LK_PORT} /\ FALSE \in BOOLEAN
    BY <1>0, <1>1, <1>2, <1>3, <1>5
  <2> QED  BY <1>4, <2>1, <2>2 DEF Header
<1>8. /\ p.op = op /\ p.mode = mode /\ p.cid = cid /\ p.src = from /\ p.ethDst = "none"
      /\ p.lock = wlock /\ p.tid = wtid /\ p.dst = dst /\ p.srcPort = port
      /\ p.payload = payload
  BY <1>4
<1>9. p.srcPort = TxnPort(p)
  BY <1>1, <1>6, <1>8 DEF TxnPort
<1>10. p.payload = (IF timestamp = Now THEN << op, r.tid, r.lock >> ELSE timestamp)
  BY <1>0, <1>6, <1>8
<1>11. Names(p, op, r, to, timestamp)
  BY <1>0, <1>1, <1>6, <1>7, <1>8, <1>9, <1>10 DEF Names
<1> QED  BY <1>11 DEF p

\* A packet for the switch, with the request it is of.
LEMMA WrittenToSwitch ==
    ASSUME NEW S \in SUBSET Requests, NEW r \in S,
           NEW op \in {"acquire", "release", "push_back"},
           NEW timestamp \in Times \cup {Now},
           timestamp = Now => op \in {"acquire", "release"},
           op = "push_back" => timestamp = << "acquire", r.tid, r.lock >>,
           op = "acquire" => timestamp = Now
    PROVE  PacketInv(Written(op, r.mode, r.lock, r.tid, r.host, << >>, timestamp, r.cid), S)
<1> DEFINE p == Written(op, r.mode, r.lock, r.tid, r.host, << >>, timestamp, r.cid)
<1>1. /\ r \in Requests /\ r.host \in Hosts
      /\ r = [host |-> r.host, cid |-> r.cid, tid |-> r.tid, lock |-> r.lock,
              mode |-> r.mode]
  BY RequestFacts
<1>2. Names(p, op, r, << >>, timestamp)
  BY <1>1, WrittenFields
<1> HIDE DEF p
<1>3. RequestIn(p, p.src) = r
  BY <1>1, <1>2 DEF RequestIn, Names
<1>4. op \in {"acquire", "push_back"} => Timed(p)
  BY <1>2 DEF Timed, Names
<1>5. ToSwitch(p, S)
  BY <1>1, <1>2, <1>3, <1>4 DEF ToSwitch, Names
<1>6. p \in Header
  BY <1>2 DEF Names
<1> QED  BY <1>5, <1>6 DEF PacketInv, p

\* A grant for the client, likewise.
LEMMA GrantToClient ==
    ASSUME NEW S \in SUBSET Requests, NEW r \in S,
           NEW timestamp \in Times, timestamp = << "acquire", r.tid, r.lock >>
    PROVE  PacketInv(Granted(r.mode, r.lock, r.tid, r.host, timestamp, r.cid), S)
<1> DEFINE p == Written("grant", r.mode, r.lock, r.tid, r.host, r.host, timestamp, r.cid)
<1>1. /\ r \in Requests /\ r.host \in Hosts
      /\ r = [host |-> r.host, cid |-> r.cid, tid |-> r.tid, lock |-> r.lock,
              mode |-> r.mode]
  BY RequestFacts
<1>2. timestamp # Now /\ r.host # << >>
  <2>1. Len(timestamp) = 3 /\ Len(<< >>) = 0
    OBVIOUS
  <2> QED  BY <2>1, <1>1, HostFacts DEF Now
<1>3. Names(p, "grant", r, r.host, timestamp)
  BY <1>1, <1>2, WrittenFields
<1> HIDE DEF p
<1>4. RequestIn(p, p.dst) = r
  BY <1>1, <1>2, <1>3 DEF RequestIn, Names
<1>5. Timed(p)
  BY <1>2, <1>3 DEF Timed, Names
<1>6. ToClient(p, S)
  BY <1>1, <1>2, <1>3, <1>4, <1>5 DEF ToClient, Names
<1>7. p \in Header
  BY <1>3 DEF Names
<1> QED  BY <1>6, <1>7 DEF PacketInv, p, Granted

-----------------------------------------------------------------------------
(* Where a packet is says what is known of it.                             *)

LEMMA WhereItIs ==
    ASSUME NEW S, NEW p, PacketInv(p, S)
    PROVE  /\ LockOf(p) \in Locks /\ ntohl(p.tid) \in TxnIds
           /\ AtSwitch(p) => ToSwitch(p, S)
           /\ Reply(p) => ToClient(p, S)
           /\ \A op, role : (role # "none" /\ AtServer(p, op, role)) => ToServer(p, S)
<1>1. LockOf(p) \in Locks /\ ntohl(p.tid) \in TxnIds
  BY WireFacts DEF PacketInv, Header, LockOf
<1>2. ToSwitch(p, S) => ~ Reply(p) /\ p.ethDst = "none"
  BY HostFacts DEF ToSwitch
<1>3. ToClient(p, S) => Reply(p) /\ p.ethDst = "none"
  BY HostFacts DEF ToClient
<1>4. ToServer(p, S) => ~ Reply(p) /\ p.ethDst # "none"
  <2> SUFFICES ASSUME ToServer(p, S)  PROVE ~ Reply(p) /\ p.ethDst # "none"
    OBVIOUS
  <2>1. p.dst = server_ip(ServerOf(LockOf(p))) /\ p.ethDst \in {"primary", "secondary"}
    BY DEF ToServer
  <2>2. p.dst \notin Hosts
    BY <1>1, <2>1, HostFacts
  <2> QED  BY <2>1, <2>2, HostFacts
<1> QED  BY <1>1, <1>2, <1>3, <1>4 DEF PacketInv, AtSwitch, AtServer

\* What is sent stays sent.
LEMMA Monotone ==
    ASSUME NEW S, NEW T, S \subseteq T
    PROVE  /\ \A p : PacketInv(p, S) => PacketInv(p, T)
           /\ \A e : EntryInv(e, S) => EntryInv(e, T)
           /\ \A n : NodeInv(n, S) => NodeInv(n, T)
           /\ \A g : GrantInv(g, S) => GrantInv(g, T)
<1>1. ASSUME NEW p, PacketInv(p, S)  PROVE PacketInv(p, T)
  <2>1. ToSwitch(p, S) => ToSwitch(p, T)
    BY DEF ToSwitch
  <2>2. ToClient(p, S) => ToClient(p, T)
    BY DEF ToClient
  <2>3. ToServer(p, S) => ToServer(p, T)
    BY DEF ToServer
  <2> QED  BY <1>1, <2>1, <2>2, <2>3 DEF PacketInv
<1>2. \A e : EntryInv(e, S) => EntryInv(e, T)
  BY DEF EntryInv
<1>3. \A n : NodeInv(n, S) => NodeInv(n, T)
  BY DEF NodeInv
<1>4. \A g : GrantInv(g, S) => GrantInv(g, T)
  BY DEF GrantInv
<1> QED  BY <1>1, <1>2, <1>3, <1>4

-----------------------------------------------------------------------------
(* What the switch makes of a packet.                                      *)

\* notify_tail_client_action returns a request to the client that sent it.
LEMMA ReturnedToClient ==
    ASSUME NEW S, NEW p \in Header, ToSwitch(p, S), p.op \in {"acquire", "push_back"}
    PROVE  Returned(p) \in Header /\ ToClient(Returned(p), S)
<1> DEFINE q == Returned(p)
<1>1. q = [p EXCEPT !.dst = p.src]
  BY DEF Returned
<1>2. q \in Header
  BY <1>1 DEF Header
<1>3. /\ q.ethDst = p.ethDst /\ q.src = p.src /\ q.dst = p.src /\ q.srcPort = p.srcPort
      /\ q.tid = p.tid /\ q.lock = p.lock /\ q.cid = p.cid /\ q.mode = p.mode
      /\ q.payload = p.payload
  BY <1>1 DEF Header
<1> HIDE DEF q
<1>4. TxnPort(q) = TxnPort(p) /\ Timed(q) = Timed(p)
      /\ RequestIn(q, q.dst) = RequestIn(p, p.src)
  BY <1>3 DEF TxnPort, Timed, RequestIn
<1>5. ToClient(q, S)
  BY <1>3, <1>4 DEF ToSwitch, ToClient
<1> QED  BY <1>2, <1>5 DEF q

\* reject_request_action changes the operation, too.
LEMMA RejectedToClient ==
    ASSUME NEW S, NEW p \in Header, ToClient(p, S)
    PROVE  PacketInv([p EXCEPT !.op = "reject"], S)
<1> DEFINE q == [p EXCEPT !.op = "reject"]
<1>1. q \in Header
  BY DEF Header, Ops
<1>2. /\ q.ethDst = p.ethDst /\ q.src = p.src /\ q.dst = p.dst /\ q.srcPort = p.srcPort
      /\ q.tid = p.tid /\ q.lock = p.lock /\ q.cid = p.cid /\ q.mode = p.mode
      /\ q.payload = p.payload
  BY DEF Header
<1> HIDE DEF q
<1>3. TxnPort(q) = TxnPort(p) /\ Timed(q) = Timed(p)
      /\ RequestIn(q, q.dst) = RequestIn(p, p.dst)
  BY <1>2 DEF TxnPort, Timed, RequestIn
<1>4. ToClient(q, S)
  BY <1>2, <1>3 DEF ToClient
<1> QED  BY <1>1, <1>4 DEF PacketInv, q

\* A RELEASE is the same when it comes round again.
LEMMA RecirculatedToSwitch ==
    ASSUME NEW S, NEW p \in Header, ToSwitch(p, S), p.op = "release"
    PROVE  PacketInv([p EXCEPT !.recirculated = TRUE], S)
<1> DEFINE q == [p EXCEPT !.recirculated = TRUE]
<1>1. q \in Header
  BY DEF Header
<1>2. /\ q.ethDst = p.ethDst /\ q.src = p.src /\ q.dst = p.dst /\ q.srcPort = p.srcPort
      /\ q.tid = p.tid /\ q.op = p.op
  BY DEF Header
<1> HIDE DEF q
<1>3. TxnPort(q) = TxnPort(p)
  BY <1>2 DEF TxnPort
<1>4. ToSwitch(q, S)
  BY <1>2, <1>3 DEF ToSwitch
<1> QED  BY <1>1, <1>4 DEF PacketInv, q

\* change_mode_act takes everything of the request from the entry; the lock, which
\* it leaves, is that of the entry.
LEMMA NotificationToClient ==
    ASSUME NEW S, NEW p \in Header, ToSwitch(p, S),
           NEW e, EntryInv(e, S), e.lock = LockOf(p)
    PROVE  PacketInv(Notification(p, e), S)
<1> DEFINE q == Notification(p, e)
           port == LK_PORT + (e.tid % TxnPorts)
           wtid == htonl(e.tid)
<1>1. /\ e.ip \in Hosts /\ e.mode \in Modes /\ e.tid \in TxnIds /\ e.cid \in Nat
      /\ e.timestamp \in Times
  BY DEF EntryInv
<1>2. wtid \in WireIds /\ ntohl(wtid) = e.tid
  BY <1>1, WireFacts
<1>3. port \in Int /\ e.ip \in Places
  BY <1>1, PortFacts DEF Places
<1>4. q = [p EXCEPT !.mode = e.mode, !.tid = wtid, !.payload = e.timestamp,
                    !.cid = e.cid, !.src = e.ip, !.dst = e.ip,
                    !.srcPort = port, !.dstPort = LK_PORT]
  BY DEF Notification
<1>5. port = LK_PORT + (e.tid % TxnPorts)
  OBVIOUS
<1> HIDE DEF q, port, wtid
<1>6. q \in Header
  BY <1>1, <1>2, <1>3, <1>4 DEF Header
<1>7. /\ q.ethDst = p.ethDst /\ q.src = e.ip /\ q.dst = e.ip /\ q.srcPort = port
      /\ q.tid = wtid /\ q.lock = p.lock /\ q.cid = e.cid /\ q.mode = e.mode
      /\ q.payload = e.timestamp
  BY <1>4 DEF Header
<1>8. ntohl(q.tid) = e.tid /\ ntohl(q.lock) = e.lock
  BY <1>2, <1>7 DEF LockOf
<1>9. q.srcPort = TxnPort(q) /\ Timed(q) /\ RequestIn(q, q.dst) \in S
  BY <1>5, <1>7, <1>8 DEF TxnPort, Timed, RequestIn, EntryInv
<1>10. ToClient(q, S)
  BY <1>1, <1>7, <1>9 DEF ToSwitch, ToClient
<1> QED  BY <1>6, <1>10 DEF PacketInv, q

\* forward_to_server_action keeps the client's address in that of Ethernet.
LEMMA ForwardedToServer ==
    ASSUME NEW S, NEW p \in Header, ToSwitch(p, S), p.op \in {"acquire", "release"}
    PROVE  PacketInv(Forwarded(p), S)
<1> DEFINE q == Forwarded(p)
           ether == << 0, 0 >> \o p.src
           port == 9000 + (LockOf(p) % LockPorts)
           role == IF LockOf(p) \in InSwitch THEN "secondary" ELSE "primary"
           server == server_ip(ServerOf(LockOf(p)))
<1>1. LockOf(p) \in Locks
  BY WireFacts DEF Header, LockOf
<1>2. p.src \in Hosts
  BY DEF ToSwitch
<1>3. ether \in EthSources /\ << ether[3], ether[4] >> = p.src
  <2>1. p.src \in Nat \X Nat
    BY <1>2, HostFacts
  <2>2. Len(<< 0, 0 >>) = 2 /\ Len(p.src) = 2 /\ p.src = << p.src[1], p.src[2] >>
    BY <2>1
  <2>3. ether[3] = p.src[1] /\ ether[4] = p.src[2]
    BY <2>1, <2>2
  <2>4. ether \in EthSources
    BY <1>2 DEF EthSources
  <2> QED  BY <2>2, <2>3, <2>4
<1>4. port \in Int
  BY <1>1, PortFacts
<1>5. role \in EthDestinations /\ role # "none" /\ role \in {"primary", "secondary"}
  BY DEF EthDestinations
<1>6. server \in Places
  BY <1>1 DEF Places
<1>7. q = [p EXCEPT !.ethSrc = ether, !.srcPort = port, !.ethDst = role,
                    !.src = server, !.dst = server]
  BY DEF Forwarded
<1>8. port = 9000 + (LockOf(p) % LockPorts) /\ server = server_ip(ServerOf(LockOf(p)))
  OBVIOUS
<1> HIDE DEF q, ether, port, role, server
<1>9. q \in Header
  BY <1>3, <1>4, <1>5, <1>6, <1>7 DEF Header
<1>10. /\ q.ethSrc = ether /\ q.srcPort = port /\ q.ethDst = role
       /\ q.src = server /\ q.dst = server /\ q.op = p.op
       /\ q.tid = p.tid /\ q.lock = p.lock /\ q.cid = p.cid /\ q.mode = p.mode
       /\ q.payload = p.payload
  BY <1>7 DEF Header
<1>11. ip_from_eth(q) = p.src
  BY <1>3, <1>10 DEF ip_from_eth
<1>12. LockOf(q) = LockOf(p) /\ Timed(q) = Timed(p)
       /\ RequestIn(q, ip_from_eth(q)) = RequestIn(p, p.src)
  BY <1>10, <1>11 DEF LockOf, Timed, RequestIn
<1>13. ToServer(q, S)
  BY <1>2, <1>5, <1>8, <1>10, <1>11, <1>12 DEF ToSwitch, ToServer
<1> QED  BY <1>9, <1>13 DEF PacketInv, q

-----------------------------------------------------------------------------
(* The invariant holds.                                                    *)

LEMMA InvInit == Init => Inv
BY DEF Init, Inv

\* Entries and nodes are made of requests on their way.
LEMMA EntryOfRequest ==
    ASSUME NEW S, NEW p, PacketInv(p, S), ToSwitch(p, S), p.op \in {"acquire", "push_back"}
    PROVE  EntryInv(Entry(p), S)
<1>1. LockOf(p) \in Locks /\ ntohl(p.tid) \in TxnIds
  BY WhereItIs
<1>2. p.src \in Hosts /\ p.mode \in Modes /\ p.cid \in Nat /\ p.payload \in Times
  BY DEF ToSwitch, PacketInv, Header
<1>3. RequestIn(p, p.src) \in S /\ Timed(p)
  BY DEF ToSwitch
<1> QED  BY <1>1, <1>2, <1>3 DEF EntryInv, Entry, RequestIn, Timed, LockOf

LEMMA NodeOfRequest ==
    ASSUME NEW S, NEW p, PacketInv(p, S), ToServer(p, S), p.op = "acquire"
    PROVE  NodeInv(Node(p), S)
<1>1. LockOf(p) \in Locks
  BY WhereItIs
<1>2. ip_from_eth(p) \in Hosts /\ p.mode \in Modes /\ p.cid \in Nat /\ p.payload \in Times
      /\ p.tid \in WireIds
  BY DEF ToServer, PacketInv, Header
<1>3. RequestIn(p, ip_from_eth(p)) \in S /\ Timed(p)
  BY DEF ToServer
<1> QED  BY <1>1, <1>2, <1>3 DEF NodeInv, Node, RequestIn, Timed, LockOf

\* The request a node stands for.
LEMMA RequestOfNode ==
    ASSUME NEW S \in SUBSET Requests, NEW n, NodeInv(n, S)
    PROVE  \E r \in S :
             /\ r.host = n.ip_src /\ r.cid = n.client_id /\ r.tid = ntohl(n.txnID)
             /\ r.lock = n.lock /\ r.mode = n.mode
             /\ n.timestamp = << "acquire", r.tid, r.lock >> /\ n.timestamp \in Times
<1> DEFINE r == [host |-> n.ip_src, cid |-> n.client_id, tid |-> ntohl(n.txnID),
                 lock |-> n.lock, mode |-> n.mode]
<1>1. r \in S /\ n.timestamp \in Times
  BY DEF NodeInv
<1>2. n.timestamp = << "acquire", r.tid, r.lock >>
  BY DEF NodeInv
<1> QED  BY <1>1, <1>2

\* What is read from a packet for the client is the request.
LEMMA ReadIsRequest ==
    ASSUME NEW S, NEW p \in Header, ToClient(p, S)
    PROVE  /\ Read(p) \in S
           /\ GrantInv([request |-> Read(p), flow |-> Flow(p), payload |-> p.payload], S)
<1>1. Read(p) = RequestIn(p, p.dst)
  BY DEF Read, RequestIn
<1>2. Read(p) \in S
  BY <1>1 DEF ToClient
<1>3. Read(p).host = p.dst /\ Read(p).tid = ntohl(p.tid) /\ Read(p).lock = ntohl(p.lock)
  BY DEF Read
<1>4. p.dstPort = LK_PORT
  BY DEF Header
<1>5. Flow(p) = FlowToClient(Read(p))
  BY <1>3, <1>4 DEF FlowToClient, Flow, ToClient, TxnPort
<1>6. p.payload = << "acquire", Read(p).tid, Read(p).lock >>
  BY <1>3 DEF ToClient, Timed
<1> QED  BY <1>2, <1>5, <1>6 DEF GrantInv

\* Where a packet comes to a server depends on its lock only.
LEMMA SeenAtServer ==
    ASSUME NEW S, NEW p \in Header, ToServer(p, S)
    PROVE  SeenInv(<< ntohl(p.lock), Flow(p) >>)
<1>1. p.dstPort = LK_PORT
  BY DEF Header
<1>2. Flow(p) = FlowToServer(ntohl(p.lock))
  BY <1>1 DEF Flow, FlowToServer, ToServer, LockOf
<1> QED  BY <1>2 DEF SeenInv

\* The steps, one lemma for each actor.
LEMMA ClientStep ==
    ASSUME Inv, Client  PROVE Inv'
<1>1. ASSUME NEW r \in Requests, Acquire(r)  PROVE Inv'
  <2>1. sent' = sent \cup {r} /\ network' = network \cup {AcquireOf(r)}
        /\ UNCHANGED << entries, queued, granted, seen >>
    BY <1>1 DEF Acquire
  <2>2. sent' \subseteq Requests /\ sent \subseteq sent' /\ r \in sent'
    BY <2>1 DEF Inv
  <2>3. PacketInv(AcquireOf(r), sent')
    BY <2>2, WrittenToSwitch DEF AcquireOf
  <2>4. /\ \A p : PacketInv(p, sent) => PacketInv(p, sent')
        /\ \A e : EntryInv(e, sent) => EntryInv(e, sent')
        /\ \A n : NodeInv(n, sent) => NodeInv(n, sent')
        /\ \A g : GrantInv(g, sent) => GrantInv(g, sent')
    BY <2>2, Monotone
  <2> QED  BY <2>1, <2>2, <2>3, <2>4 DEF Inv
<1>2. ASSUME NEW p \in network, RxResend(p)  PROVE Inv'
  <2>1. PacketInv(p, sent) /\ sent \subseteq Requests
    BY DEF Inv
  <2>2. ToClient(p, sent) /\ p \in Header
    BY <1>2, <2>1, WhereItIs DEF RxResend, PacketInv
  <2>3. Read(p) \in sent
    BY <2>2, ReadIsRequest
  <2>4. PacketInv(AcquireOf(Read(p)), sent)
    BY <2>1, <2>3, WrittenToSwitch DEF AcquireOf
  <2> QED  BY <1>2, <2>4 DEF Inv, RxResend
<1>3. ASSUME NEW p \in network, RxGrant(p)  PROVE Inv'
  <2> DEFINE r == Read(p)
             q == Written("release", r.mode, r.lock, r.tid, r.host, << >>, Now, r.cid)
             g == [request |-> r, flow |-> Flow(p), payload |-> p.payload]
  <2>1. PacketInv(p, sent) /\ sent \subseteq Requests
    BY DEF Inv
  <2>2. ToClient(p, sent) /\ p \in Header
    BY <1>3, <2>1, WhereItIs DEF RxGrant, PacketInv
  <2>3. r \in sent /\ GrantInv(g, sent)
    BY <2>2, ReadIsRequest
  <2>4. PacketInv(q, sent)
    <3> HIDE DEF r
    <3> QED  BY <2>1, <2>3, WrittenToSwitch
  <2>5. /\ network' = (network \ {p}) \cup {q} /\ granted' = granted \cup {g}
        /\ UNCHANGED << entries, queued, sent, seen >>
    BY <1>3 DEF RxGrant
  <2> HIDE DEF q, g
  <2> QED  BY <2>3, <2>4, <2>5 DEF Inv
<1> QED  BY <1>1, <1>2, <1>3 DEF Client

LEMMA SwitchStep ==
    ASSUME Inv, Switch  PROVE Inv'
<1>1. PICK p \in network :
        \/ SwitchRejects(p) \/ SwitchAcquires(p) \/ SwitchReleases(p)
        \/ SwitchNotifies(p) \/ RecirculationEnds(p) \/ SwitchForwards(p)
  BY DEF Switch
<1>2. PacketInv(p, sent) /\ p \in Header /\ ToSwitch(p, sent)
  <2>1. AtSwitch(p)
    BY <1>1 DEF SwitchRejects, SwitchAcquires, SwitchReleases, SwitchNotifies,
                RecirculationEnds, SwitchForwards
  <2>2. PacketInv(p, sent)
    BY DEF Inv
  <2> QED  BY <2>1, <2>2, WhereItIs DEF PacketInv
<1>3. CASE SwitchRejects(p)
  <2> DEFINE q == Returned(p)
             reject == [q EXCEPT !.op = "reject"]
  <2>1. network' = (network \ {p}) \cup {reject} /\ p.op = "acquire"
        /\ UNCHANGED << entries, queued, sent, granted, seen >>
    BY <1>3 DEF SwitchRejects
  <2>2. q \in Header /\ ToClient(q, sent)
    BY <1>2, <2>1, ReturnedToClient
  <2>3. PacketInv(reject, sent)
    <3> HIDE DEF q
    <3> QED  BY <2>2, RejectedToClient
  <2> HIDE DEF q, reject
  <2> QED  BY <2>1, <2>3 DEF Inv
<1>4. CASE SwitchAcquires(p)
  <2>1. /\ entries' = entries \cup {Entry(p)} /\ p.op \in {"acquire", "push_back"}
        /\ network' \in {network \ {p}, (network \ {p}) \cup {Returned(p)}}
        /\ UNCHANGED << queued, sent, granted, seen >>
    BY <1>4 DEF SwitchAcquires
  <2>2. EntryInv(Entry(p), sent)
    BY <1>2, <2>1, EntryOfRequest
  <2>3. PacketInv(Returned(p), sent)
    BY <1>2, <2>1, ReturnedToClient DEF PacketInv
  <2> QED  BY <2>1, <2>2, <2>3 DEF Inv
<1>5. CASE SwitchReleases(p)
  <2>1. /\ entries' \subseteq entries /\ p.op = "release"
        /\ network' \in {network \ {p},
                         (network \ {p}) \cup {[p EXCEPT !.recirculated = TRUE]}}
        /\ UNCHANGED << queued, sent, granted, seen >>
    BY <1>5 DEF SwitchReleases
  <2>2. PacketInv([p EXCEPT !.recirculated = TRUE], sent)
    BY <1>2, <2>1, RecirculatedToSwitch
  <2> DEFINE q == [p EXCEPT !.recirculated = TRUE]
  <2> HIDE DEF q
  <2>3. network' \subseteq network \cup {q} /\ PacketInv(q, sent)
    BY <2>1, <2>2 DEF q
  <2> QED  BY <2>1, <2>3 DEF Inv
<1>6. CASE SwitchNotifies(p)
  <2>1. PICK e \in entries :
          /\ e.lock = LockOf(p)
          /\ network' \in {(network \ {p}) \cup {Notification(p, e)},
                           network \cup {Notification(p, e)}}
    BY <1>6 DEF SwitchNotifies
  <2>2. PacketInv(Notification(p, e), sent)
    BY <1>2, <2>1, NotificationToClient DEF Inv
  <2>3. UNCHANGED << entries, queued, sent, granted, seen >>
    BY <1>6 DEF SwitchNotifies
  <2> QED  BY <2>1, <2>2, <2>3 DEF Inv
<1>7. CASE RecirculationEnds(p)
  BY <1>7 DEF RecirculationEnds, Inv
<1>8. CASE SwitchForwards(p)
  <2>1. /\ network' = (network \ {p}) \cup {Forwarded(p)} /\ p.op \in {"acquire", "release"}
        /\ UNCHANGED << entries, queued, sent, granted, seen >>
    BY <1>8 DEF SwitchForwards
  <2>2. PacketInv(Forwarded(p), sent)
    BY <1>2, <2>1, ForwardedToServer
  <2> QED  BY <2>1, <2>2 DEF Inv
<1> QED  BY <1>1, <1>3, <1>4, <1>5, <1>6, <1>7, <1>8

\* A grant the server makes of the packet at hand, or of a node.
LEMMA GrantOfPacketToClient ==
    ASSUME NEW S \in SUBSET Requests, NEW p \in Header, ToServer(p, S), p.op = "acquire"
    PROVE  PacketInv(GrantOfPacket(p), S)
<1> DEFINE r == RequestIn(p, ip_from_eth(p))
<1>1. r \in S /\ Timed(p) /\ p.payload \in Times
  BY DEF ToServer, Header
<1>2. /\ r.host = ip_from_eth(p) /\ r.cid = p.cid /\ r.tid = ntohl(p.tid)
      /\ r.lock = ntohl(p.lock) /\ r.mode = p.mode
  BY DEF RequestIn
<1>3. p.payload = << "acquire", r.tid, r.lock >>
  BY <1>1, <1>2 DEF Timed
<1> HIDE DEF r
<1>4. PacketInv(Granted(r.mode, r.lock, r.tid, r.host, p.payload, r.cid), S)
  BY <1>1, <1>3, GrantToClient
<1> QED  BY <1>2, <1>4 DEF GrantOfPacket

LEMMA GrantOfNodeToClient ==
    ASSUME NEW S \in SUBSET Requests, NEW n, NodeInv(n, S)
    PROVE  PacketInv(GrantOfNode(n), S) /\ PacketInv(PushedBack(n), S)
<1>1. PICK r \in S :
        /\ r.host = n.ip_src /\ r.cid = n.client_id /\ r.tid = ntohl(n.txnID)
        /\ r.lock = n.lock /\ r.mode = n.mode
        /\ n.timestamp = << "acquire", r.tid, r.lock >> /\ n.timestamp \in Times
  BY RequestOfNode
<1>2. PacketInv(Granted(r.mode, r.lock, r.tid, r.host, n.timestamp, r.cid), S)
  BY <1>1, GrantToClient
<1>3. n.timestamp \in Times \cup {Now} /\ n.timestamp # Now
  <2>1. Len(n.timestamp) = 3 /\ Len(<< >>) = 0
    BY <1>1
  <2> QED  BY <1>1, <2>1 DEF Now
<1>4. PacketInv(Written("push_back", r.mode, r.lock, r.tid, r.host, << >>,
                        n.timestamp, r.cid), S)
  BY <1>1, <1>3, WrittenToSwitch
<1> QED  BY <1>1, <1>2, <1>4 DEF GrantOfNode, PushedBack

LEMMA ServerStep ==
    ASSUME Inv, Server  PROVE Inv'
<1>1. PICK p \in network : ServerAcquires(p) \/ ServerPushesBack(p) \/ ServerReleases(p)
  BY DEF Server
<1>2. PacketInv(p, sent) /\ p \in Header /\ ToServer(p, sent)
  <2>1. \E op, role : role # "none" /\ AtServer(p, op, role)
    <3>1. "primary" # "none" /\ "secondary" # "none"
      OBVIOUS
    <3> QED  BY <1>1, <3>1 DEF ServerAcquires, ServerPushesBack, ServerReleases
  <2>2. PacketInv(p, sent)
    BY DEF Inv
  <2> QED  BY <2>1, <2>2, WhereItIs DEF PacketInv
<1>3. sent \in SUBSET Requests
  BY DEF Inv
<1>4. SeenInv(<< ntohl(p.lock), Flow(p) >>)
  BY <1>2, SeenAtServer
<1>5. CASE ServerAcquires(p)
  <2>1. /\ network' \in {network \ {p}, (network \ {p}) \cup {GrantOfPacket(p)}}
        /\ p.op = "acquire"
        /\ queued' = queued \cup {Node(p)}
        /\ UNCHANGED << entries, sent, granted >>
        /\ seen' = seen \cup {<< ntohl(p.lock), Flow(p) >>}
    BY <1>5 DEF ServerAcquires, AtServer, Sees
  <2>2. PacketInv(GrantOfPacket(p), sent) /\ NodeInv(Node(p), sent)
    BY <1>2, <1>3, <2>1, GrantOfPacketToClient, NodeOfRequest
  <2> QED  BY <1>4, <2>1, <2>2 DEF Inv
<1>6. CASE ServerPushesBack(p)
  <2>1. PICK nodes \in SUBSET Nodes(p) :
          /\ queued' = queued \ nodes
          /\ network' = (network \ {p}) \cup {PushedBack(node) : node \in nodes}
    BY <1>6 DEF ServerPushesBack
  <2>2. \A node \in nodes : PacketInv(PushedBack(node), sent)
    BY <1>3, <2>1, GrantOfNodeToClient DEF Nodes, Inv
  <2>3. seen' = seen \cup {<< ntohl(p.lock), Flow(p) >>}
        /\ UNCHANGED << entries, sent, granted >>
    BY <1>6 DEF ServerPushesBack, Sees
  <2> QED  BY <1>4, <2>1, <2>2, <2>3 DEF Inv
<1>7. CASE ServerReleases(p)
  <2>1. PICK node \in Nodes(p) : \E waiting \in SUBSET (Nodes(p) \ {node}) :
          /\ queued' = queued \ {node}
          /\ network' = (network \ {p}) \cup {GrantOfNode(w) : w \in waiting}
    BY <1>7 DEF ServerReleases
  <2>2. PICK waiting \in SUBSET (Nodes(p) \ {node}) :
          /\ queued' = queued \ {node}
          /\ network' = (network \ {p}) \cup {GrantOfNode(w) : w \in waiting}
    BY <2>1
  <2>3. \A w \in waiting : PacketInv(GrantOfNode(w), sent)
    BY <1>3, <2>2, GrantOfNodeToClient DEF Nodes, Inv
  <2>4. seen' = seen \cup {<< ntohl(p.lock), Flow(p) >>}
        /\ UNCHANGED << entries, sent, granted >>
    BY <1>7 DEF ServerReleases, Sees
  <2> QED  BY <1>4, <2>2, <2>3, <2>4 DEF Inv
<1> QED  BY <1>1, <1>5, <1>6, <1>7

LEMMA Invariance == Spec => []Inv
<1>1. Inv /\ [Next]_vars => Inv'
  <2> SUFFICES ASSUME Inv, [Next]_vars  PROVE Inv'
    OBVIOUS
  <2>1. CASE UNCHANGED vars
    BY <2>1 DEF vars, Inv
  <2> QED  BY <2>1, ClientStep, SwitchStep, ServerStep DEF Next
<1> QED  BY InvInit, <1>1, PTL DEF Spec

-----------------------------------------------------------------------------
(* The theorems.                                                           *)

\* A client is granted what it asked for: the grant names the host, client,
\* transaction, lock and mode of a request that was sent.
THEOREM GrantCorrectness == Spec => []GrantIsOfRequest
<1>1. Inv => GrantIsOfRequest
  BY DEF Inv, GrantInv, GrantIsOfRequest
<1> QED  BY Invariance, <1>1, PTL

\* All grants of a transaction come to one RX queue of its host, for any number of
\* source ports.
THEOREM TransactionAffinity == Spec => []OneLcorePerTxn
<1>1. Inv => OneLcorePerTxn
  BY DEF Inv, GrantInv, FlowToClient, OneLcorePerTxn
<1> QED  BY Invariance, <1>1, PTL

\* All packets of a lock come to one RX queue of one server, however many servers
\* and source ports there are.
THEOREM LockAffinity == Spec => []OneLcorePerLock
<1>1. Inv => OneLcorePerLock
  BY DEF Inv, SeenInv, OneLcorePerLock
<1> QED  BY Invariance, <1>1, PTL

\* Every grant carries the time at which its own request was written.
THEOREM LatencyCorrectness == Spec => []LatencyOfRequest
<1>1. Inv => LatencyOfRequest
  BY DEF Inv, GrantInv, LatencyOfRequest
<1> QED  BY Invariance, <1>1, PTL
=============================================================================
