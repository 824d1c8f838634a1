--------------------------- MODULE Host_proofs ---------------------------
(***************************************************************************)
(* Proofs about a host, from its command line to its results, for any      *)
(* command line, any number of lcores and ports and any mask.              *)
(*                                                                         *)
(* The start-up: the lcores share out TX queues, RX queues and clients,    *)
(* each in a loop that never looks back. No TX queue goes to two lcores,   *)
(* every RX queue and every client goes to one, and a server knows how     *)
(* long the rings are the controller lays out.                             *)
(*                                                                         *)
(* The measurements: lcore 0 reads the counters and the samples of the     *)
(* others while these go on. The sums of its passes lie between the sums   *)
(* of what the counters were when a pass began and when it ended; and the  *)
(* loops that collect and sort lose and double no sample.                  *)
(***************************************************************************)
EXTENDS Host, Counting

-----------------------------------------------------------------------------
(* The TX queues the lcores were given.                                    *)

LcoreConf == [port : Nat, tx : Nat, rx : SUBSET Int]

LoopInv ==
    /\ host \in Hosts /\ n_lcores \in Nat \ {0} /\ RxQueuesPerLcore \in Nat
    /\ enabled_ports \in Seq(Nat) /\ lcore_conf \in Seq(LcoreConf)
    /\ loop \in [i : Nat, port : Nat, rx : Int, tx : Nat]

\* The ports found so far lie below the next one and are different.
PortsInv ==
    /\ pc \in {"parse", "pool", "ports"} =>
           \A m \in 1 .. n_ports : enabled_ports[m] < loop.i
    /\ \A m, n \in 1 .. n_ports : enabled_ports[m] = enabled_ports[n] => m = n

\* Before the loop over the lcores ...
BeforeInv ==
    pc \in {"parse", "pool", "ports", "lcores"} =>
        lcore_conf = << >> /\ loop.port = 0 /\ loop.tx = 0

\* ... and in it: the lcores done fill the ports before loop.port, and loop.tx
\* queues of this one.
AssignInv ==
    pc = "assign" =>
        /\ n_ports > 0 /\ TxQueuesPerPort \in Nat \ {0}
        /\ n_lcores = n_ports * TxQueuesPerPort
        /\ loop.tx < TxQueuesPerPort
        /\ Len(lcore_conf) = loop.port * TxQueuesPerPort + loop.tx

\* The port and TX queue of a lcore give back the lcore.
QueueInv ==
    \A lc \in 1 .. Len(lcore_conf) : \E k \in 0 .. (n_ports - 1) :
        /\ lcore_conf[lc].port = enabled_ports[k + 1]
        /\ lc - 1 = k * TxQueuesPerPort + lcore_conf[lc].tx

Inv == LoopInv /\ PortsInv /\ BeforeInv /\ AssignInv /\ QueueInv

-----------------------------------------------------------------------------
LEMMA InvInit == Init => Inv
<1> SUFFICES ASSUME Init  PROVE Inv
  OBVIOUS
<1>1. /\ host \in Hosts /\ enabled_ports = << >> /\ lcore_conf = << >> /\ pc = "parse"
      /\ loop = [i |-> 0, port |-> 0, rx |-> 0, tx |-> 0]
  BY DEF Init
<1>2. n_lcores \in Nat \ {0} /\ RxQueuesPerLcore \in Nat
  <2>1. host.lcores \in 1 .. 32
    BY <1>1, HostAssumption
  <2>2. RxQueuesPerLcore \in Nat
    BY SizesAssumption
  <2> QED  BY <2>1, <2>2 DEF n_lcores
<1>3. n_ports = 0 /\ Len(lcore_conf) = 0
  BY <1>1 DEF n_ports
<1>4. LoopInv
  BY <1>1, <1>2 DEF LoopInv
<1>5. PortsInv /\ QueueInv
  BY <1>3 DEF PortsInv, QueueInv
<1>6. BeforeInv /\ AssignInv
  BY <1>1 DEF BeforeInv, AssignInv
<1> QED  BY <1>4, <1>5, <1>6 DEF Inv

\* Steps that leave the loops and their results alone.
LEMMA ElsewhereStep ==
    ASSUME Inv, UNCHANGED << host, queues >>,
           \/ pc' = pc
           \/ pc = "parse" /\ pc' = "pool"
           \/ pc = "pool" /\ pc' = "ports"
           \/ pc = "ports" /\ pc' = "lcores"
           \/ pc' \notin {"parse", "pool", "ports", "lcores", "assign"}
    PROVE  Inv'
<1>1. UNCHANGED << host, enabled_ports, loop, lcore_conf, n_lcores, n_ports, TxQueuesPerPort >>
  BY DEF queues, n_lcores, n_ports, TxQueuesPerPort
<1>2. LoopInv'
  BY <1>1 DEF Inv, LoopInv
<1>3. PortsInv' /\ BeforeInv' /\ AssignInv'
  BY <1>1 DEF Inv, PortsInv, BeforeInv, AssignInv
<1>4. QueueInv'
  BY <1>1 DEF Inv, QueueInv
<1> QED  BY <1>2, <1>3, <1>4 DEF Inv

\* A port found is greater than those found before.
LEMMA EnablePortStep ==
    ASSUME Inv, EnablePort  PROVE Inv'
<1>1. /\ pc = "ports" /\ pc' = pc /\ lcore_conf' = lcore_conf /\ host' = host
      /\ loop' = [loop EXCEPT !.i = @ + 1]
      /\ enabled_ports' \in {Append(enabled_ports, loop.i), enabled_ports}
      /\ lcore_conf = << >>
  BY DEF EnablePort, Inv, BeforeInv
<1>2. /\ loop \in [i : Nat, port : Nat, rx : Int, tx : Nat]
      /\ enabled_ports \in Seq(Nat)
      /\ \A m \in 1 .. Len(enabled_ports) : enabled_ports[m] < loop.i
      /\ \A m, n \in 1 .. Len(enabled_ports) : enabled_ports[m] = enabled_ports[n] => m = n
  BY <1>1 DEF Inv, LoopInv, PortsInv, n_ports
<1>3. /\ loop' \in [i : Nat, port : Nat, rx : Int, tx : Nat]
      /\ loop'.i = loop.i + 1 /\ loop'.port = loop.port /\ loop'.tx = loop.tx
  BY <1>1, <1>2
<1>4. enabled_ports' \in Seq(Nat)
  <2>1. loop.i \in Nat
    BY <1>2
  <2>2. Append(enabled_ports, loop.i) \in Seq(Nat)
    BY <1>2, <2>1
  <2> QED  BY <1>1, <1>2, <2>2
<1>5. /\ \A m \in 1 .. Len(enabled_ports') : enabled_ports'[m] < loop'.i
      /\ \A m, n \in 1 .. Len(enabled_ports') : enabled_ports'[m] = enabled_ports'[n] => m = n
  <2>1. CASE enabled_ports' = enabled_ports
    <3>1. \A m \in 1 .. Len(enabled_ports) : enabled_ports[m] \in Nat
      BY <1>2
    <3> QED  BY <1>2, <1>3, <2>1, <3>1
  <2>2. CASE enabled_ports' = Append(enabled_ports, loop.i)
    <3>1. /\ Len(enabled_ports') = Len(enabled_ports) + 1 /\ Len(enabled_ports) \in Nat
          /\ \A m \in 1 .. Len(enabled_ports) :
                enabled_ports'[m] = enabled_ports[m] /\ enabled_ports[m] \in Nat
          /\ enabled_ports'[Len(enabled_ports) + 1] = loop.i
      BY <1>2, <2>2
    <3>2. \A m \in 1 .. Len(enabled_ports') :
            m \in 1 .. Len(enabled_ports) \/ m = Len(enabled_ports) + 1
      BY <3>1
    <3>3. loop.i \in Nat /\ loop'.i = loop.i + 1
      BY <1>2, <1>3
    <3>4. ASSUME NEW m \in 1 .. Len(enabled_ports')
          PROVE  /\ enabled_ports'[m] <= loop.i /\ enabled_ports'[m] \in Nat
                 /\ enabled_ports'[m] = loop.i <=> m = Len(enabled_ports) + 1
                 /\ m # Len(enabled_ports) + 1 =>
                        m \in 1 .. Len(enabled_ports) /\ enabled_ports'[m] = enabled_ports[m]
      <4>1. CASE m \in 1 .. Len(enabled_ports)
        BY <1>2, <3>1, <3>3, <4>1
      <4>2. CASE m = Len(enabled_ports) + 1
        BY <3>1, <3>3, <4>2
      <4> QED  BY <3>2, <4>1, <4>2
    <3>5. \A m, n \in 1 .. Len(enabled_ports') : enabled_ports'[m] = enabled_ports'[n] => m = n
      BY <1>2, <3>4
    <3>6. \A m \in 1 .. Len(enabled_ports') : enabled_ports'[m] < loop'.i
      BY <3>3, <3>4
    <3> QED  BY <3>5, <3>6
  <2> QED  BY <1>1, <2>1, <2>2
<1>6. n_lcores' = n_lcores
  BY <1>1 DEF n_lcores
<1>7. LoopInv'
  BY <1>1, <1>3, <1>4, <1>6 DEF Inv, LoopInv
<1>8. PortsInv'
  BY <1>5 DEF PortsInv, n_ports
<1>9. BeforeInv' /\ AssignInv'
  BY <1>1, <1>3 DEF Inv, BeforeInv, AssignInv
<1>10. QueueInv'
  BY <1>1 DEF QueueInv
<1> QED  BY <1>7, <1>8, <1>9, <1>10 DEF Inv

\* nc_init goes on only when the ports share out the lcores evenly.
LEMMA CheckQueuesStep ==
    ASSUME Inv, CheckQueues  PROVE Inv'
<1>1. /\ pc = "lcores" /\ UNCHANGED << host, enabled_ports, loop, lcore_conf >>
      /\ pc' = "assign" => n_ports # 0 /\ n_lcores % n_ports = 0
      /\ pc' \in {"assign", "crashed", "exited"}
  BY DEF CheckQueues, queues
<1>2. UNCHANGED << n_lcores, n_ports, TxQueuesPerPort >>
  BY <1>1 DEF n_lcores, n_ports, TxQueuesPerPort
<1>3. /\ n_lcores \in Nat \ {0} /\ n_ports \in Nat
      /\ lcore_conf = << >> /\ loop.port = 0 /\ loop.tx = 0
  BY <1>1 DEF Inv, LoopInv, BeforeInv, n_ports
<1>4. ASSUME n_ports # 0, n_lcores % n_ports = 0
      PROVE  /\ TxQueuesPerPort \in Nat \ {0} /\ n_lcores = n_ports * TxQueuesPerPort
  <2> DEFINE L == n_lcores
             P == n_ports
             T == L \div P
  <2>1. L \in Nat \ {0} /\ P \in Nat \ {0} /\ L % P = 0
    BY <1>3, <1>4
  <2> HIDE DEF L, P
  <2>2. T \in Nat /\ L = P * T + (L % P)
    BY <2>1
  <2>3. T # 0 /\ L = P * T
    BY <2>1, <2>2
  <2> QED  BY <2>2, <2>3 DEF TxQueuesPerPort, L, P
<1>5. AssignInv'
  BY <1>1, <1>2, <1>3, <1>4 DEF AssignInv
<1>6. LoopInv' /\ PortsInv' /\ BeforeInv'
  BY <1>1, <1>2 DEF Inv, LoopInv, PortsInv, BeforeInv
<1>7. QueueInv'
  BY <1>1, <1>2 DEF Inv, QueueInv
<1> QED  BY <1>5, <1>6, <1>7 DEF Inv

\* Arithmetic of the two loop variables.
LEMMA Product ==
    ASSUME NEW a \in Nat, NEW b \in Nat, NEW T \in Nat, a >= b  PROVE a * T >= b * T
<1>1. PICK d \in Nat : a = b + d
  <2>1. a - b \in Nat /\ a = b + (a - b)
    OBVIOUS
  <2> QED  BY <2>1
<1>2. (b + d) * T = b * T + d * T /\ b * T \in Nat /\ d * T \in Nat
  OBVIOUS
<1> QED  BY <1>1, <1>2

\* Where one port ends and the next begins.
LEMMA LastQueue ==
    ASSUME NEW T \in Nat \ {0}, NEW x \in 0 .. (T - 1)
    PROVE  (x + 1) % T = 0 <=> x + 1 = T
<1> DEFINE d == (x + 1) \div T
           m == (x + 1) % T
<1>1. d \in Nat /\ m \in 0 .. (T - 1) /\ x + 1 = T * d + m
  OBVIOUS
<1> HIDE DEF d
<1>2. m = 0 => x + 1 = T
  <2> SUFFICES ASSUME m = 0  PROVE x + 1 = T
    OBVIOUS
  <2>1. d # 0
    BY <1>1
  <2>2. d * T >= 1 * T /\ d * T = T * d
    BY <1>1, <2>1, Product
  <2> QED  BY <1>1, <2>2
<1>3. x + 1 = T => m = 0
  <2> SUFFICES ASSUME x + 1 = T, m # 0  PROVE FALSE
    OBVIOUS
  <2> HIDE DEF m
  <2>1. d = 0 \/ d >= 1
    BY <1>1
  <2>2. CASE d = 0
    BY <1>1, <2>2
  <2>3. CASE d >= 1
    <3>1. d * T >= 1 * T /\ d * T = T * d
      BY <1>1, <2>3, Product
    <3> QED  BY <1>1, <3>1
  <2> QED  BY <2>1, <2>2, <2>3
<1> QED  BY <1>2, <1>3

LEMMA NextPort ==
    ASSUME NEW q \in [i : Nat, port : Nat, rx : Int, tx : Nat],
           NEW z, z = 0, NEW p, p = q.port + 1
    PROVE  LET next == [q EXCEPT !.port = p, !.rx = z, !.tx = z]
           IN  /\ next \in [i : Nat, port : Nat, rx : Int, tx : Nat]
               /\ next.port = p /\ next.tx = z
<1>1. p \in Nat /\ z \in Int /\ z \in Nat
  OBVIOUS
<1> QED  BY <1>1

LEMMA NextQueue ==
    ASSUME NEW q \in [i : Nat, port : Nat, rx : Int, tx : Nat], NEW n \in Nat
    PROVE  LET next == [q EXCEPT !.rx = q.rx + n, !.tx = q.tx + 1]
           IN  /\ next \in [i : Nat, port : Nat, rx : Int, tx : Nat]
               /\ next.port = q.port /\ next.tx = q.tx + 1
<1>1. q.rx + n \in Int /\ q.tx + 1 \in Nat
  OBVIOUS
<1> QED  BY <1>1

\* The next lcore gets the next TX queue, of the next port when those of this one
\* are used up.
LEMMA AssignLcoreStep ==
    ASSUME Inv, AssignLcore  PROVE Inv'
<1> DEFINE T == TxQueuesPerPort
           n == IF Receives(Len(lcore_conf)) THEN RxQueuesPerLcore ELSE 0
           new == [port |-> enabled_ports[loop.port + 1], tx |-> loop.tx,
                   rx |-> loop.rx .. (loop.rx + n - 1)]
<1>1. /\ pc = "assign" /\ pc' = pc /\ UNCHANGED << host, enabled_ports >>
      /\ Len(lcore_conf) < n_lcores
      /\ lcore_conf' = Append(lcore_conf, new) /\ loop' = Advance(n)
  BY DEF AssignLcore
<1>2. UNCHANGED << n_lcores, n_ports, T >>
  BY <1>1 DEF n_lcores, n_ports, TxQueuesPerPort
<1>3. /\ n_lcores \in Nat \ {0} /\ n \in Nat /\ n_ports \in Nat
      /\ enabled_ports \in Seq(Nat) /\ lcore_conf \in Seq(LcoreConf)
      /\ loop \in [i : Nat, port : Nat, rx : Int, tx : Nat]
      /\ Len(lcore_conf) \in Nat
  BY DEF Inv, LoopInv, n_ports
<1>4. /\ n_ports > 0 /\ T \in Nat \ {0} /\ n_lcores = n_ports * T
      /\ loop.tx < T /\ Len(lcore_conf) = loop.port * T + loop.tx
  BY <1>1 DEF Inv, AssignInv
<1>5. loop.port \in Nat /\ loop.tx \in Nat /\ loop.rx \in Int /\ loop.i \in Nat
  BY <1>3
<1> HIDE DEF T, n
<1>6. loop.port \in 0 .. (n_ports - 1)
  <2> SUFFICES ASSUME loop.port >= n_ports  PROVE FALSE
    BY <1>3, <1>5
  <2>1. loop.port * T >= n_ports * T
    BY <1>3, <1>4, <1>5, Product
  <2>2. loop.port * T \in Nat /\ n_ports * T \in Nat
    BY <1>3, <1>4, <1>5
  <2> QED  BY <1>1, <1>4, <1>5, <2>1, <2>2
<1>7. new \in LcoreConf
  <2>1. enabled_ports[loop.port + 1] \in Nat
    BY <1>3, <1>5, <1>6 DEF n_ports
  <2>2. loop.rx .. (loop.rx + n - 1) \in SUBSET Int
    BY <1>3, <1>5
  <2> QED  BY <1>5, <2>1, <2>2 DEF LcoreConf
<1>8. /\ new.port = enabled_ports[loop.port + 1] /\ new.tx = loop.tx
  OBVIOUS
<1> HIDE DEF new
<1>9. /\ lcore_conf' \in Seq(LcoreConf) /\ Len(lcore_conf') = Len(lcore_conf) + 1
      /\ \A lc \in 1 .. Len(lcore_conf) : lcore_conf'[lc] = lcore_conf[lc]
      /\ lcore_conf'[Len(lcore_conf) + 1] = new
  BY <1>1, <1>3, <1>7
<1>10. /\ loop' \in [i : Nat, port : Nat, rx : Int, tx : Nat]
       /\ loop'.tx < T
       /\ Len(lcore_conf') = loop'.port * T + loop'.tx
  <2>1. CASE (loop.tx + 1) % T = 0
    <3>1. loop' = [loop EXCEPT !.port = @ + 1, !.rx = 0, !.tx = 0]
      BY <1>1, <2>1 DEF Advance, T
    <3>2. /\ loop' \in [i : Nat, port : Nat, rx : Int, tx : Nat]
          /\ loop'.port = loop.port + 1 /\ loop'.tx = 0
      BY <1>3, <3>1, NextPort
    <3>3. loop.tx + 1 = T
      BY SMTT(30), <1>4, <1>5, <2>1, LastQueue
    <3>4. (loop.port + 1) * T = loop.port * T + T /\ loop.port * T \in Nat
      BY <1>4, <1>5
    <3>5. Len(lcore_conf') = (loop.port + 1) * T
      <4>1. loop.port * T + loop.tx + 1 = loop.port * T + T
        BY ONLY <1>5, <3>3, <3>4
      <4>2. Len(lcore_conf') = loop.port * T + loop.tx + 1
        BY ONLY <1>4, <1>5, <1>9, <3>4
      <4> QED  BY ONLY <3>4, <4>1, <4>2
    <3>6. Len(lcore_conf') = loop'.port * T + loop'.tx
      <4>1. (loop.port + 1) * T \in Nat
        BY <1>4, <1>5
      <4> QED  BY <3>2, <3>5, <4>1
    <3> QED  BY <1>4, <3>2, <3>6
  <2>2. CASE (loop.tx + 1) % T # 0
    <3>1. loop' = [loop EXCEPT !.rx = @ + n, !.tx = @ + 1]
      BY <1>1, <2>2 DEF Advance, T
    <3>2. /\ loop' \in [i : Nat, port : Nat, rx : Int, tx : Nat]
          /\ loop'.port = loop.port /\ loop'.tx = loop.tx + 1
      BY <1>3, <3>1, NextQueue
    <3>3. loop.tx + 1 < T
      BY <1>4, <1>5, <2>2, LastQueue
    <3>4. loop.port * T \in Nat
      BY <1>4, <1>5
    <3> QED  BY SMTT(30), <1>4, <1>5, <1>9, <3>2, <3>3, <3>4
  <2> QED  BY <2>1, <2>2
<1>11. LoopInv'
  BY <1>1, <1>2, <1>9, <1>10 DEF Inv, LoopInv
<1>12. PortsInv' /\ BeforeInv'
  BY <1>1, <1>2 DEF Inv, PortsInv, BeforeInv
<1>13. AssignInv'
  BY <1>1, <1>2, <1>4, <1>10 DEF AssignInv, T
<1>14. QueueInv'
  <2>1. ASSUME NEW lc \in 1 .. Len(lcore_conf')
        PROVE  \E k \in 0 .. (n_ports - 1) :
                 /\ lcore_conf'[lc].port = enabled_ports[k + 1]
                 /\ lc - 1 = k * T + lcore_conf'[lc].tx
    <3>1. CASE lc \in 1 .. Len(lcore_conf)
      BY <1>9, <3>1 DEF Inv, QueueInv, T
    <3>2. CASE lc = Len(lcore_conf) + 1
      <4>1. lc - 1 = loop.port * T + lcore_conf'[lc].tx
        BY SMTT(30), <1>3, <1>4, <1>8, <1>9, <3>2
      <4> QED  BY <1>6, <1>8, <1>9, <3>2, <4>1
    <3> QED  BY <1>3, <1>9, <3>1, <3>2
  <2> QED  BY <1>1, <1>2, <2>1 DEF QueueInv, T
<1> QED  BY <1>11, <1>12, <1>13, <1>14 DEF Inv

\* The TX queues, over all runs.
LEMMA Invariance == Spec => []Inv
<1>1. Inv /\ [Next]_vars => Inv'
  <2> SUFFICES ASSUME Inv, [Next]_vars  PROVE Inv'
    OBVIOUS
  <2>1. CASE UNCHANGED vars
    BY <2>1, ElsewhereStep DEF vars, queues
  <2>2. CASE ParseOption
    BY <2>2, ElsewhereStep DEF ParseOption
  <2>3. CASE ParseEnd
    BY <2>3, ElsewhereStep DEF ParseEnd
  <2>4. CASE CreatePool
    BY <2>4, ElsewhereStep DEF CreatePool
  <2>5. CASE PortsDone
    BY <2>5, ElsewhereStep DEF PortsDone
  <2>6. CASE ConfigurePorts
    BY <2>6, ElsewhereStep DEF ConfigurePorts
  <2>7. CASE CheckLinks
    BY <2>7, ElsewhereStep DEF CheckLinks, Poll, LinksChecked
  <2>8. CASE InitZipf \/ InitAddress \/ InitFailureAct \/ InitBatchMap
    <3>1. UNCHANGED << host, queues >>
          /\ pc' \notin {"parse", "pool", "ports", "lcores", "assign"}
      BY <2>8 DEF InitZipf, InitAddress, InitFailureAct, InitBatchMap
    <3> QED  BY <3>1, ElsewhereStep
  <2>9. CASE AssignClients \/ LaunchClient
    <3>1. /\ UNCHANGED << host, queues >>
          /\ pc' = pc \/ pc' \notin {"parse", "pool", "ports", "lcores", "assign"}
      BY <2>9 DEF AssignClients, LaunchClient
    <3> QED  BY <3>1, ElsewhereStep
  <2>10. CASE get_queue_len_in_switch
    <3>1. UNCHANGED << host, queues >>
          /\ pc' \notin {"parse", "pool", "ports", "lcores", "assign"}
      BY <2>10 DEF get_queue_len_in_switch
    <3> QED  BY <3>1, ElsewhereStep
  <2> QED  BY <2>1, <2>2, <2>3, <2>4, <2>5, <2>6, <2>7, <2>8, <2>9, <2>10,
              EnablePortStep, CheckQueuesStep, AssignLcoreStep DEF Next
<1> QED  BY InvInit, <1>1, PTL DEF Spec

-----------------------------------------------------------------------------
\* No two lcores send on the same TX queue of a port, whatever lcores, ports and
\* mask the host was started with.
THEOREM QueuesOfTheirOwn == Spec => []TxQueuesApart
<1>1. Inv => TxQueuesApart
  <2> SUFFICES ASSUME Inv, NEW lc \in 1 .. Len(lcore_conf), NEW j \in 1 .. Len(lcore_conf),
                      lcore_conf[lc].port = lcore_conf[j].port,
                      lcore_conf[lc].tx = lcore_conf[j].tx
               PROVE  lc = j
    BY DEF TxQueuesApart
  <2>1. PICK k \in 0 .. (n_ports - 1) :
          /\ lcore_conf[lc].port = enabled_ports[k + 1]
          /\ lc - 1 = k * TxQueuesPerPort + lcore_conf[lc].tx
    BY DEF Inv, QueueInv
  <2>2. PICK m \in 0 .. (n_ports - 1) :
          /\ lcore_conf[j].port = enabled_ports[m + 1]
          /\ j - 1 = m * TxQueuesPerPort + lcore_conf[j].tx
    BY DEF Inv, QueueInv
  <2>3. n_ports \in Nat
    BY DEF Inv, LoopInv, n_ports
  <2>4. k + 1 = m + 1
    <3>1. k + 1 \in 1 .. n_ports /\ m + 1 \in 1 .. n_ports
      BY <2>3
    <3>2. enabled_ports[k + 1] = enabled_ports[m + 1]
      BY <2>1, <2>2
    <3> QED  BY <3>1, <3>2 DEF Inv, PortsInv
  <2>5. lc - 1 = j - 1
    BY <2>1, <2>2, <2>4
  <2> QED  BY <2>5
<1> QED  BY Invariance, <1>1, PTL

-----------------------------------------------------------------------------
(* The options that were parsed.                                           *)

OptionsOf(h) == {h.argv[n] : n \in DOMAIN h.argv}

\* What main computes with is a number, and positive where the parser asks for it.
ConfInv ==
    /\ host \in Hosts /\ argv \in Seq(OptionsOf(host))
    /\ {"client_num", "n_rcv_cores", "machine_id"} \subseteq DOMAIN conf
    /\ conf.client_num \in Nat \ {0}
    /\ conf.n_rcv_cores \in Nat
    /\ conf.machine_id \in Nat

\* The options of a host, as a sequence of options.
LEMMA OptionsOfHost ==
    ASSUME NEW h \in Hosts
    PROVE  /\ h.argv \in Seq(OptionsOf(h))
           /\ \A o \in OptionsOf(h) :
                o.opt \in DOMAIN Positive => o.arg \in Int
<1> DEFINE k == Len(h.argv)
           S == OptionsOf(h)
<1>1. /\ k \in Nat
      /\ h.argv = [n \in 1 .. k |-> h.argv[n]]
      /\ \A n \in 1 .. k : h.argv[n].opt \in DOMAIN Positive => h.argv[n].arg \in Int
  BY OptionsAssumption
<1> HIDE DEF k
<1>2. DOMAIN h.argv = 1 .. k
  BY <1>1
<1>3. \A n \in 1 .. k : h.argv[n] \in S
  BY <1>2 DEF OptionsOf
<1> HIDE DEF S
<1>4. [n \in 1 .. k |-> h.argv[n]] \in [1 .. k -> S]
  BY <1>3
<1>5. h.argv \in Seq(S)
  BY <1>1, <1>4
<1>6. \A o \in S : o.opt \in DOMAIN Positive => o.arg \in Int
  BY <1>1, <1>2 DEF S, OptionsOf
<1> QED  BY <1>5, <1>6 DEF S

\* Each of these variables is set by one option only.
LEMMA FieldsSet ==
    ASSUME NEW o, Known(o)
    PROVE  /\ Field(o) = "client_num" => o.opt = "e"
           /\ Field(o) = "n_rcv_cores" => o.opt = "r"
           /\ Field(o) = "machine_id" => o.opt = "n"
<1>1. CASE o.opt \in DOMAIN Positive
  <2>1. Field(o) = Positive[o.opt]
    BY <1>1 DEF Field, Positive, NonNegative, AnyNumber, Letter
  <2> QED  BY <1>1, <2>1 DEF Positive
<1>2. CASE o.opt \in DOMAIN NonNegative
  <2>1. Field(o) = NonNegative[o.opt]
    BY <1>2 DEF Field, Positive, NonNegative, AnyNumber, Letter
  <2> QED  BY <1>2, <2>1 DEF NonNegative
<1>3. CASE o.opt \in DOMAIN AnyNumber
  <2>1. Field(o) = AnyNumber[o.opt]
    BY <1>3 DEF Field, Positive, NonNegative, AnyNumber, Letter
  <2> QED  BY <1>3, <2>1 DEF AnyNumber
<1>4. CASE o.opt \in DOMAIN Letter
  <2>1. Field(o) = Letter[o.opt]
    BY <1>4 DEF Field, Positive, NonNegative, AnyNumber, Letter
  <2> QED  BY <1>4, <2>1 DEF Letter
<1>5. CASE o.opt = "t"
  BY <1>5 DEF Field, Positive, NonNegative, AnyNumber, Letter
<1>6. CASE o.opt = "P"
  BY <1>6 DEF Field, Positive, NonNegative, AnyNumber, Letter
<1> QED  BY <1>1, <1>2, <1>3, <1>4, <1>5, <1>6 DEF Known

\* An accepted option leaves numbers.
LEMMA ParseOptionConf ==
    ASSUME ConfInv, ParseOption  PROVE ConfInv'
<1> DEFINE o == Head(argv)
           f == Field(o)
           v == NewValue(o)
<1>1. /\ argv # << >> /\ argv \in Seq(OptionsOf(host)) /\ host \in Hosts /\ host' = host
      /\ pc = "parse"
  BY DEF ConfInv, ParseOption
<1>2. o \in OptionsOf(host) /\ Tail(argv) \in Seq(OptionsOf(host))
  BY <1>1
<1>3. \/ Accepted(o) /\ conf' = [conf EXCEPT ![f] = v] /\ argv' = Tail(argv)
      \/ conf' = conf /\ argv' = argv
  BY DEF ParseOption
<1>4. CASE conf' = conf /\ argv' = argv
  BY <1>1, <1>4 DEF ConfInv
<1>5. CASE Accepted(o) /\ conf' = [conf EXCEPT ![f] = v] /\ argv' = Tail(argv)
  <2>1. Known(o)
    BY <1>5 DEF Accepted
  <2>2. ASSUME o.opt \in {"e", "r", "n"}  PROVE v \in Nat \ {0}
    <3>1. o.opt \in DOMAIN Positive
      BY <2>2 DEF Positive
    <3>2. o.arg \in Int /\ o.arg > 0
      BY <1>1, <1>2, <1>5, <3>1, OptionsOfHost DEF Accepted
    <3>3. v = o.arg
      BY <2>2 DEF NewValue, Letter
    <3> QED  BY <3>2, <3>3
  <2>3. f \in {"client_num", "n_rcv_cores", "machine_id"} => v \in Nat \ {0}
    BY <2>1, <2>2, FieldsSet
  <2> HIDE DEF f, v, o
  <2>4. DOMAIN conf' = DOMAIN conf
    BY <1>5
  <2>5. \A g \in DOMAIN conf : conf'[g] = IF g = f THEN v ELSE conf[g]
    BY <1>5
  <2>6. /\ {"client_num", "n_rcv_cores", "machine_id"} \subseteq DOMAIN conf
        /\ conf["client_num"] \in Nat \ {0} /\ conf["n_rcv_cores"] \in Nat
        /\ conf["machine_id"] \in Nat
    BY DEF ConfInv
  <2>7. /\ conf'["client_num"] \in Nat \ {0} /\ conf'["n_rcv_cores"] \in Nat
        /\ conf'["machine_id"] \in Nat
    BY <2>3, <2>5, <2>6
  <2> QED  BY <1>1, <1>2, <1>5, <2>4, <2>6, <2>7 DEF ConfInv
<1> QED  BY <1>3, <1>4, <1>5

LEMMA ConfInit == Init => ConfInv
<1> SUFFICES ASSUME Init  PROVE ConfInv
  OBVIOUS
<1>1. host \in Hosts /\ argv = host.argv /\ conf = Defaults
  BY DEF Init
<1>2. argv \in Seq(OptionsOf(host))
  BY <1>1, OptionsOfHost
<1>3. /\ {"client_num", "n_rcv_cores", "machine_id"} \subseteq DOMAIN Defaults
      /\ Defaults.client_num \in Nat \ {0} /\ Defaults.n_rcv_cores \in Nat
      /\ Defaults.machine_id \in Nat
  BY DEF Defaults
<1> QED  BY <1>1, <1>2, <1>3 DEF ConfInv

-----------------------------------------------------------------------------
(* The clients the transmit lcores were given.                             *)

ClientsInv ==
    /\ pc \notin {"clients", "running", "undefined"} => clients = << >>
    /\ pc \in {"batch", "clients", "running"} => conf.client_num <= MaxClients
    /\ pc = "running" /\ host.program = "client" => Len(clients) >= TxLcores
    /\ clients \in Seq([s : Int, e : Int])
    /\ clients = << >> \/ Len(clients) <= TxLcores
    /\ \A k \in 1 .. Len(clients) :
         /\ clients[k] = ClientRange(k - 1)
         /\ ~ (clients[k].s <= clients[k].e /\ clients[k].e >= MaxClients)

TracesInv ==
    /\ DOMAIN traces = 0 .. (MaxClients - 1)
    /\ \A k \in 1 .. Len(clients) : \A c \in clients[k].s .. clients[k].e :
         c \in DOMAIN traces => traces[c] = TraceOf(conf.machine_id, c)

GivenInv == ConfInv /\ ClientsInv /\ TracesInv

\* The traces are named by the options alone.
LEMMA SameTrace ==
    ASSUME UNCHANGED << host, conf >>, NEW m, NEW c
    PROVE  TraceOf(m, c)' = TraceOf(m, c)
<1>1. TxLcores' = TxLcores
  BY DEF TxLcores, n_lcores, n_rcv_cores
<1>2. TpccTrace(m, c, 25)' = TpccTrace(m, c, 25) /\ TpccTrace(m, c, 9)' = TpccTrace(m, c, 9)
  BY <1>1 DEF TpccTrace
<1> QED  BY Zenon, <1>2 DEF TraceOf

LEMMA InitZipfSteps ==
    ASSUME InitZipf
    PROVE  /\ pc = "zipf" /\ UNCHANGED << host, parsed, queues, polls, tables >>
           /\ pc' \in {"crashed", "address", "layout"}
           /\ pc' = "address" => host.program = "client"
<1> DEFINE Z == conf.zipf_alpha \in 100 .. 3999
<1>1. /\ pc = "zipf" /\ UNCHANGED << host, parsed, queues, polls, tables >>
      /\ pc' = IF Z THEN "crashed"
               ELSE IF host.program = "client" THEN "address" ELSE "layout"
  BY DEF InitZipf
<1> HIDE DEF Z
<1> QED  BY <1>1

\* Steps that give no client to an lcore.
LEMMA NothingGiven ==
    ASSUME GivenInv, ConfInv', UNCHANGED << clients, traces, host >>,
           conf' = conf \/ clients = << >>,
           \/ pc' = pc
           \/ pc' \notin {"batch", "clients", "running"}
           \/ pc = "failure_act" /\ conf.client_num <= MaxClients /\ pc' = "batch"
           \/ pc = "batch" /\ pc' = "clients"
           \/ pc = "batch" /\ pc' = "running" /\ host.program # "client"
           \/ pc = "clients" /\ Len(clients) >= TxLcores /\ pc' = "running",
           clients = << >> \/ pc' \in {"clients", "running", "undefined"},
           pc' \in {"batch", "clients", "running"} => conf' = conf
    PROVE  GivenInv'
<1>1. CASE conf' = conf
  <2>1. TxLcores' = TxLcores
    BY <1>1 DEF TxLcores, n_lcores, n_rcv_cores
  <2>2. \A k : ClientRange(k)' = ClientRange(k)
    BY <1>1, <2>1 DEF ClientRange
  <2>3. ClientsInv'
    BY <1>1, <2>1, <2>2 DEF GivenInv, ClientsInv
  <2>4. \A c : TraceOf(conf.machine_id, c)' = TraceOf(conf.machine_id, c)
    <3>1. PICK m : m = conf.machine_id
      OBVIOUS
    <3>2. \A c : TraceOf(m, c)' = TraceOf(m, c)
      BY <1>1, SameTrace
    <3>3. conf'.machine_id = m
      BY <1>1, <3>1
    <3> QED  BY <3>1, <3>2, <3>3 DEF TraceOf, TpccTrace
  <2>5. TracesInv'
    BY <1>1, <2>4 DEF GivenInv, TracesInv
  <2> QED  BY <2>3, <2>5 DEF GivenInv
<1>2. CASE conf' # conf
  <2> DEFINE q == << >>
  <2>1. clients' = q
    BY <1>2
  <2>3. Len(q) = 0 /\ q \in Seq([s : Int, e : Int])
    OBVIOUS
  <2>2. pc' \notin {"batch", "clients", "running"}
    BY <1>2
  <2> HIDE DEF q
  <2>4. \A k \in 1 .. Len(clients') : FALSE
    BY <2>1, <2>3
  <2> QED  BY <2>1, <2>2, <2>3, <2>4 DEF GivenInv, ClientsInv, TracesInv
<1> QED  BY <1>1, <1>2

\* The next lcore is given the clients of its range.
LEMMA AssignClientsStep ==
    ASSUME GivenInv, AssignClients  PROVE GivenInv'
<1> DEFINE range == ClientRange(Len(clients))
<1>1. /\ pc = "clients" /\ Len(clients) < TxLcores /\ UNCHANGED << host, argv, conf >>
      /\ \/ /\ range.s <= range.e /\ range.e >= MaxClients
            /\ pc' = "undefined" /\ UNCHANGED << clients, traces >>
         \/ /\ ~ (range.s <= range.e /\ range.e >= MaxClients)
            /\ clients' = Append(clients, range)
            /\ traces' = [c \in DOMAIN traces |-> IF c \in range.s .. range.e
                                                  THEN TraceOf(conf.machine_id, c) ELSE traces[c]]
            /\ UNCHANGED pc
  BY DEF AssignClients, parsed
<1>2. ConfInv'
  BY <1>1 DEF GivenInv, ConfInv
<1>3. CASE pc' = "undefined" /\ UNCHANGED << clients, traces >>
  BY <1>1, <1>2, <1>3, NothingGiven
<1>4. CASE /\ ~ (range.s <= range.e /\ range.e >= MaxClients)
           /\ clients' = Append(clients, range)
           /\ traces' = [c \in DOMAIN traces |-> IF c \in range.s .. range.e
                                                 THEN TraceOf(conf.machine_id, c) ELSE traces[c]]
           /\ UNCHANGED pc
  <2>1. TxLcores' = TxLcores /\ TxLcores \in Int
    <3>1. host \in Hosts /\ conf.n_rcv_cores \in Nat
      BY DEF GivenInv, ConfInv
    <3>2. host.lcores \in 1 .. 32
      BY <3>1, HostAssumption
    <3>3. host.lcores \in Nat
      BY <3>2
    <3> QED  BY SMTT(30), <1>1, <3>1, <3>3 DEF TxLcores, n_lcores, n_rcv_cores
  <2>2. \A k : ClientRange(k)' = ClientRange(k)
    BY <1>1, <2>1 DEF ClientRange
  <2>3. range \in [s : Int, e : Int]
    <3> DEFINE a == Len(clients) * conf.client_num
               b == (Len(clients) + 1) * conf.client_num
               T == TxLcores
    <3>1. a \in Nat /\ b \in Nat /\ T \in Nat /\ T > 0
      BY <1>1, <2>1 DEF GivenInv, ConfInv, ClientsInv
    <3>2. range = [s |-> UInt8(a \div T), e |-> UInt8(b \div T - 1)]
      BY DEF ClientRange
    <3> HIDE DEF a, b, T, range
    <3>3. a \div T \in Nat /\ b \div T \in Nat
      BY <3>1, ModDef
    <3>4. UInt8(a \div T) \in Int /\ UInt8(b \div T - 1) \in Int
      BY <3>3 DEF UInt8
    <3> QED  BY <3>2, <3>4
  <2>4. clients \in Seq([s : Int, e : Int]) /\ Len(clients) \in Nat
    BY DEF GivenInv, ClientsInv
  <2>5. /\ clients' \in Seq([s : Int, e : Int]) /\ Len(clients') = Len(clients) + 1
        /\ \A k \in 1 .. Len(clients) : clients'[k] = clients[k]
        /\ clients'[Len(clients) + 1] = range
    BY <1>4, <2>3, <2>4
  <2>6. \A k \in 1 .. Len(clients') : k \in 1 .. Len(clients) \/ k = Len(clients) + 1
    BY <2>4, <2>5
  <2>7. \A k \in 1 .. Len(clients') :
          /\ clients'[k] = ClientRange(k - 1)
          /\ ~ (clients'[k].s <= clients'[k].e /\ clients'[k].e >= MaxClients)
    <3> SUFFICES ASSUME NEW k \in 1 .. Len(clients')
                 PROVE  /\ clients'[k] = ClientRange(k - 1)
                        /\ ~ (clients'[k].s <= clients'[k].e /\ clients'[k].e >= MaxClients)
      OBVIOUS
    <3>1. CASE k \in 1 .. Len(clients)
      BY <2>5, <3>1 DEF GivenInv, ClientsInv
    <3>2. CASE k = Len(clients) + 1
      <4>1. k - 1 = Len(clients) /\ clients'[k] = range
        BY <2>4, <2>5, <3>2
      <4> QED  BY <1>4, <4>1
    <3> QED  BY <2>6, <3>1, <3>2
  <2>8. ClientsInv'
    <3>1. Len(clients') <= TxLcores
      BY <1>1, <2>1, <2>4, <2>5
    <3> QED  BY <1>1, <1>4, <2>1, <2>2, <2>5, <2>7, <3>1 DEF GivenInv, ClientsInv
  <2>9. PICK m : m = conf.machine_id
    OBVIOUS
  <2>10. /\ DOMAIN traces' = DOMAIN traces
         /\ \A c \in DOMAIN traces : c \in range.s .. range.e => traces'[c] = TraceOf(m, c)
         /\ \A c \in DOMAIN traces : c \notin range.s .. range.e => traces'[c] = traces[c]
    BY <1>4, <2>9
  <2> HIDE DEF range
  <2>11. \A k \in 1 .. Len(clients') : \A c \in clients'[k].s .. clients'[k].e :
           c \in DOMAIN traces => traces'[c] = TraceOf(m, c)
    <3> SUFFICES ASSUME NEW k \in 1 .. Len(clients'), NEW c \in clients'[k].s .. clients'[k].e,
                        c \in DOMAIN traces, c \notin range.s .. range.e
                 PROVE  traces'[c] = TraceOf(m, c)
      BY <2>10
    <3>1. k \in 1 .. Len(clients) /\ clients'[k] = clients[k]
      BY <2>5, <2>6
    <3>2. traces[c] = TraceOf(m, c)
      BY <2>9, <3>1 DEF GivenInv, TracesInv
    <3> QED  BY <2>10, <3>2
  <2>12. conf'.machine_id = m /\ \A c : TraceOf(m, c)' = TraceOf(m, c)
    BY <1>1, <2>9, SameTrace
  <2>13. TracesInv'
    <3>1. DOMAIN traces = 0 .. (MaxClients - 1)
      BY DEF GivenInv, TracesInv
    <3>2. \A c : TraceOf(conf.machine_id, c)' = TraceOf(m, c)
      BY <2>12 DEF TraceOf, TpccTrace
    <3> QED  BY <2>10, <2>11, <2>12, <3>1, <3>2 DEF TracesInv
  <2> QED  BY <1>2, <2>8, <2>13 DEF GivenInv
<1> QED  BY <1>1, <1>3, <1>4

LEMMA GivenInit == Init => GivenInv
<1> SUFFICES ASSUME Init  PROVE GivenInv
  OBVIOUS
<1>1. pc = "parse" /\ clients = << >> /\ traces = [c \in 0 .. (MaxClients - 1) |-> NoTrace]
  BY DEF Init
<1>2. clients \in Seq([s : Int, e : Int]) /\ Len(clients) = 0
  BY <1>1
<1> QED  BY <1>1, <1>2, ConfInit DEF GivenInv, ClientsInv, TracesInv

LEMMA GivenNext ==
    ASSUME GivenInv, [Next]_vars  PROVE GivenInv'
<1>1. ASSUME UNCHANGED << host, argv, conf >>  PROVE ConfInv'
  BY <1>1 DEF GivenInv, ConfInv
<1>2. pc \notin {"clients", "running", "undefined"} => clients = << >>
  BY DEF GivenInv, ClientsInv
<1>3. CASE UNCHANGED vars
  <2>1. UNCHANGED << host, argv, conf, clients, traces, pc >>
    BY <1>3 DEF vars
  <2> QED  BY <1>1, <1>2, <2>1, NothingGiven
<1>4. CASE ParseOption
  <2>1. /\ UNCHANGED << clients, traces, host >> /\ pc = "parse"
        /\ pc' = pc \/ pc' = "exited"
    BY <1>4 DEF ParseOption, tables
  <2>2. ConfInv'
    BY <1>4, ParseOptionConf DEF GivenInv
  <2> QED  BY <1>2, <2>1, <2>2, NothingGiven
<1>5. CASE ParseEnd \/ CreatePool \/ EnablePort \/ PortsDone \/ CheckQueues \/ AssignLcore
           \/ ConfigurePorts \/ CheckLinks \/ InitZipf
  <2>1. CASE ParseEnd \/ CreatePool \/ EnablePort \/ PortsDone \/ CheckQueues
    <3>1. /\ UNCHANGED << clients, traces, host, argv, conf >>
          /\ pc \notin {"clients", "running", "undefined"}
          /\ pc' = pc \/ pc' \notin {"batch", "clients", "running"}
      BY <2>1 DEF ParseEnd, CreatePool, EnablePort, PortsDone, CheckQueues, parsed, tables
    <3> QED  BY <1>1, <1>2, <3>1, NothingGiven
  <2>2. CASE AssignLcore \/ ConfigurePorts \/ CheckLinks \/ InitZipf
    <3>1. /\ UNCHANGED << clients, traces, host, argv, conf >>
          /\ pc \notin {"clients", "running", "undefined"}
          /\ pc' = pc \/ pc' \notin {"batch", "clients", "running"}
      BY <2>2, InitZipfSteps DEF AssignLcore, ConfigurePorts, CheckLinks, Poll,
                                 LinksChecked,
                                 parsed, tables
    <3> QED  BY <1>1, <1>2, <3>1, NothingGiven
  <2> QED  BY <1>5, <2>1, <2>2
<1>6. CASE InitAddress \/ get_queue_len_in_switch
  <2>1. /\ UNCHANGED << clients, traces, host, argv, conf >>
        /\ pc \notin {"clients", "running", "undefined"}
        /\ pc' \in {"failure_act", "undefined", "address"}
    BY <1>6 DEF InitAddress, get_queue_len_in_switch, parsed
  <2> QED  BY <1>1, <1>2, <2>1, NothingGiven
<1>7. CASE InitFailureAct
  <2>1. /\ UNCHANGED << clients, traces, host, argv, conf >> /\ pc = "failure_act"
        /\ pc' = "undefined" \/ (pc' = "batch" /\ ~ (conf.client_num > MaxClients))
    BY <1>7 DEF InitFailureAct, parsed, tables
  <2>2. conf.client_num \in Nat /\ MaxClients \in Nat
    BY SizesAssumption DEF GivenInv, ConfInv
  <2> QED  BY <1>1, <1>2, <2>1, <2>2, NothingGiven
<1>8. CASE InitBatchMap
  <2>1. /\ UNCHANGED << clients, traces, host, argv, conf >> /\ pc = "batch"
        /\ pc' = "clients" \/ (pc' = "running" /\ host.program # "client")
    BY <1>8 DEF InitBatchMap, parsed
  <2> QED  BY <1>1, <1>2, <2>1, NothingGiven
<1>9. CASE LaunchClient
  <2>1. /\ UNCHANGED << clients, traces, host, argv, conf >> /\ pc = "clients"
        /\ Len(clients) >= TxLcores /\ pc' = "running"
    BY <1>9 DEF LaunchClient, parsed, tables
  <2> QED  BY <1>1, <1>2, <2>1, NothingGiven
<1> QED  BY <1>3, <1>4, <1>5, <1>6, <1>7, <1>8, <1>9, AssignClientsStep DEF Next

LEMMA GivenInvariance == Spec => []GivenInv
  BY GivenInit, GivenNext, PTL DEF Spec

-----------------------------------------------------------------------------
(* How n clients are shared out among T lcores.                            *)

\* Quotients grow with what is divided.
LEMMA QuotientsGrow ==
    ASSUME NEW T \in Nat \ {0}, NEW a \in Nat, NEW b \in Nat, a <= b
    PROVE  a \div T \in Nat /\ b \div T \in Nat /\ a \div T <= b \div T
<1> DEFINE p == a \div T
           q == b \div T
<1>1. /\ p \in Nat /\ q \in Nat /\ a % T \in 0 .. T - 1 /\ b % T \in 0 .. T - 1
      /\ a = T * p + (a % T) /\ b = T * q + (b % T)
  BY ModDef
<1> HIDE DEF p, q
<1>2. ASSUME q < p  PROVE FALSE
  <2>1. T * q + T <= T * p
    BY <1>1, <1>2, ProdStep
  <2>2. T * p \in Int /\ T * q \in Int
    BY <1>1
  <2> QED  BY <1>1, <2>1, <2>2
<1> QED  BY <1>1, <1>2 DEF p, q

LEMMA QuotientNat ==
    ASSUME NEW T \in Nat \ {0}, NEW a \in Nat  PROVE a \div T \in Nat
  BY ModDef

LEMMA NegativeWraps ==
    ASSUME NEW x \in Int, x < 0, x >= -256  PROVE UInt8(x) = x + 256
  BY DEF UInt8

LEMMA ProductDivided ==
    ASSUME NEW T \in Nat \ {0}, NEW n \in Nat
    PROVE  (T * n) \div T = n
<1> DEFINE d == (T * n) \div T
           r == (T * n) % T
<1>1. T * n \in Nat
  OBVIOUS
<1>2. d \in Nat /\ r \in 0 .. T - 1 /\ T * n = T * d + r
  BY <1>1, ModDef
<1> HIDE DEF d, r
<1>3. T * d + r = T * n + 0 /\ 0 \in 0 .. T - 1
  BY <1>1, <1>2
<1>4. d = n
  BY <1>2, <1>3, DivUnique
<1> QED  BY <1>4 DEF d

\* What lcore k of T gets, computed in 8 bits and found to lie below a bound of 8
\* bits, is what it would get in unbounded numbers.
LEMMA ShareExact ==
    ASSUME NEW T \in Nat \ {0}, NEW n \in Nat, NEW max \in 1 .. 255, n <= max,
           NEW k \in 0 .. T - 1,
           LET s == UInt8((k * n) \div T)
               e == UInt8(((k + 1) * n) \div T - 1)
           IN  ~ (s <= e /\ e >= max)
    PROVE  /\ UInt8((k * n) \div T) = (k * n) \div T
           /\ UInt8(((k + 1) * n) \div T - 1) = ((k + 1) * n) \div T - 1
           /\ ((k + 1) * n) \div T <= n
<1> DEFINE a == (k * n) \div T
           b == ((k + 1) * n) \div T
<1>1. /\ k * n \in Nat /\ (k + 1) * n \in Nat /\ T * n \in Nat
      /\ k * n <= (k + 1) * n
  <2>1. (k + 1) * n >= k * n
    BY Product
  <2> QED  BY <2>1
<1>2. (k + 1) * n <= T * n
  BY Product
<1>3. (T * n) \div T = n
  BY ProductDivided
<1>4. a \in Nat /\ b \in Nat /\ a <= b
  BY <1>1, QuotientsGrow
<1>5. b <= n
  BY <1>1, <1>2, <1>3, QuotientsGrow
<1> HIDE DEF a, b
<1>6. UInt8(a) = a
  BY <1>4, <1>5 DEF UInt8
<1>7. b # 0
  <2> SUFFICES ASSUME b = 0  PROVE FALSE
    OBVIOUS
  <2>1. a = 0 /\ b - 1 \in Int /\ b - 1 < 0 /\ b - 1 >= -256
    BY <1>4
  <2>2. UInt8(b - 1) = (b - 1) + 256
    BY <2>1, NegativeWraps
  <2>3. UInt8(a) = 0 /\ UInt8(b - 1) = 255
    BY <1>6, <2>1, <2>2
  <2> QED  BY <2>3 DEF a, b
<1>8. UInt8(b - 1) = b - 1
  BY <1>4, <1>5, <1>7 DEF UInt8
<1> QED  BY <1>5, <1>6, <1>8 DEF a, b

\* Every client below n is in the share of exactly one lcore.
LEMMA SharesApart ==
    ASSUME NEW T \in Nat \ {0}, NEW n \in Nat, NEW c \in 0 .. n - 1
    PROVE  /\ \E k \in 0 .. T - 1 :
                (k * n) \div T <= c /\ c <= ((k + 1) * n) \div T - 1
           /\ \A k, m \in 0 .. T - 1 :
                /\ (k * n) \div T <= c /\ c <= ((k + 1) * n) \div T - 1
                /\ (m * n) \div T <= c /\ c <= ((m + 1) * n) \div T - 1
                => k = m
<1> DEFINE F(k) == (k * n) \div T
           S == {k \in Nat : F(k) > c}
<1>1. \A k \in Nat : F(k) \in Nat
  <2> TAKE k \in Nat
  <2>1. k * n \in Nat
    OBVIOUS
  <2> QED  BY <2>1, QuotientsGrow
<1>2. \A k, m \in Nat : k <= m => F(k) <= F(m)
  <2> SUFFICES ASSUME NEW k \in Nat, NEW m \in Nat, k <= m  PROVE F(k) <= F(m)
    OBVIOUS
  <2>1. m * n >= k * n /\ k * n \in Nat /\ m * n \in Nat
    BY Product
  <2> QED  BY <2>1, QuotientsGrow
<1>3. F(T) = n
  BY ProductDivided
<1>4. F(0) = 0
  <2>1. 0 * n = 0
    OBVIOUS
  <2>2. 0 \div T = 0
    OBVIOUS
  <2> QED  BY <2>1, <2>2
<1> HIDE DEF F
<1>5. T \in S
  BY <1>3 DEF S
<1>6. PICK m \in S : \A y \in S : m <= y
  BY <1>5, LeastElement DEF S
<1>7. m \in Nat /\ F(m) > c /\ m <= T /\ m # 0
  BY <1>4, <1>5, <1>6 DEF S
<1>8. m - 1 \in Nat /\ ~ (F(m - 1) > c)
  BY <1>6, <1>7 DEF S
<1>9. (m - 1) \in 0 .. T - 1 /\ F(m - 1) <= c /\ c <= F((m - 1) + 1) - 1
  <2>1. F(m - 1) \in Nat /\ F(m) \in Nat /\ (m - 1) + 1 = m
    BY <1>1, <1>7, <1>8
  <2> QED  BY <1>7, <1>8, <2>1
<1>10. ASSUME NEW k \in 0 .. T - 1, NEW l \in 0 .. T - 1,
              F(k) <= c, c <= F(k + 1) - 1, F(l) <= c, c <= F(l + 1) - 1
       PROVE  k = l
  <2>1. F(k) \in Nat /\ F(l) \in Nat /\ F(k + 1) \in Nat /\ F(l + 1) \in Nat
    BY <1>1
  <2>2. CASE k < l
    <3>1. F(k + 1) <= F(l)
      BY <1>2, <2>2
    <3> QED  BY <1>10, <2>1, <3>1
  <2>3. CASE l < k
    <3>1. F(l + 1) <= F(k)
      BY <1>2, <2>3
    <3> QED  BY <1>10, <2>1, <3>1
  <2> QED  BY <2>2, <2>3
<1> QED  BY <1>9, <1>10 DEF F

\* The ranges of a client program that runs, in unbounded numbers.
LEMMA RangesExact ==
    ASSUME GivenInv, pc = "running", host.program = "client", TxLcores > 0
    PROVE  /\ TxLcores \in Nat \ {0} /\ conf.client_num \in Nat \ {0}
           /\ conf.client_num <= MaxClients /\ DOMAIN clients = 1 .. TxLcores
           /\ \A k \in 1 .. TxLcores :
                /\ clients[k].s = ((k - 1) * conf.client_num) \div TxLcores
                /\ clients[k].e = (k * conf.client_num) \div TxLcores - 1
                /\ (k * conf.client_num) \div TxLcores <= conf.client_num
<1> DEFINE T == TxLcores
           n == conf.client_num
<1>1. T \in Nat \ {0}
  <2>1. host \in Hosts /\ conf.n_rcv_cores \in Nat
    BY DEF GivenInv, ConfInv
  <2>2. host.lcores \in 1 .. 32
    BY <2>1, HostAssumption
  <2>3. host.lcores \in Nat
    BY <2>2
  <2> QED  BY SMTT(30), <2>1, <2>3 DEF TxLcores, n_lcores, n_rcv_cores
<1>2. n \in Nat \ {0} /\ n <= MaxClients /\ MaxClients \in 1 .. 255
  BY SizesAssumption DEF GivenInv, ConfInv, ClientsInv
<1>3. DOMAIN clients = 1 .. T
  <2>1. /\ clients \in Seq([s : Int, e : Int]) /\ Len(clients) >= T
        /\ clients = << >> \/ Len(clients) <= T
    BY DEF GivenInv, ClientsInv
  <2>2. clients # << >>
    BY <1>1, <2>1
  <2> QED  BY <1>1, <2>1, <2>2
<1>4. ASSUME NEW k \in 1 .. T
      PROVE  /\ clients[k].s = ((k - 1) * n) \div T
             /\ clients[k].e = (k * n) \div T - 1
             /\ (k * n) \div T <= n
  <2> DEFINE j == k - 1
  <2>1. j \in 0 .. T - 1 /\ j + 1 = k
    BY <1>1
  <2>2. /\ clients[k] = ClientRange(j)
        /\ ~ (clients[k].s <= clients[k].e /\ clients[k].e >= MaxClients)
    <3>1. clients \in Seq([s : Int, e : Int])
      BY DEF GivenInv, ClientsInv
    <3>2. k \in 1 .. Len(clients)
      <4>1. DOMAIN clients = 1 .. Len(clients)
        BY <3>1
      <4> HIDE DEF T
      <4> QED  BY <1>3, <4>1
    <3> QED  BY <3>2 DEF GivenInv, ClientsInv
  <2> HIDE DEF j
  <2>3. /\ clients[k].s = UInt8((j * n) \div T)
        /\ clients[k].e = UInt8(((j + 1) * n) \div T - 1)
    BY <2>2 DEF ClientRange
  <2> HIDE DEF T, n
  <2>4. /\ UInt8((j * n) \div T) = (j * n) \div T
        /\ UInt8(((j + 1) * n) \div T - 1) = ((j + 1) * n) \div T - 1
        /\ ((j + 1) * n) \div T <= n
    <3>1. ~ (UInt8((j * n) \div T) <= UInt8(((j + 1) * n) \div T - 1)
             /\ UInt8(((j + 1) * n) \div T - 1) >= MaxClients)
      BY <2>2, <2>3
    <3> QED  BY <1>1, <1>2, <2>1, <3>1, ShareExact
  <2> QED  BY <2>1, <2>3, <2>4 DEF j
<1> QED  BY <1>1, <1>2, <1>3, <1>4

LEMMA OneLcorePerClient ==
    ASSUME GivenInv, pc = "running", host.program = "client", TxLcores > 0,
           NEW c \in 0 .. (conf.client_num - 1)
    PROVE  \E k \in DOMAIN clients :
             {m \in DOMAIN clients : c \in clients[m].s .. clients[m].e} = {k}
<1> DEFINE T == TxLcores
           n == conf.client_num
           Low(k)  == (k * n) \div T
           High(k) == ((k + 1) * n) \div T - 1
<1>1. /\ T \in Nat \ {0} /\ n \in Nat \ {0} /\ DOMAIN clients = 1 .. T
      /\ \A k \in 1 .. T :
           /\ clients[k].s = ((k - 1) * n) \div T
           /\ clients[k].e = (k * n) \div T - 1
  BY RangesExact
<1> HIDE DEF T, n
<1>2. c \in 0 .. n - 1
  BY DEF n
<1>3. \A k \in 1 .. T : /\ k - 1 \in 0 .. T - 1
                        /\ clients[k].s = Low(k - 1) /\ clients[k].e = High(k - 1)
  <2>1. \A k \in 1 .. T : (k - 1) + 1 = k /\ k - 1 \in 0 .. T - 1
    BY <1>1
  <2> QED  BY <1>1, <2>1
<1>4. /\ \E k \in 0 .. T - 1 : Low(k) <= c /\ c <= High(k)
      /\ \A k, m \in 0 .. T - 1 :
           Low(k) <= c /\ c <= High(k) /\ Low(m) <= c /\ c <= High(m) => k = m
  BY <1>1, <1>2, SharesApart
<1>5. \A k \in 0 .. T - 1 : Low(k) \in Int /\ High(k) \in Int
  <2> SUFFICES ASSUME NEW k \in 0 .. T - 1  PROVE Low(k) \in Int /\ High(k) \in Int
    OBVIOUS
  <2>0. k \in Nat /\ k + 1 \in Nat /\ n \in Nat
    BY <1>1
  <2>1. k * n \in Nat /\ (k + 1) * n \in Nat
    BY ONLY <2>0
  <2>2. Low(k) \in Nat
    BY <1>1, <2>1, QuotientNat
  <2>3. ((k + 1) * n) \div T \in Nat
    BY <1>1, <2>1, QuotientNat
  <2> QED  BY <2>2, <2>3
<1> HIDE DEF Low, High
<1>6. \A k \in 1 .. T : c \in clients[k].s .. clients[k].e <=>
                          Low(k - 1) <= c /\ c <= High(k - 1)
  <2> SUFFICES ASSUME NEW k \in 1 .. T
               PROVE  c \in clients[k].s .. clients[k].e <=> Low(k - 1) <= c /\ c <= High(k - 1)
    OBVIOUS
  <2>1. /\ clients[k].s = Low(k - 1) /\ clients[k].e = High(k - 1)
        /\ Low(k - 1) \in Int /\ High(k - 1) \in Int /\ c \in Int
    BY <1>2, <1>3, <1>5
  <2> QED  BY <2>1
<1>7. PICK j \in 0 .. T - 1 : Low(j) <= c /\ c <= High(j)
  BY <1>4
<1>8. j + 1 \in 1 .. T /\ (j + 1) - 1 = j
  BY <1>1, <1>7
<1>9. j + 1 \in {m \in DOMAIN clients : c \in clients[m].s .. clients[m].e}
  BY <1>1, <1>6, <1>7, <1>8
<1>10. \A m \in DOMAIN clients : c \in clients[m].s .. clients[m].e => m = j + 1
  <2> SUFFICES ASSUME NEW m \in 1 .. T, c \in clients[m].s .. clients[m].e  PROVE m = j + 1
    BY <1>1
  <2>1. Low(m - 1) <= c /\ c <= High(m - 1) /\ m - 1 \in 0 .. T - 1
    BY <1>3, <1>6
  <2>2. m - 1 = j
    BY <1>4, <1>7, <2>1
  <2> QED  BY <2>2
<1> HIDE DEF Low, High
<1>11. {m \in DOMAIN clients : c \in clients[m].s .. clients[m].e} = {j + 1}
  BY <1>9, <1>10
<1>12. j + 1 \in DOMAIN clients
  BY <1>1, <1>8
<1> QED  BY <1>11, <1>12

LEMMA GivenOnce == GivenInv => EveryClientOnOneLcore
<1> SUFFICES ASSUME GivenInv, pc = "running", host.program = "client", TxLcores > 0
             PROVE  /\ \A c \in 0 .. (conf.client_num - 1) :
                          Cardinality({k \in DOMAIN clients :
                                          c \in clients[k].s .. clients[k].e}) = 1
                    /\ \A k \in DOMAIN clients :
                          clients[k].s .. clients[k].e \subseteq 0 .. (conf.client_num - 1)
  BY DEF EveryClientOnOneLcore
<1>1. ASSUME NEW c \in 0 .. (conf.client_num - 1)
      PROVE  Cardinality({k \in DOMAIN clients : c \in clients[k].s .. clients[k].e}) = 1
  <2>1. PICK k \in DOMAIN clients :
               {m \in DOMAIN clients : c \in clients[m].s .. clients[m].e} = {k}
    BY <1>1, OneLcorePerClient
  <2> QED  BY <2>1, FS_Singleton
<1>2. ASSUME NEW k \in DOMAIN clients
      PROVE  clients[k].s .. clients[k].e \subseteq 0 .. (conf.client_num - 1)
  <2> DEFINE T == TxLcores
             n == conf.client_num
             a == ((k - 1) * n) \div T
             b == (k * n) \div T
  <2>1. /\ T \in Nat \ {0} /\ n \in Nat \ {0} /\ k \in 1 .. T
        /\ clients[k].s = a /\ clients[k].e = b - 1 /\ b <= n
    BY <1>2, RangesExact
  <2> HIDE DEF T, n
  <2>2. (k - 1) * n \in Nat /\ k * n \in Nat
    <3>1. k - 1 \in Nat /\ k \in Nat
      BY <2>1
    <3> QED  BY <2>1, <3>1
  <2>3. a \in Nat /\ b \in Nat
    BY <2>1, <2>2, ModDef
  <2> HIDE DEF a, b
  <2> QED  BY <2>1, <2>3 DEF n
<1> QED  BY <1>1, <1>2

\* A transaction trace tells machine and client, if no lcore has two clients.
LEMMA TraceTells ==
    ASSUME NEW T \in Nat \ {0}, NEW l \in Nat \ {0}, NEW m \in Nat \ {0},
           NEW c \in 0 .. T - 1, NEW d \in 0 .. T - 1, NEW base \in Nat,
           (l - 1) * T + c + base = (m - 1) * T + d + base
    PROVE  l = m /\ c = d
<1> DEFINE p == l - 1
           q == m - 1
<1>1. p \in Int /\ q \in Int
  OBVIOUS
<1>2. p * T \in Int /\ q * T \in Int /\ p * T = T * p /\ q * T = T * q
  BY <1>1
<1>3. p * T + c + base = q * T + d + base
  OBVIOUS
<1> HIDE DEF p, q
<1>4. T * p + c = T * q + d
  BY <1>2, <1>3
<1>5. p = q /\ c = d
  BY <1>1, <1>4, DivUnique
<1> QED  BY <1>5 DEF p, q

LEMMA TpccTraceOf ==
    ASSUME conf.benchmark \in {"t", "v"}, NEW m, NEW c
    PROVE  \/ /\ conf.benchmark = "t" /\ conf.task_id = "q"
              /\ TraceOf(m, c) = << "6v6", conf.warehouse, TpccTrace(m, c, 25) >>
           \/ /\ ~ (conf.benchmark = "t" /\ conf.task_id = "q")
              /\ TraceOf(m, c) = << "10v2", conf.warehouse, TpccTrace(m, c, 9) >>
<1>1. conf.benchmark # "s" /\ conf.benchmark # "x"
  OBVIOUS
<1>2. CASE conf.benchmark = "t" /\ conf.task_id = "q"
  <2>1. conf.benchmark # "v"
    BY <1>2
  <2>2. TraceOf(m, c) = << "6v6", conf.warehouse, TpccTrace(m, c, 25) >>
    BY Zenon, <1>1, <1>2, <2>1 DEF TraceOf
  <2> QED  BY Zenon, <1>2, <2>2
<1>3. CASE ~ (conf.benchmark = "t" /\ conf.task_id = "q")
  <2>1. \/ conf.benchmark = "v"
        \/ conf.benchmark = "t" /\ conf.task_id # "q"
    BY <1>3
  <2>2. TraceOf(m, c) = << "10v2", conf.warehouse, TpccTrace(m, c, 9) >>
    BY Zenon, <1>1, <1>3, <2>1 DEF TraceOf
  <2> QED  BY Zenon, <1>3, <2>2
<1> QED  BY <1>2, <1>3

LEMMA TracesTellApart == GivenInv => TracesApart
<1> SUFFICES ASSUME GivenInv, pc = "running", host.program = "client",
                    conf.benchmark \in {"t", "v"}, conf.client_num <= TxLcores,
                    conf.machine_id > 0,
                    NEW c \in 0 .. (conf.client_num - 1), NEW d \in 0 .. (conf.client_num - 1),
                    NEW m \in 1 .. Addresses, traces[c] = TraceOf(m, d)
             PROVE  m = conf.machine_id /\ c = d
  BY DEF TracesApart
<1> DEFINE T == TxLcores
           n == conf.client_num
           l == conf.machine_id
<1>1. n \in Nat \ {0} /\ l \in Nat \ {0} /\ m \in Nat \ {0}
  BY SizesAssumption DEF GivenInv, ConfInv
<1>2. T > 0
  <2>1. TxLcores \in Int
    <3>1. host \in Hosts /\ conf.n_rcv_cores \in Nat
      BY DEF GivenInv, ConfInv
    <3>2. host.lcores \in 1 .. 32
      BY <3>1, HostAssumption
    <3>3. host.lcores \in Nat
      BY <3>2
    <3> QED  BY SMTT(30), <3>1, <3>3 DEF TxLcores, n_lcores, n_rcv_cores
  <2> QED  BY <1>1, <2>1
<1>3. T \in Nat \ {0} /\ n <= MaxClients /\ n <= T
  BY <1>2, RangesExact
<1>4. c \in 0 .. T - 1 /\ d \in 0 .. T - 1 /\ c \in 0 .. (MaxClients - 1)
  <2>1. MaxClients \in 1 .. 255
    BY SizesAssumption
  <2> HIDE DEF T
  <2> QED  BY <1>1, <1>3, <2>1
<1>5. traces[c] = TraceOf(l, c)
  <2>1. PICK k \in DOMAIN clients :
               {j \in DOMAIN clients : c \in clients[j].s .. clients[j].e} = {k}
    BY <1>2, OneLcorePerClient
  <2>2. k \in 1 .. Len(clients) /\ c \in clients[k].s .. clients[k].e
    <3>1. clients \in Seq([s : Int, e : Int])
      BY DEF GivenInv, ClientsInv
    <3>2. DOMAIN clients = 1 .. Len(clients)
      BY <3>1
    <3> QED  BY <2>1, <3>2
  <2>3. c \in DOMAIN traces
    BY <1>4 DEF GivenInv, TracesInv
  <2> QED  BY <2>2, <2>3 DEF GivenInv, TracesInv
<1>6. PICK base \in {25, 9} : TpccTrace(l, c, base) = TpccTrace(m, d, base)
  <2>1. TraceOf(l, c) = TraceOf(m, d)
    BY <1>5
  <2>2. CASE conf.benchmark = "t" /\ conf.task_id = "q"
    <3>1. << "6v6", conf.warehouse, TpccTrace(l, c, 25) >>
              = << "6v6", conf.warehouse, TpccTrace(m, d, 25) >>
      BY <2>1, <2>2, TpccTraceOf
    <3> QED  BY <3>1
  <2>3. CASE ~ (conf.benchmark = "t" /\ conf.task_id = "q")
    <3>1. << "10v2", conf.warehouse, TpccTrace(l, c, 9) >>
              = << "10v2", conf.warehouse, TpccTrace(m, d, 9) >>
      BY <2>1, <2>3, TpccTraceOf
    <3> QED  BY <3>1
  <2> QED  BY <2>2, <2>3
<1>7. (l - 1) * T + c + base = (m - 1) * T + d + base
  BY <1>6 DEF TpccTrace
<1> HIDE DEF T, l
<1>8. l = m /\ c = d
  BY <1>1, <1>3, <1>4, <1>7, TraceTells
<1> QED  BY <1>8 DEF l

\* Whatever a client program was told: when it runs with a transmit lcore at all,
\* each of its clients is run by one lcore and one only, though lcores compute their
\* shares in bytes that wrap; and the transaction traces tell machines and clients
\* apart.
THEOREM ClientsGivenOnce == Spec => []ClientsApart
  BY GivenInvariance, GivenOnce, TracesTellApart, PTL DEF ClientsApart

-----------------------------------------------------------------------------
(* The RX queues the lcores were given.                                    *)

Configured == {"links", "zipf", "address", "failure_act", "layout", "batch", "clients",
               "running"}

\* The RX queues of the lcore with TX queue t of its port.
RxQueuesAt(t) == RxQueuesPerLcore * t .. (RxQueuesPerLcore * t + RxQueuesPerLcore - 1)

RxInv ==
    /\ pc \in {"parse", "pool", "ports", "lcores"} => loop.rx = 0
    /\ pc = "assign" /\ Receives(Len(lcore_conf)) => loop.rx = RxQueuesPerLcore * loop.tx
    /\ pc \in Configured =>
         /\ n_ports > 0 /\ TxQueuesPerPort \in Nat \ {0}
         /\ n_lcores = n_ports * TxQueuesPerPort /\ Len(lcore_conf) = n_lcores
    /\ \A j \in 1 .. Len(lcore_conf) :
         /\ lcore_conf[j].tx < TxQueuesPerPort
         /\ lcore_conf[j].rx = IF Receives(j - 1) THEN RxQueuesAt(lcore_conf[j].tx) ELSE {}

SharedOut == Inv /\ ConfInv /\ RxInv

LEMMA RxElsewhere ==
    ASSUME SharedOut, UNCHANGED << host, loop, lcore_conf, enabled_ports >>,
           conf' = conf \/ lcore_conf = << >>,
           \/ pc' = pc /\ (conf' = conf \/ pc = "parse")
           \/ pc \in {"parse", "pool", "ports"} /\ pc' \in {"pool", "ports", "lcores"}
           \/ pc \in Configured /\ pc' \in Configured
           \/ pc' \in {"exited", "crashed", "undefined"}
    PROVE  RxInv'
<1>1. /\ n_ports' = n_ports /\ n_lcores' = n_lcores /\ TxQueuesPerPort' = TxQueuesPerPort
      /\ \A t : RxQueuesAt(t)' = RxQueuesAt(t)
  BY DEF n_ports, n_lcores, TxQueuesPerPort, RxQueuesAt
<1>2. CASE conf' = conf
  <2>1. \A j : Receives(j)' = Receives(j)
    BY <1>2 DEF Receives, n_rcv_cores
  <2> QED  BY <1>1, <2>1 DEF SharedOut, RxInv, Configured
<1>3. CASE lcore_conf = << >> /\ conf' # conf
  <2>1. \A j \in 1 .. Len(lcore_conf') : FALSE
    <3>1. Len(lcore_conf') = 0
      BY <1>3
    <3> QED  BY <3>1
  <2>2. pc' \notin Configured /\ pc' # "assign"
    <3>1. pc \in Configured => Len(lcore_conf) = n_lcores
      BY DEF SharedOut, RxInv
    <3>2. n_lcores \in Nat \ {0} /\ Len(lcore_conf) = 0
      BY <1>3 DEF SharedOut, Inv, LoopInv
    <3>3. pc \notin Configured
      BY <3>1, <3>2
    <3> QED  BY <1>3, <3>3 DEF Configured
  <2> QED  BY <1>1, <1>3, <2>1, <2>2 DEF SharedOut, RxInv
<1> QED  BY <1>2, <1>3

LEMMA AssignLcoreRx ==
    ASSUME SharedOut, AssignLcore  PROVE RxInv'
<1> DEFINE T == TxQueuesPerPort
           R == RxQueuesPerLcore
           m == Len(lcore_conf)
           n == IF Receives(m) THEN R ELSE 0
           new == [port |-> enabled_ports[loop.port + 1], tx |-> loop.tx,
                   rx |-> loop.rx .. (loop.rx + n - 1)]
<1>1. /\ pc = "assign" /\ pc' = pc /\ UNCHANGED << host, enabled_ports, conf >>
      /\ lcore_conf' = Append(lcore_conf, new) /\ loop' = Advance(n)
  BY DEF AssignLcore, parsed
<1>2. /\ n_ports' = n_ports /\ n_lcores' = n_lcores /\ TxQueuesPerPort' = TxQueuesPerPort
      /\ \A t : RxQueuesAt(t)' = RxQueuesAt(t)
      /\ \A j : Receives(j)' = Receives(j)
  BY <1>1 DEF n_ports, n_lcores, TxQueuesPerPort, RxQueuesAt, Receives, n_rcv_cores
<1>3. /\ T \in Nat \ {0} /\ R \in Nat \ {0} /\ loop.tx < T /\ conf.n_rcv_cores \in Nat
      /\ loop \in [i : Nat, port : Nat, rx : Int, tx : Nat]
      /\ lcore_conf \in Seq(LcoreConf) /\ m \in Nat
  BY <1>1, SizesAssumption DEF SharedOut, Inv, LoopInv, AssignInv, ConfInv
<1>4. loop.tx \in Nat /\ loop.rx \in Int /\ n \in Nat /\ loop.port \in Nat
  BY <1>3
<1>5. Receives(m) => loop.rx = R * loop.tx
  BY <1>1 DEF SharedOut, RxInv
<1>6. new.tx = loop.tx /\ new.rx = loop.rx .. (loop.rx + n - 1)
  OBVIOUS
<1>7. new.rx = IF Receives(m) THEN RxQueuesAt(loop.tx) ELSE {}
  <2>1. CASE Receives(m)
    BY <1>5, <1>6, <2>1 DEF RxQueuesAt
  <2>2. CASE ~ Receives(m)
    <3>1. loop.rx .. (loop.rx + 0 - 1) = {}
      BY <1>4
    <3> QED  BY <1>6, <2>2, <3>1
  <2> QED  BY <2>1, <2>2
<1> HIDE DEF new, n, T, R
<1>8. /\ Len(lcore_conf') = m + 1
      /\ \A j \in 1 .. m : lcore_conf'[j] = lcore_conf[j]
      /\ lcore_conf'[m + 1] = new
  <2> DEFINE S == LcoreConf \cup {new}
  <2>1. lcore_conf \in Seq(S) /\ new \in S
    BY <1>3
  <2> HIDE DEF S
  <2> QED  BY <1>1, <2>1
<1>9. \A j \in 1 .. Len(lcore_conf') :
        /\ lcore_conf'[j].tx < T
        /\ lcore_conf'[j].rx = IF Receives(j - 1) THEN RxQueuesAt(lcore_conf'[j].tx) ELSE {}
  <2> SUFFICES ASSUME NEW j \in 1 .. Len(lcore_conf')
               PROVE  /\ lcore_conf'[j].tx < T
                      /\ lcore_conf'[j].rx = IF Receives(j - 1)
                                             THEN RxQueuesAt(lcore_conf'[j].tx) ELSE {}
    OBVIOUS
  <2>1. CASE j \in 1 .. m
    BY <1>8, <2>1 DEF SharedOut, RxInv, T
  <2>2. CASE j = m + 1
    <3>1. lcore_conf'[j] = new /\ j - 1 = m
      BY <1>3, <1>8, <2>2
    <3> QED  BY <1>3, <1>6, <1>7, <3>1
  <2> QED  BY <1>3, <1>8, <2>1, <2>2
\* The next lcore starts where this one ends, unless it does not receive.
<1>10. Receives(m + 1) => loop'.rx = R * loop'.tx
  <2>1. CASE (loop.tx + 1) % T = 0
    <3>1. loop' = [loop EXCEPT !.port = @ + 1, !.rx = 0, !.tx = 0]
      BY <1>1, <2>1 DEF Advance, T
    <3>2. loop'.rx = 0 /\ loop'.tx = 0
      BY <1>3, <3>1
    <3> QED  BY <1>3, <3>2
  <2>2. CASE (loop.tx + 1) % T # 0
    <3>1. loop' = [loop EXCEPT !.rx = @ + n, !.tx = @ + 1]
      BY <1>1, <2>2 DEF Advance, T
    <3>2. loop'.rx = loop.rx + n /\ loop'.tx = loop.tx + 1
      BY <1>3, <3>1
    <3>3. Receives(m + 1) => Receives(m)
      BY <1>3 DEF Receives, n_rcv_cores
    <3>4. ASSUME Receives(m + 1)  PROVE loop'.rx = R * loop'.tx
      <4>1. loop.rx = R * loop.tx /\ n = R
        BY <1>5, <3>3, <3>4 DEF n
      <4>2. R * (loop.tx + 1) = R * loop.tx + R
        BY <1>3, <1>4
      <4> QED  BY <3>2, <4>1, <4>2
    <3> QED  BY <3>4
  <2> QED  BY <2>1, <2>2
<1>11. Receives(Len(lcore_conf))' => loop'.rx = R * loop'.tx
  <2> HIDE DEF m
  <2> QED  BY <1>1, <1>8, <1>10 DEF Receives, n_rcv_cores
<1>12. \A j \in 1 .. Len(lcore_conf') :
         /\ lcore_conf'[j].tx < TxQueuesPerPort'
         /\ lcore_conf'[j].rx = IF Receives(j - 1)' THEN RxQueuesAt(lcore_conf[j].tx)' ELSE {}
  <2> SUFFICES ASSUME NEW j \in 1 .. Len(lcore_conf')
               PROVE  /\ lcore_conf'[j].tx < TxQueuesPerPort'
                      /\ lcore_conf'[j].rx = IF Receives(j - 1)'
                                             THEN RxQueuesAt(lcore_conf[j].tx)' ELSE {}
    OBVIOUS
  <2>1. RxQueuesAt(lcore_conf[j].tx)' = RxQueuesAt(lcore_conf'[j].tx)
    BY DEF RxQueuesAt
  <2> QED  BY <1>2, <1>9, <2>1 DEF T
<1> QED  BY <1>1, <1>11, <1>12 DEF RxInv, Configured, R

LEMMA RxInit == Init => RxInv
<1> SUFFICES ASSUME Init  PROVE RxInv
  OBVIOUS
<1>1. pc = "parse" /\ lcore_conf = << >> /\ loop = [i |-> 0, port |-> 0, rx |-> 0, tx |-> 0]
  BY DEF Init
<1>2. Len(lcore_conf) = 0 /\ loop.rx = 0
  BY <1>1
<1> QED  BY <1>1, <1>2 DEF RxInv, Configured

LEMMA RxNext ==
    ASSUME SharedOut, [Next]_vars  PROVE RxInv'
<1>1. pc \in {"parse", "pool", "ports", "lcores"} => lcore_conf = << >>
  BY DEF SharedOut, Inv, BeforeInv
<1>2. CASE UNCHANGED vars
  BY <1>2, RxElsewhere DEF vars
<1>3. CASE ParseOption
  <2>1. /\ UNCHANGED << host, loop, lcore_conf, enabled_ports >> /\ pc = "parse"
        /\ pc' = pc \/ pc' = "exited"
    BY <1>3 DEF ParseOption, queues
  <2> QED  BY <1>1, <2>1, RxElsewhere
<1>4. CASE ParseEnd \/ CreatePool
  <2>1. /\ UNCHANGED << host, loop, lcore_conf, enabled_ports, conf >>
        /\ \/ pc \in {"parse", "pool"} /\ pc' \in {"pool", "ports"}
           \/ pc' \in {"crashed", "exited"}
    BY <1>4 DEF ParseEnd, CreatePool, parsed, queues
  <2> QED  BY <2>1, RxElsewhere
<1>5. CASE EnablePort
  <2>1. /\ loop' = [loop EXCEPT !.i = @ + 1] /\ pc = "ports" /\ pc' = pc
        /\ lcore_conf' = lcore_conf /\ lcore_conf = << >>
    BY <1>1, <1>5 DEF EnablePort
  <2>2. loop \in [i : Nat, port : Nat, rx : Int, tx : Nat] /\ loop.rx = 0
    BY <2>1 DEF SharedOut, Inv, LoopInv, RxInv
  <2>3. loop'.rx = 0
    BY <2>1, <2>2
  <2>4. Len(lcore_conf') = 0
    BY <2>1
  <2> QED  BY <2>1, <2>3, <2>4 DEF RxInv, Configured
<1>6. CASE PortsDone
  <2>1. /\ UNCHANGED << host, loop, lcore_conf, enabled_ports, conf >>
        /\ pc = "ports" /\ pc' \in {"exited", "lcores"}
    BY <1>6 DEF PortsDone, parsed, queues
  <2> QED  BY <2>1, RxElsewhere
<1>7. CASE CheckQueues
  <2>1. /\ UNCHANGED << host, loop, lcore_conf, enabled_ports, conf >> /\ pc = "lcores"
        /\ pc' \in {"assign", "crashed", "exited"}
    BY <1>7 DEF CheckQueues, parsed, queues
  <2>2. CASE pc' # "assign"
    BY <2>1, <2>2, RxElsewhere
  <2>3. CASE pc' = "assign"
    <3>1. lcore_conf = << >> /\ loop.rx = 0 /\ loop.tx = 0
      BY <2>1 DEF SharedOut, Inv, BeforeInv, RxInv
    <3>2. Len(lcore_conf') = 0
      BY <2>1, <3>1
    <3>3. loop'.rx = RxQueuesPerLcore * loop'.tx
      BY <2>1, <3>1, SizesAssumption
    <3> QED  BY <2>3, <3>2, <3>3 DEF RxInv, Configured
  <2> QED  BY <2>2, <2>3
<1>8. CASE ConfigurePorts
  <2>1. /\ UNCHANGED << host, loop, lcore_conf, enabled_ports, conf >> /\ pc = "assign"
        /\ Len(lcore_conf) = n_lcores /\ pc' \in {"links", "exited"}
    BY <1>8 DEF ConfigurePorts, parsed, queues
  <2>2. /\ n_ports' = n_ports /\ n_lcores' = n_lcores /\ TxQueuesPerPort' = TxQueuesPerPort
        /\ \A t : RxQueuesAt(t)' = RxQueuesAt(t)
        /\ \A j : Receives(j)' = Receives(j)
    BY <2>1 DEF n_ports, n_lcores, TxQueuesPerPort, RxQueuesAt, Receives, n_rcv_cores
  <2>3. n_ports > 0 /\ TxQueuesPerPort \in Nat \ {0} /\ n_lcores = n_ports * TxQueuesPerPort
    BY <2>1 DEF SharedOut, Inv, AssignInv
  <2> QED  BY <2>1, <2>2, <2>3 DEF SharedOut, RxInv
<1>9. CASE CheckLinks \/ InitZipf
  <2>1. /\ UNCHANGED << host, loop, lcore_conf, enabled_ports, conf >> /\ pc \in Configured
        /\ pc' \in Configured \/ pc' = "crashed"
    BY <1>9 DEF CheckLinks, Poll, LinksChecked, InitZipf, parsed, queues, Configured
  <2> QED  BY <2>1, RxElsewhere
<1>10. CASE InitAddress \/ InitFailureAct \/ InitBatchMap \/ AssignClients \/ LaunchClient
  <2>1. /\ UNCHANGED << host, loop, lcore_conf, enabled_ports, conf >> /\ pc \in Configured
        /\ pc' \in Configured \/ pc' = "undefined"
    BY <1>10 DEF InitAddress, InitFailureAct, InitBatchMap, AssignClients, LaunchClient,
                 parsed, queues, Configured
  <2> QED  BY <2>1, RxElsewhere
<1>11. CASE get_queue_len_in_switch
  <2>1. /\ UNCHANGED << host, loop, lcore_conf, enabled_ports, conf >> /\ pc \in Configured
        /\ pc' \in Configured \/ pc' = "undefined"
    BY <1>11 DEF get_queue_len_in_switch, parsed, queues, Configured
  <2> QED  BY <2>1, RxElsewhere
<1> QED  BY <1>2, <1>3, <1>4, <1>5, <1>6, <1>7, <1>8, <1>9, <1>10, <1>11,
            AssignLcoreRx DEF Next

LEMMA SharedOutInvariance == Spec => []SharedOut
<1>1. Init => SharedOut
  BY InvInit, ConfInit, RxInit DEF SharedOut
<1>2. SharedOut /\ Inv' /\ ConfInv' /\ [Next]_vars => SharedOut'
  BY RxNext DEF SharedOut
<1>3. Spec => []ConfInv
  <2>1. GivenInv => ConfInv
    BY DEF GivenInv
  <2> QED  BY GivenInvariance, <2>1, PTL
<1> QED  BY Invariance, <1>1, <1>2, <1>3, PTL DEF Spec

\* Where a lcore sits: its port, its TX queue, and what it receives.
LEMMA PlaceOf ==
    ASSUME SharedOut, pc = "running", NEW a \in Lcores
    PROVE  \E k \in 0 .. (n_ports - 1), t \in 0 .. (TxQueuesPerPort - 1) :
             /\ a = TxQueuesPerPort * k + t
             /\ OfLcore(a).port = enabled_ports[k + 1]
             /\ OfLcore(a).rx = IF Receives(a) THEN RxQueuesAt(t) ELSE {}
<1> DEFINE T == TxQueuesPerPort
           j == a + 1
<1>1. T \in Nat \ {0} /\ n_ports \in Nat /\ Len(lcore_conf) = n_lcores /\ n_lcores \in Nat
  BY DEF SharedOut, RxInv, Inv, LoopInv, n_ports, Configured
<1>2. j \in 1 .. Len(lcore_conf) /\ j - 1 = a
  BY <1>1 DEF Lcores
<1> HIDE DEF j, T
<1>3. PICK k \in 0 .. (n_ports - 1) :
        /\ lcore_conf[j].port = enabled_ports[k + 1]
        /\ j - 1 = k * T + lcore_conf[j].tx
  BY <1>2 DEF SharedOut, Inv, QueueInv, T
<1>4. /\ lcore_conf[j].tx < T
      /\ lcore_conf[j].rx = IF Receives(j - 1) THEN RxQueuesAt(lcore_conf[j].tx) ELSE {}
  BY <1>2 DEF SharedOut, RxInv, T
<1>5. lcore_conf[j].tx \in Nat
  <2>1. lcore_conf \in Seq(LcoreConf)
    BY DEF SharedOut, Inv, LoopInv
  <2>2. lcore_conf[j] \in LcoreConf
    BY <1>2, <2>1
  <2> QED  BY <2>2 DEF LcoreConf
<1> DEFINE t == lcore_conf[j].tx
<1>6. t \in 0 .. (T - 1)
  BY <1>1, <1>4, <1>5
<1>7. k * T = T * k
  BY <1>1, <1>3
<1>8. OfLcore(a) = lcore_conf[j]
  BY DEF OfLcore, j
<1> HIDE DEF t
<1>9. a = T * k + t
  BY <1>2, <1>3, <1>7 DEF t
<1> QED  BY <1>2, <1>3, <1>4, <1>6, <1>8, <1>9 DEF T, t

\* The RX queues of a port go to the first W lcores of the port.
LEMMA ReceiversOfPort ==
    ASSUME SharedOut, pc = "running",
           conf.role = "client" => n_ports = 1 /\ n_rcv_cores <= n_lcores,
           NEW n \in 1 .. n_ports
    PROVE  \E W \in 0 .. TxQueuesPerPort :
             /\ RxQueuesPerPort = RxQueuesPerLcore * W
             /\ \A t \in 0 .. (TxQueuesPerPort - 1) :
                  Receives(TxQueuesPerPort * (n - 1) + t) <=> t < W
<1> DEFINE T == TxQueuesPerPort
           R == RxQueuesPerLcore
           P == n_ports
           L == n_lcores
<1>1. T \in Nat \ {0} /\ P \in Nat \ {0} /\ L = P * T /\ R \in Nat \ {0}
      /\ n_rcv_cores \in Nat
  BY SizesAssumption
     DEF SharedOut, RxInv, Inv, LoopInv, ConfInv, n_ports, Configured, n_rcv_cores
<1>2. CASE conf.role # "client"
  <2>1. RxQueuesPerPort = (R * L) \div P
    BY <1>2 DEF RxQueuesPerPort
  <2> HIDE DEF T, R, P, L
  <2>2. R * T \in Nat /\ R * L = P * (R * T)
    BY <1>1
  <2>3. RxQueuesPerPort = R * T
    BY <1>1, <2>1, <2>2, ProductDivided
  <2>4. \A t \in 0 .. T - 1 : Receives(T * (n - 1) + t) /\ t < T
    BY <1>1, <1>2 DEF Receives
  <2>5. T \in 0 .. T
    BY <1>1
  <2> QED  BY <2>3, <2>4, <2>5 DEF T, R
<1>3. CASE conf.role = "client"
  <2> DEFINE W == n_rcv_cores
  <2>1. P = 1 /\ W <= L /\ RxQueuesPerPort = (R * W) \div P
    BY <1>3 DEF RxQueuesPerPort
  <2>2. n - 1 = 0
    BY <2>1 DEF P
  <2>3. \A t : Receives(t) <=> t < W
    BY <1>3 DEF Receives
  <2> HIDE DEF T, R, P, L, W
  <2>4. W \in Nat
    BY <1>1 DEF W
  <2>5. L = T /\ W \in 0 .. T
    BY <1>1, <2>1, <2>4
  <2>6. R * W \in Nat /\ 1 * (R * W) = R * W
    BY <1>1, <2>4
  <2>7. RxQueuesPerPort = R * W
    BY <2>1, <2>6, ProductDivided
  <2>8. \A t \in 0 .. T - 1 : T * (n - 1) + t = t
    <3>1. T * 0 = 0
      BY <1>1
    <3> QED  BY <1>1, <2>2, <3>1
  <2> QED  BY <2>3, <2>5, <2>7, <2>8 DEF T, R
<1> QED  BY <1>2, <1>3

LEMMA OneLcorePerRxQueue ==
    ASSUME SharedOut, pc = "running",
           conf.role = "client" => n_ports = 1 /\ n_rcv_cores <= n_lcores,
           NEW n \in 1 .. n_ports, NEW q \in 0 .. (RxQueuesPerPort - 1)
    PROVE  \E b \in Lcores :
             {a \in Lcores : OfLcore(a).port = enabled_ports[n] /\ q \in OfLcore(a).rx} = {b}
<1> DEFINE T == TxQueuesPerPort
           R == RxQueuesPerLcore
           P == n_ports
<1>1. T \in Nat \ {0} /\ P \in Nat \ {0} /\ n_lcores = P * T /\ R \in Nat \ {0}
  BY SizesAssumption DEF SharedOut, RxInv, Inv, LoopInv, n_ports, Configured
<1>2. PICK W \in 0 .. T :
        /\ RxQueuesPerPort = R * W
        /\ \A t \in 0 .. T - 1 : Receives(T * (n - 1) + t) <=> t < W
  BY ReceiversOfPort
<1>3. \A k \in 0 .. (P - 1) : enabled_ports[k + 1] = enabled_ports[n] <=> k = n - 1
  <2>1. \A k \in 0 .. (P - 1) : k + 1 \in 1 .. n_ports
    BY <1>1
  <2> QED  BY <1>1, <2>1 DEF SharedOut, Inv, PortsInv
<1>4. \A a \in Lcores : \E k \in 0 .. (P - 1), t \in 0 .. (T - 1) :
        /\ a = T * k + t
        /\ OfLcore(a).port = enabled_ports[k + 1]
        /\ OfLcore(a).rx = IF Receives(a) THEN RxQueuesAt(t) ELSE {}
  BY PlaceOf
<1>5. q \in Nat /\ n \in 1 .. P
  <2>1. R * W \in Nat
    BY <1>1, <1>2
  <2> QED  BY <1>2, <2>1
<1> HIDE DEF T, P
<1> DEFINE u == q \div R
           b == T * (n - 1) + u
<1>6. u \in Nat /\ q % R \in 0 .. (R - 1) /\ q = R * u + (q % R)
  BY <1>1, <1>5, ModDef
<1> HIDE DEF R
<1>7. \A t \in Nat : q \in RxQueuesAt(t) <=> t = u
  <2> SUFFICES ASSUME NEW t \in Nat  PROVE q \in RxQueuesAt(t) <=> t = u
    OBVIOUS
  <2> HIDE DEF u
  <2>1. R * t \in Nat /\ R * u \in Nat
    BY <1>1, <1>6
  <2>2. RxQueuesAt(t) = R * t .. (R * t + R - 1)
    BY DEF RxQueuesAt, R
  <2>3. ASSUME q \in RxQueuesAt(t)  PROVE t = u
    <3> DEFINE s == q - R * t
    <3>1. s \in 0 .. R - 1 /\ q = R * t + s
      BY <1>1, <1>5, <2>1, <2>2, <2>3
    <3> HIDE DEF s
    <3>2. R * t + s = R * u + (q % R)
      BY <1>6, <3>1
    <3> QED  BY <1>1, <1>6, <3>1, <3>2, DivUnique
  <2>4. ASSUME t = u  PROVE q \in RxQueuesAt(t)
    BY <1>1, <1>5, <1>6, <2>1, <2>2, <2>4
  <2> QED  BY <2>3, <2>4
<1>8. u < W
  <2> SUFFICES ASSUME W <= u  PROVE FALSE
    BY <1>2, <1>6
  <2> HIDE DEF u
  <2>1. u * R >= W * R /\ u * R = R * u /\ W * R = R * W
    BY <1>1, <1>2, <1>6, Product
  <2>2. R * u \in Nat /\ R * W \in Nat
    BY <1>1, <1>2, <1>6
  <2> QED  BY <1>2, <1>6, <2>1, <2>2
<1>9. u \in 0 .. (T - 1) /\ n - 1 \in 0 .. (P - 1)
  BY <1>1, <1>2, <1>5, <1>6, <1>8
<1>10. b \in Lcores
  <2> HIDE DEF u
  <2>1. P * T >= n * T /\ n * T = T * (n - 1) + T /\ T * (n - 1) \in Nat
    <3>1. P >= n /\ n \in Nat
      BY <1>1, <1>5
    <3>2. P * T >= n * T
      BY <1>1, <3>1, Product
    <3> DEFINE m == n - 1
    <3>3. m \in Nat /\ n = m + 1
      BY <1>5
    <3> HIDE DEF m
    <3>4. n * T = T * m + T /\ T * m \in Nat
      BY <1>1, <3>3
    <3> QED  BY <3>2, <3>4 DEF m
  <2>2. P * T \in Nat /\ n * T \in Nat
    BY <1>1, <1>5
  <2>3. b \in Nat /\ b < P * T
    BY <1>1, <1>9, <2>1, <2>2
  <2> HIDE DEF b
  <2> QED  BY <1>1, <2>2, <2>3 DEF Lcores
<1>11. Receives(b)
  BY <1>2, <1>8, <1>9
<1> HIDE DEF u
<1>12. ASSUME NEW a \in Lcores
       PROVE  OfLcore(a).port = enabled_ports[n] /\ q \in OfLcore(a).rx <=> a = b
  <2>1. PICK k \in 0 .. (P - 1), t \in 0 .. (T - 1) :
          /\ a = T * k + t
          /\ OfLcore(a).port = enabled_ports[k + 1]
          /\ OfLcore(a).rx = IF Receives(a) THEN RxQueuesAt(t) ELSE {}
    BY <1>4
  <2>2. OfLcore(a).port = enabled_ports[n] <=> k = n - 1
    BY <1>3, <2>1
  <2>3. t \in Nat
    BY <1>1
  <2>4. ASSUME OfLcore(a).port = enabled_ports[n], q \in OfLcore(a).rx  PROVE a = b
    <3>1. k = n - 1 /\ t = u
      BY <1>7, <2>1, <2>2, <2>3, <2>4
    <3> QED  BY <2>1, <3>1
  <2>5. ASSUME a = b  PROVE OfLcore(a).port = enabled_ports[n] /\ q \in OfLcore(a).rx
    <3>1. T * k + t = T * (n - 1) + u
      BY <2>1, <2>5
    <3>2. k = n - 1 /\ t = u
      <4>1. k \in Int /\ n - 1 \in Int /\ T \in Nat /\ T > 0
        BY <1>1, <1>5
      <4> QED  BY <1>9, <3>1, <4>1, DivUnique
    <3>3. OfLcore(a).rx = RxQueuesAt(u)
      BY <1>11, <2>1, <2>5, <3>2
    <3> QED  BY <1>6, <1>7, <2>2, <3>2, <3>3
  <2> QED  BY <2>4, <2>5
<1> HIDE DEF b
<1> QED  BY <1>10, <1>12

\* Every RX queue that was set up is polled, by one lcore and one only: whatever
\* lcores, ports and mask a server was started with, and by a client of one port
\* that has the lcores it was told to receive with.
THEOREM RxQueuesSharedOut == Spec => []EveryRxQueuePolled
<1>1. SharedOut => EveryRxQueuePolled
  <2> SUFFICES ASSUME SharedOut, pc = "running",
                      conf.role = "client" => n_ports = 1 /\ n_rcv_cores <= n_lcores,
                      NEW n \in 1 .. n_ports, NEW q \in 0 .. (RxQueuesPerPort - 1)
               PROVE  Cardinality({a \in Lcores : /\ OfLcore(a).port = enabled_ports[n]
                                                  /\ q \in OfLcore(a).rx}) = 1
    BY DEF EveryRxQueuePolled
  <2>1. PICK b \in Lcores :
          {a \in Lcores : OfLcore(a).port = enabled_ports[n] /\ q \in OfLcore(a).rx} = {b}
    BY OneLcorePerRxQueue
  <2> QED  BY <2>1, FS_Singleton
<1> QED  BY SharedOutInvariance, <1>1, PTL

-----------------------------------------------------------------------------
(* The lengths of the queues in the switch, as the server knows them.      *)

LengthsInv ==
    /\ pc = "clients" => host.program = "client"
    /\ (/\ pc \in {"address", "failure_act", "batch", "running"}
        /\ host.program = "server" /\ conf.benchmark \notin {"s", "x", "n"})
           => len_in_switch = [l \in Locks |-> LengthFromFile(l)]

LengthIn(file, rows) ==
    IF rows = {} THEN 0 ELSE Layouts[file][CHOOSE n \in rows : TRUE].len

LEMMA SameLengths ==
    ASSUME UNCHANGED conf
    PROVE  \A l : LengthFromFile(l)' = LengthFromFile(l)
<1>1. LayoutFile' = LayoutFile
  BY Zenon DEF LayoutFile
<1>2. \A l : RowsFound(l)' = RowsFound(l)
  BY <1>1 DEF RowsFound
<1> TAKE l
<1>3. LengthFromFile(l) = LengthIn(LayoutFile, RowsFound(l))
  BY DEF LengthFromFile, LengthIn
<1>4. LengthFromFile(l)' = LengthIn(LayoutFile', RowsFound(l)')
  BY DEF LengthFromFile, LengthIn
<1> QED  BY <1>1, <1>2, <1>3, <1>4

LEMMA LengthsElsewhere ==
    ASSUME LengthsInv, UNCHANGED << host, len_in_switch >>,
           \/ conf' = conf /\ pc' = pc
           \/ pc' \notin {"address", "failure_act", "batch", "running", "clients"}
           \/ /\ conf' = conf /\ pc' # "clients"
              /\ pc \in {"address", "failure_act", "batch"} \/ host.program # "server"
           \/ conf' = conf /\ pc = "batch" /\ pc' = "clients" /\ host.program = "client"
    PROVE  LengthsInv'
<1>1. CASE conf' = conf
  <2>1. \A l : LengthFromFile(l)' = LengthFromFile(l)
    BY <1>1, SameLengths
  <2>2. [l \in Locks |-> LengthFromFile(l)]' = [l \in Locks |-> LengthFromFile(l)]
    BY <2>1
  <2> QED  BY <1>1, <2>2 DEF LengthsInv
<1>2. CASE pc' \notin {"address", "failure_act", "batch", "running", "clients"}
  BY <1>2 DEF LengthsInv
<1> QED  BY <1>1, <1>2

LEMMA LengthsNext ==
    ASSUME LengthsInv, ConfInv, [Next]_vars  PROVE LengthsInv'
<1>1. host.program = "client" \/ host.program = "server"
  BY HostAssumption DEF ConfInv
<1>2. CASE UNCHANGED vars
  BY <1>2, LengthsElsewhere DEF vars
<1>3. CASE ParseOption \/ ParseEnd \/ CreatePool \/ EnablePort \/ PortsDone \/ CheckQueues
           \/ AssignLcore \/ ConfigurePorts \/ CheckLinks
  <2>1. /\ UNCHANGED << host, len_in_switch >>
        /\ pc' \notin {"address", "failure_act", "batch", "running", "clients"}
    BY <1>3 DEF ParseOption, ParseEnd, CreatePool, EnablePort, PortsDone, CheckQueues,
                AssignLcore, ConfigurePorts, CheckLinks, Poll, LinksChecked, tables
  <2> QED  BY <2>1, LengthsElsewhere
<1>4. CASE InitZipf
  <2>1. /\ UNCHANGED << host, len_in_switch, conf >>
        /\ \/ pc' \in {"crashed", "layout"}
           \/ pc' = "address" /\ host.program = "client"
    BY <1>4, InitZipfSteps DEF tables, parsed
  <2>2. CASE pc' \in {"crashed", "layout"}
    BY <2>1, <2>2, LengthsElsewhere
  <2>3. CASE pc' = "address" /\ host.program = "client"
    <3>1. host.program # "server" /\ pc' # "clients"
      BY <2>3
    <3> QED  BY <2>1, <3>1, LengthsElsewhere
  <2> QED  BY <2>1, <2>2, <2>3
<1>5. CASE InitAddress \/ InitFailureAct
  <2>1. /\ UNCHANGED << host, len_in_switch, conf >>
        /\ pc \in {"address", "failure_act"} /\ pc' \in {"failure_act", "batch", "undefined"}
    BY <1>5 DEF InitAddress, InitFailureAct, tables, parsed
  <2>2. pc \in {"address", "failure_act", "batch"} /\ pc' # "clients"
    BY <2>1
  <2> QED  BY <2>1, <2>2, LengthsElsewhere
<1>6. CASE InitBatchMap
  <2>1. /\ UNCHANGED << host, len_in_switch, conf >> /\ pc = "batch"
        /\ pc' = IF host.program = "client" THEN "clients" ELSE "running"
    BY <1>6 DEF InitBatchMap, parsed
  <2>2. CASE host.program = "client"
    BY <2>1, <2>2, LengthsElsewhere
  <2>3. CASE host.program # "client"
    <3>1. pc \in {"address", "failure_act", "batch"} /\ pc' # "clients"
      BY <2>1, <2>3
    <3> QED  BY <2>1, <3>1, LengthsElsewhere
  <2> QED  BY <2>2, <2>3
<1>7. CASE AssignClients
  <2>1. /\ UNCHANGED << host, len_in_switch, conf >>
        /\ pc' = pc \/ pc' = "undefined"
    BY <1>7 DEF AssignClients, parsed
  <2>2. CASE pc' = pc
    BY <2>1, <2>2, LengthsElsewhere
  <2>3. CASE pc' = "undefined"
    BY <2>1, <2>3, LengthsElsewhere
  <2> QED  BY <2>1, <2>2, <2>3
<1>8. CASE LaunchClient
  <2>1. /\ UNCHANGED << host, len_in_switch, conf >> /\ pc = "clients" /\ pc' = "running"
    BY <1>8 DEF LaunchClient, tables, parsed
  <2>2. host.program # "server" /\ pc' # "clients"
    BY <2>1 DEF LengthsInv
  <2> QED  BY <2>1, <2>2, LengthsElsewhere
<1>9. CASE get_queue_len_in_switch
  <2>1. conf' = conf /\ host' = host /\ pc' \in {"address", "undefined"}
    BY <1>9 DEF get_queue_len_in_switch, parsed
  <2>2. conf.benchmark \notin {"s", "x", "n"} =>
           len_in_switch' = [l \in Locks |-> LengthFromFile(l)]
    BY <1>9 DEF get_queue_len_in_switch
  <2>3. \A l : LengthFromFile(l)' = LengthFromFile(l)
    BY <2>1, SameLengths
  <2>4. [l \in Locks |-> LengthFromFile(l)]' = [l \in Locks |-> LengthFromFile(l)]
    BY <2>3
  <2> QED  BY <2>1, <2>2, <2>4 DEF LengthsInv
<1> QED  BY <1>2, <1>3, <1>4, <1>5, <1>6, <1>7, <1>8, <1>9 DEF Next

LEMMA LengthsInvariance == Spec => []LengthsInv
<1>1. Init => LengthsInv
  BY DEF Init, LengthsInv
<1>2. GivenInv => ConfInv
  BY DEF GivenInv
<1> QED  BY GivenInvariance, LengthsNext, <1>1, <1>2, PTL DEF Spec

\* The ring of row n is as long as the row says, whatever rows come before it.
LEMMA RingOfRow ==
    ASSUME ControllerFile \in DOMAIN Layouts, NEW n \in DOMAIN Layouts[ControllerFile]
    PROVE  Bounds(n).right - Bounds(n).left + 1 = Layouts[ControllerFile][n].len
<1> DEFINE rows == Layouts[ControllerFile]
           k == Len(rows)
           g == [m \in 1 .. k |-> rows[m].len]
           F(f) == [m \in 0 .. k |-> IF m = 0 THEN 0 ELSE f[m - 1] + rows[m].len]
<1>1. k \in Nat /\ n \in 1 .. k /\ \A m \in 1 .. k : rows[m].len \in Int
  BY LayoutAssumption
<1>2. \A m \in 1 .. k : g[m] = rows[m].len /\ g[m] \in Int
  BY <1>1
<1> HIDE DEF g
<1>3. PICK f : /\ f = [m \in 0 .. k |-> IF m = 0 THEN 0 ELSE f[m - 1] + g[m]]
               /\ \A m \in 0 .. k : f[m] \in Int
  <2> HIDE DEF k
  <2> QED  BY <1>1, <1>2, RunningSum
<1>4. f = F(f)
  <2> HIDE DEF k, rows
  <2>1. \A m \in 0 .. k : m # 0 => g[m] = rows[m].len
    BY <1>1, <1>2
  <2> QED  BY <1>3, <2>1
<1>5. \E s : s = F(s) /\ Bounds(n) = [left |-> s[n - 1] + 1, right |-> s[n]]
  BY <1>4 DEF Bounds
<1>6. PICK s : s = F(s) /\ Bounds(n) = [left |-> s[n - 1] + 1, right |-> s[n]]
  BY <1>5
<1>7. \A m \in 0 .. k : s[m] \in Int
  <2> HIDE DEF k
  <2>1. s = [m \in 0 .. k |-> IF m = 0 THEN 0 ELSE s[m - 1] + g[m]]
    <3>1. \A m \in 0 .. k : m # 0 => g[m] = rows[m].len
      BY <1>1, <1>2
    <3> QED  BY <1>6, <3>1
  <2> QED  BY <1>1, <1>2, <2>1, RunningSumType
<1>8. s[n] = s[n - 1] + rows[n].len
  <2> HIDE DEF k, rows
  <2>1. n \in 0 .. k /\ n # 0
    BY <1>1
  <2> QED  BY <1>6, <2>1
<1>9. s[n - 1] \in Int /\ s[n] \in Int /\ rows[n].len \in Int
  <2> HIDE DEF k, rows
  <2> QED  BY <1>1, <1>7
<1>10. Bounds(n).left = s[n - 1] + 1 /\ Bounds(n).right = s[n]
  <2> HIDE DEF F
  <2> QED  BY <1>6
<1> HIDE DEF rows
<1> QED  BY <1>8, <1>9, <1>10 DEF rows

LEMMA LengthsAgree == LengthsInv => ServerKnowsRings
<1> SUFFICES ASSUME LengthsInv, pc = "running", host.program = "server",
                    conf.benchmark = "t", conf.dir_prefix # "",
                    LayoutFile = ControllerFile, NEW l \in Locks
             PROVE  len_in_switch[l] = RingLength(l)
  BY DEF ServerKnowsRings
<1> DEFINE file == ControllerFile
           S == Rows(file, l)
           n == CHOOSE m \in S : TRUE
<1>1. len_in_switch[l] = LengthIn(LayoutFile, RowsFound(l))
  <2>1. len_in_switch = [x \in Locks |-> LengthFromFile(x)]
    BY DEF LengthsInv
  <2> QED  BY <2>1 DEF LengthFromFile, LengthIn
<1>2. LayoutFile = file /\ RowsFound(l) = S
  BY DEF RowsFound
<1>3. len_in_switch[l] = LengthIn(file, S)
  BY <1>1, <1>2
<1> HIDE DEF S, file
<1>4. CASE S = {}
  <2>1. RingLength(l) = 0
    BY <1>4 DEF RingLength, S, file
  <2> QED  BY <1>3, <1>4, <2>1 DEF LengthIn
<1>5. CASE S # {}
  <2>1. n \in S
    BY <1>5
  <2>2. file \in DOMAIN Layouts /\ n \in DOMAIN Layouts[file]
    <3>1. \A m \in S : file \in DOMAIN Layouts /\ m \in DOMAIN Layouts[file]
      BY DEF S, Rows
    <3> HIDE DEF n
    <3> QED  BY <2>1, <3>1
  <2>3. RingLength(l) = Bounds(n).right - Bounds(n).left + 1
    BY <1>5 DEF RingLength, S, file
  <2>4. len_in_switch[l] = Layouts[file][n].len
    BY <1>3, <1>5 DEF LengthIn
  <2> HIDE DEF n
  <2>5. Bounds(n).right - Bounds(n).left + 1 = Layouts[file][n].len
    BY <2>2, RingOfRow DEF file
  <2> QED  BY <2>3, <2>4, <2>5
<1> QED  BY <1>4, <1>5

\* A server of a TPC-C task that read the same layout as the controller knows the
\* length of every ring in the switch, for any layout: the controller adds up the
\* lengths of the rows before a lock, the server looks at the row of the lock alone.
THEOREM ServerLengthsRight == Spec => []ServerKnowsRings
  BY LengthsInvariance, LengthsAgree, PTL

-----------------------------------------------------------------------------
(* Sums over lcores.                                                       *)

\* What the recursive function inside SumOver(f, from, k) satisfies.
Sums(s, f, from, k) ==
    s = [n \in 0 .. k |-> IF n <= from THEN 0 ELSE s[n - 1] + f[n - 1]]

\* There is such a function.
LEMMA SumsExist ==
    ASSUME NEW f, NEW from \in Nat, NEW k \in Nat, \A m \in 0 .. (k - 1) : f[m] \in Int
    PROVE  \E s : Sums(s, f, from, k) /\ \A n \in 0 .. k : s[n] \in Int
<1> DEFINE g == [m \in 1 .. k |-> IF m <= from THEN 0 ELSE f[m - 1]]
<1>1. \A m \in 1 .. k : m - 1 \in 0 .. (k - 1)
  OBVIOUS
<1>2. \A m \in 1 .. k : g[m] = (IF m <= from THEN 0 ELSE f[m - 1]) /\ g[m] \in Int
  BY <1>1
<1> HIDE DEF g
<1>3. PICK s : /\ s = [m \in 0 .. k |-> IF m = 0 THEN 0 ELSE s[m - 1] + g[m]]
               /\ \A m \in 0 .. k : s[m] \in Int
  <2>1. \A m \in 1 .. k : g[m] \in Int
    BY <1>2
  <2> QED  BY ONLY k \in Nat, <2>1, RunningSum
<1>4. \A m \in 0 .. k : s[m] = IF m = 0 THEN 0 ELSE s[m - 1] + g[m]
  BY <1>3
<1> DEFINE Z == {n \in Nat : n <= k /\ n <= from => s[n] = 0}
<1>5. 0 \in Z
  BY <1>4
<1>6. ASSUME NEW n \in Nat, n \in Z  PROVE n + 1 \in Z
  <2> SUFFICES ASSUME n + 1 <= k, n + 1 <= from  PROVE s[n + 1] = 0
    OBVIOUS
  <2>1. s[n] = 0 /\ n + 1 \in 1 .. k /\ (n + 1) - 1 = n /\ n + 1 # 0 /\ n + 1 \in 0 .. k
    BY <1>6
  <2>2. s[n + 1] = s[n] + g[n + 1]
    BY <1>4, <2>1
  <2>3. g[n + 1] = 0
    BY <1>2, <2>1
  <2> QED  BY <2>1, <2>2, <2>3
<1>7. \A n \in Nat : n \in Z
  <2> HIDE DEF Z
  <2> QED  BY <1>5, <1>6, SetInduction
<1>8. ASSUME NEW n \in 0 .. k
      PROVE  s[n] = IF n <= from THEN 0 ELSE s[n - 1] + f[n - 1]
  <2>1. CASE n <= from
    BY <1>7, <2>1
  <2>2. CASE ~ n <= from
    <3>1. n # 0 /\ n \in 1 .. k
      BY <2>2
    <3>2. g[n] = f[n - 1]
      BY <1>2, <2>2, <3>1
    <3> QED  BY <1>4, <2>2, <3>1, <3>2
  <2> QED  BY <2>1, <2>2
<1>9. DOMAIN s = 0 .. k /\ s = [n \in 0 .. k |-> s[n]]
  BY <1>3
<1>10. Sums(s, f, from, k)
  BY <1>8, <1>9 DEF Sums
<1> QED  BY <1>3, <1>10

\* There is one such function only.
LEMMA SumsUnique ==
    ASSUME NEW f, NEW from \in Nat, NEW k \in Nat, NEW s, Sums(s, f, from, k)
    PROVE  Stats!SumOver(f, from, k) = s[k]
<1> DEFINE F(x) == [n \in 0 .. k |-> IF n <= from THEN 0 ELSE x[n - 1] + f[n - 1]]
<1>1. s = F(s)
  BY DEF Sums
<1>2. \E t : t = F(t) /\ Stats!SumOver(f, from, k) = t[k]
  BY <1>1 DEF Stats!SumOver
<1>3. PICK t : t = F(t) /\ Stats!SumOver(f, from, k) = t[k]
  BY <1>2
<1>4. \A n \in 0 .. k : t[n] = IF n <= from THEN 0 ELSE t[n - 1] + f[n - 1]
  BY <1>3
<1>5. \A n \in 0 .. k : s[n] = IF n <= from THEN 0 ELSE s[n - 1] + f[n - 1]
  BY <1>1
<1> DEFINE Z == {n \in Nat : n <= k => s[n] = t[n]}
<1>6. 0 \in Z
  BY <1>4, <1>5
<1>7. ASSUME NEW n \in Nat, n \in Z  PROVE n + 1 \in Z
  <2> SUFFICES ASSUME n + 1 <= k  PROVE s[n + 1] = t[n + 1]
    OBVIOUS
  <2>1. s[n] = t[n] /\ n + 1 \in 0 .. k /\ (n + 1) - 1 = n
    BY <1>7
  <2>2. s[n + 1] = IF n + 1 <= from THEN 0 ELSE s[n] + f[n]
    BY <1>5, <2>1
  <2>3. t[n + 1] = IF n + 1 <= from THEN 0 ELSE t[n] + f[n]
    BY <1>4, <2>1
  <2> QED  BY <2>1, <2>2, <2>3
<1>8. k \in Z
  <2> HIDE DEF Z
  <2> QED  BY <1>6, <1>7, SetInduction
<1> QED  BY <1>3, <1>8

\* A sum over no lcore.
LEMMA SumNone ==
    ASSUME NEW f, NEW from \in Nat, NEW k \in 0 .. from
    PROVE  Stats!SumOver(f, from, k) = 0
<1> DEFINE s == [n \in 0 .. k |-> 0]
<1>1. Sums(s, f, from, k)
  BY DEF Sums
<1>2. s[k] = 0
  OBVIOUS
<1> HIDE DEF s
<1>3. k \in Nat
  OBVIOUS
<1> QED  BY <1>1, <1>2, <1>3, SumsUnique

\* The type of a sum, and the lcore it adds next.
LEMMA SumType ==
    ASSUME NEW f, NEW from \in Nat, NEW k \in Nat, \A m \in 0 .. (k - 1) : f[m] \in Int
    PROVE  Stats!SumOver(f, from, k) \in Int
<1>1. PICK s : Sums(s, f, from, k) /\ \A n \in 0 .. k : s[n] \in Int
  BY SumsExist
<1>2. Stats!SumOver(f, from, k) = s[k] /\ k \in 0 .. k
  BY <1>1, SumsUnique
<1> QED  BY <1>1, <1>2

LEMMA SumStep ==
    ASSUME NEW f, NEW from \in Nat, NEW k \in Nat, \A m \in 0 .. k : f[m] \in Int
    PROVE  Stats!SumOver(f, from, k + 1) =
               IF k < from THEN 0 ELSE Stats!SumOver(f, from, k) + f[k]
<1>1. k + 1 \in Nat /\ \A m \in 0 .. ((k + 1) - 1) : f[m] \in Int
  OBVIOUS
<1>2. PICK s : Sums(s, f, from, k + 1)
  BY <1>1, SumsExist
<1>3. \A n \in 0 .. (k + 1) : s[n] = IF n <= from THEN 0 ELSE s[n - 1] + f[n - 1]
  BY <1>2 DEF Sums
<1> DEFINE t == [n \in 0 .. k |-> s[n]]
<1>4. Sums(t, f, from, k)
  <2>1. \A n \in 0 .. k : n \in 0 .. (k + 1) /\ (~ n <= from => n - 1 \in 0 .. k)
    OBVIOUS
  <2>2. \A n \in 0 .. k : t[n] = IF n <= from THEN 0 ELSE t[n - 1] + f[n - 1]
    BY <1>3, <2>1
  <2>3. DOMAIN t = 0 .. k /\ t = [n \in 0 .. k |-> t[n]]
    OBVIOUS
  <2> HIDE DEF t
  <2> QED  BY <2>2, <2>3 DEF Sums
<1>5. t[k] = s[k]
  OBVIOUS
<1> HIDE DEF t
<1>6. Stats!SumOver(f, from, k) = s[k]
  BY <1>4, <1>5, SumsUnique
<1>7. Stats!SumOver(f, from, k + 1) = s[k + 1]
  BY <1>1, <1>2, SumsUnique
<1>8. s[k + 1] = IF k + 1 <= from THEN 0 ELSE s[k] + f[k]
  BY <1>3
<1>9. k + 1 <= from <=> k < from
  OBVIOUS
<1> QED  BY <1>6, <1>7, <1>8, <1>9

\* Greater numbers give a greater sum.
LEMMA SumMonotone ==
    ASSUME NEW f, NEW g, NEW from \in Nat, NEW k \in Nat,
           \A m \in 0 .. (k - 1) : f[m] \in Int /\ g[m] \in Int /\ f[m] <= g[m]
    PROVE  Stats!SumOver(f, from, k) <= Stats!SumOver(g, from, k)
<1> DEFINE Z == {n \in Nat : n <= k => Stats!SumOver(f, from, n) <= Stats!SumOver(g, from, n)}
<1>1. 0 \in Z
  <2>1. 0 \in 0 .. from /\ 0 \in Nat
    OBVIOUS
  <2>2. Stats!SumOver(f, from, 0) = 0
    BY <2>1, SumNone
  <2>3. Stats!SumOver(g, from, 0) = 0
    BY <2>1, SumNone
  <2> QED  BY <2>2, <2>3
<1>2. ASSUME NEW n \in Nat, n \in Z  PROVE n + 1 \in Z
  <2> SUFFICES ASSUME n + 1 <= k
               PROVE  Stats!SumOver(f, from, n + 1) <= Stats!SumOver(g, from, n + 1)
    OBVIOUS
  <2>1. /\ \A m \in 0 .. n : f[m] \in Int
        /\ \A m \in 0 .. n : g[m] \in Int
        /\ \A m \in 0 .. (n - 1) : f[m] \in Int
        /\ \A m \in 0 .. (n - 1) : g[m] \in Int
        /\ f[n] \in Int /\ g[n] \in Int /\ f[n] <= g[n]
    OBVIOUS
  <2>2. Stats!SumOver(f, from, n) \in Int
    BY <2>1, SumType
  <2>3. Stats!SumOver(g, from, n) \in Int
    BY <2>1, SumType
  <2>4. Stats!SumOver(f, from, n + 1) = IF n < from THEN 0 ELSE Stats!SumOver(f, from, n) + f[n]
    BY <2>1, SumStep
  <2>5. Stats!SumOver(g, from, n + 1) = IF n < from THEN 0 ELSE Stats!SumOver(g, from, n) + g[n]
    BY <2>1, SumStep
  <2>6. Stats!SumOver(f, from, n) <= Stats!SumOver(g, from, n)
    BY <1>2
  <2> QED  BY <2>1, <2>2, <2>3, <2>4, <2>5, <2>6
<1>3. k \in Z
  <2> HIDE DEF Z
  <2> QED  BY <1>1, <1>2, SetInduction
<1> QED  BY <1>3

\* Adding up the same numbers gives the same sum.
LEMMA SumSame ==
    ASSUME NEW f, NEW g, NEW from \in Nat, NEW k \in Nat,
           \A m \in 0 .. (k - 1) : f[m] \in Int /\ g[m] = f[m]
    PROVE  Stats!SumOver(f, from, k) = Stats!SumOver(g, from, k)
<1>1. \A m \in 0 .. (k - 1) : /\ f[m] \in Int /\ g[m] \in Int
                              /\ f[m] <= g[m] /\ g[m] <= f[m]
  OBVIOUS
<1>2. Stats!SumOver(f, from, k) <= Stats!SumOver(g, from, k)
  BY <1>1, SumMonotone
<1>3. Stats!SumOver(g, from, k) <= Stats!SumOver(f, from, k)
  BY <1>1, SumMonotone
<1>4. Stats!SumOver(f, from, k) \in Int
  BY <1>1, SumType
<1>5. Stats!SumOver(g, from, k) \in Int
  BY <1>1, SumType
<1> QED  BY <1>2, <1>3, <1>4, <1>5

\* Adding up over more lcores gives no less, and no more if these add nothing.
LEMMA SumGrows ==
    ASSUME NEW f, NEW from \in Nat, NEW k \in Nat, NEW j \in 0 .. k,
           \A m \in 0 .. (k - 1) : f[m] \in Nat
    PROVE  /\ Stats!SumOver(f, from, j) <= Stats!SumOver(f, from, k)
           /\ (\A m \in j .. (k - 1) : f[m] = 0)
                 => Stats!SumOver(f, from, j) = Stats!SumOver(f, from, k)
<1> DEFINE S(n) == Stats!SumOver(f, from, n)
           Nothing == \A m \in j .. (k - 1) : f[m] = 0
           Z == {n \in Nat : j <= n /\ n <= k => /\ S(j) <= S(n)
                                                 /\ Nothing => S(j) = S(n)}
<1>1. ASSUME NEW n \in Nat, n <= k  PROVE S(n) \in Int
  <2>1. \A m \in 0 .. (n - 1) : f[m] \in Int
    BY <1>1
  <2> QED  BY <2>1, SumType
<1>2. S(j) \in Int /\ j \in Nat
  BY <1>1
<1>3. 0 \in Z
  BY <1>2
<1>4. ASSUME NEW n \in Nat, n \in Z  PROVE n + 1 \in Z
  <2> SUFFICES ASSUME j <= n + 1, n + 1 <= k
               PROVE  S(j) <= S(n + 1) /\ (Nothing => S(j) = S(n + 1))
    OBVIOUS
  <2>1. CASE j = n + 1
    BY <1>2, <2>1
  <2>2. CASE j <= n
    <3>1. /\ \A m \in 0 .. n : f[m] \in Int
          /\ f[n] \in Nat /\ n <= k /\ n \in j .. (k - 1)
      BY <2>2
    <3>2. S(n + 1) = IF n < from THEN 0 ELSE S(n) + f[n]
      BY <3>1, SumStep
    <3>3. n < from => S(n) = 0
      BY SumNone
    <3>4. S(j) <= S(n) /\ (Nothing => S(j) = S(n))
      BY <1>4, <2>2, <3>1
    <3>5. Nothing => f[n] = 0
      BY <3>1
    <3>6. S(n) \in Int
      BY <1>1, <3>1
    <3> HIDE DEF S, Nothing
    <3> QED  BY <1>2, <3>1, <3>2, <3>3, <3>4, <3>5, <3>6
  <2> QED  BY <1>2, <2>1, <2>2
<1>5. k \in Z
  <2> HIDE DEF Z
  <2> QED  BY <1>3, <1>4, SetInduction
<1> QED  BY <1>5

-----------------------------------------------------------------------------
(* The rate of every lcore.                                                *)

\* The start-up leaves these numbers behind; ExitInterval is one, too.
Started == n_lcores \in Nat /\ n_rcv_cores \in Nat /\ ExitInterval \in Nat

\* The part of the type that the loop indices need.
TypeInv ==
    /\ Started /\ Stats!TypeOK
    /\ next_update \in Nat
    /\ latency_sample_start \in {0, 1} /\ stop_statis \in {0, 1}
    /\ task \in {"start_total", "end_total"} => i < n_lcores

\* What lcore 0 has read of the counter of a lcore, in its pass of the task.
Read(lcore, total) == lcore < i \/ (task = total /\ lcore = i)

\* The first pass: the lcores before i have been read, one of them perhaps for the
\* first of two times.
FirstPass ==
    task \in {"start", "start_total"} =>
        /\ latency_sample_start = 0
        /\ \A lcore \in Stats!LcoreIds :
             /\ mark["start_begins"][lcore] <= tput_stat[lcore]
             /\ Read(lcore, "start_total") =>
                    /\ mark["start_begins"][lcore] <= tput_stat_avg[lcore].last
                    /\ tput_stat_avg[lcore].last <= tput_stat[lcore]

AfterFirst ==
    latency_sample_start = 1 =>
        \A lcore \in Stats!LcoreIds :
            /\ mark["start_begins"][lcore] <= tput_stat_avg[lcore].last
            /\ tput_stat_avg[lcore].last <= mark["start_ends"][lcore]

SecondPass ==
    task \in {"end", "end_total"} =>
        /\ latency_sample_start = 1 /\ stop_statis = 0
        /\ \A lcore \in Stats!LcoreIds :
             /\ mark["end_begins"][lcore] <= tput_stat[lcore]
             /\ Read(lcore, "end_total") =>
                    /\ mark["end_begins"][lcore] <= tput_stat_avg[lcore].now
                    /\ tput_stat_avg[lcore].now <= tput_stat[lcore]

AfterSecond ==
    Stats!Collected =>
        /\ latency_sample_start = 1
        /\ \A lcore \in Stats!LcoreIds :
             /\ mark["end_begins"][lcore] <= tput_stat_avg[lcore].now
             /\ tput_stat_avg[lcore].now <= mark["end_ends"][lcore]

StatsInv == TypeInv /\ FirstPass /\ AfterFirst /\ SecondPass /\ AfterSecond

\* Between the stages of lcore 0 the counters only grow.
Grows ==
    /\ UNCHANGED << Stats!given, task, i, sum, Stats!averages, Stats!printed, mark,
                    Stats!results >>
    /\ tput_stat' \in [Stats!LcoreIds -> Nat]
    /\ \A lcore \in Stats!LcoreIds : tput_stat[lcore] <= tput_stat'[lcore]

-----------------------------------------------------------------------------
LEMMA StatsInit == Stats!Init /\ Started => StatsInv
<1> SUFFICES ASSUME Stats!Init, Started  PROVE StatsInv
  OBVIOUS
<1>1. TypeInv
  BY DEF Stats!Init, TypeInv, Stats!TypeOK, Started, Stats!Zero, Stats!LcoreIds,
         Stats!Ends
<1>2. task = "loop" /\ latency_sample_start = 0 /\ stop_statis = 0
  BY DEF Stats!Init
<1> QED  BY <1>1, <1>2 DEF StatsInv, FirstPass, AfterFirst, SecondPass, AfterSecond,
                           Stats!Collected

\* The four parts about windows survive growing counters.
LEMMA WindowsGrow ==
    ASSUME StatsInv, Grows
    PROVE  (FirstPass /\ AfterFirst /\ SecondPass /\ AfterSecond)'
<1>1. /\ task' = task /\ i' = i /\ tput_stat_avg' = tput_stat_avg /\ mark' = mark
      /\ latency_sample_start' = latency_sample_start /\ stop_statis' = stop_statis
      /\ Stats!LcoreIds' = Stats!LcoreIds
  BY DEF Grows, Stats!given, Stats!averages, Stats!LcoreIds
<1>2. /\ tput_stat \in [Stats!LcoreIds -> Nat] /\ tput_stat' \in [Stats!LcoreIds -> Nat]
      /\ tput_stat_avg \in [Stats!LcoreIds -> [last : Nat, now : Nat]]
      /\ mark \in [Stats!Ends -> [Stats!LcoreIds -> Nat]]
      /\ {"start_begins", "end_begins"} \subseteq Stats!Ends
      /\ \A lcore \in Stats!LcoreIds : tput_stat[lcore] <= tput_stat'[lcore]
  BY DEF StatsInv, TypeInv, Stats!TypeOK, Grows, Stats!Ends
<1>3. \A lcore \in Stats!LcoreIds : \A b \in {"start_begins", "end_begins"} :
        mark[b][lcore] \in Nat
  BY <1>2
<1>4. FirstPass'
  BY <1>1, <1>2, <1>3 DEF StatsInv, FirstPass, Read
<1>5. AfterFirst'
  BY <1>1 DEF StatsInv, AfterFirst
<1>6. SecondPass'
  BY <1>1, <1>2, <1>3 DEF StatsInv, SecondPass, Read
<1>7. AfterSecond'
  BY <1>1 DEF StatsInv, AfterSecond, Stats!Collected
<1> QED  BY <1>4, <1>5, <1>6, <1>7

\* What the lcores other than 0 do between two steps of it, and time.
Others ==
    \/ \E lcore \in Stats!LcoreIds : Stats!Count(lcore)
    \/ \E lcore \in Stats!LcoreIds, latency \in Latencies :
           Stats!ReceiveGrant(lcore, latency) \/ Stats!FinishSample(lcore, latency)
    \/ Stats!Tick

\* The counters of the others only grow, and nothing else that lcore 0 left changes.
LEMMA OthersGrow ==
    ASSUME StatsInv, Others
    PROVE  Grows
<1>1. tput_stat \in [Stats!LcoreIds -> Nat]
  BY DEF StatsInv, TypeInv, Stats!TypeOK
<1>2. ASSUME NEW lcore \in Stats!LcoreIds, NEW n \in Nat,
             tput_stat' = [tput_stat EXCEPT ![lcore] = @ + n] \/ tput_stat' = tput_stat
      PROVE  /\ tput_stat' \in [Stats!LcoreIds -> Nat]
             /\ \A l \in Stats!LcoreIds : tput_stat[l] <= tput_stat'[l]
  BY <1>1, <1>2
<1>3. ASSUME NEW lcore \in Stats!LcoreIds, Stats!Count(lcore)  PROVE Grows
  <2>1. PICK n \in Stats!Increments(lcore) : tput_stat' = [tput_stat EXCEPT ![lcore] = @ + n]
    BY <1>3 DEF Stats!Count
  <2>2. n \in Nat
    BY <2>1, StatisticsBounds DEF Stats!Increments
  <2> QED  BY <1>2, <1>3, <2>1, <2>2 DEF Stats!Count, Grows
<1>4. ASSUME NEW lcore \in Stats!LcoreIds, NEW latency \in Latencies,
             Stats!ReceiveGrant(lcore, latency)
      PROVE  Grows
  <2>1. tput_stat' = tput_stat \/ tput_stat' = [tput_stat EXCEPT ![lcore] = @ + 1]
    BY <1>4 DEF Stats!ReceiveGrant
  <2> QED  BY <1>2, <1>4, <2>1 DEF Stats!ReceiveGrant, Grows
<1>5. ASSUME NEW lcore \in Stats!LcoreIds, NEW latency \in Latencies,
             Stats!FinishSample(lcore, latency)
      PROVE  Grows
  BY <1>1, <1>5 DEF Stats!FinishSample, Grows
<1>6. ASSUME Stats!Tick  PROVE Grows
  BY <1>1, <1>6 DEF Stats!Tick, Grows
<1> QED  BY <1>3, <1>4, <1>5, <1>6 DEF Others

LEMMA OthersStep ==
    ASSUME StatsInv, Others
    PROVE  StatsInv'
<1>1. /\ latency_sample_num \in [Stats!LcoreIds -> Nat] /\ clock \in 0 .. ExitInterval
  BY DEF StatsInv, TypeInv, Stats!TypeOK
<1>2. Grows
  BY OthersGrow
<1>3. latency_sample_num' \in [Stats!LcoreIds -> Nat]
  <2>1. ASSUME NEW lcore \in Stats!LcoreIds, Stats!Publish(lcore)
        PROVE  latency_sample_num' \in [Stats!LcoreIds -> Nat]
    BY <1>1, <2>1 DEF Stats!Publish
  <2>2. ASSUME NEW lcore \in Stats!LcoreIds, NEW latency \in Latencies,
               Stats!ReceiveGrant(lcore, latency)
        PROVE  latency_sample_num' \in [Stats!LcoreIds -> Nat]
    BY <1>1, <2>1, <2>2 DEF Stats!ReceiveGrant, Stats!Write
  <2>3. ASSUME NEW lcore \in Stats!LcoreIds, NEW latency \in Latencies,
               Stats!FinishSample(lcore, latency)
        PROVE  latency_sample_num' \in [Stats!LcoreIds -> Nat]
    BY <1>1, <2>1, <2>3 DEF Stats!FinishSample, Stats!Write
  <2> QED  BY <1>1, <2>2, <2>3 DEF Others, Stats!Count, Stats!Tick, Stats!sampled
<1>4. clock' \in 0 .. ExitInterval
  BY <1>1 DEF StatsInv, TypeInv, Started, Others, Stats!Count, Stats!ReceiveGrant,
              Stats!FinishSample, Stats!Tick
<1>5. TypeInv'
  <2>1. UNCHANGED << n_lcores, n_rcv_cores, Stats!LcoreIds, task, i, sum, tput_stat_avg,
                     mark, latency_sample_start, stop_statis, next_update >>
    BY <1>2 DEF Grows, Stats!given, Stats!averages, Stats!printed, Stats!LcoreIds
  <2> QED  BY <1>2, <1>3, <1>4, <2>1 DEF Grows, StatsInv, TypeInv, Stats!TypeOK, Started
<1> QED  BY <1>2, <1>5, WindowsGrow DEF StatsInv

-----------------------------------------------------------------------------
(* lcore 0. All its steps leave the counters of the others alone.          *)

Quiet == UNCHANGED << Stats!given, tput_stat, latency_sample_num, clock >>

LEMMA Lcore0Quiet == Stats!Lcore0 => Quiet
BY DEF Stats!Lcore0, Quiet, Stats!PrintBegin, Stats!PrintLcore, Stats!StartBegin,
       Stats!StartLcore, Stats!AddToTotal,
       Stats!StartEnd, Stats!EndBegin, Stats!EndLcore, Stats!EndEnd, Stats!CollectSample,
       Stats!CollectEnd, Stats!SortSample,
       Stats!WriteResults, Stats!Exit, Stats!sampled

\* Steps that read no counter into the averages.
Aside ==
    \/ Stats!PrintBegin \/ Stats!PrintLcore
    \/ Stats!CollectSample \/ Stats!CollectEnd \/ Stats!SortSample
    \/ Stats!WriteResults \/ Stats!Exit

LEMMA AsideStep ==
    ASSUME StatsInv, Aside  PROVE StatsInv'
<1>1. Quiet /\ UNCHANGED << tput_stat_avg, latency_sample_start, mark, Stats!LcoreIds >>
  BY DEF Aside, Quiet, Stats!PrintBegin, Stats!PrintLcore, Stats!CollectSample,
         Stats!CollectEnd, Stats!SortSample,
         Stats!WriteResults, Stats!WrittenOnce, Stats!Exit, Stats!averages,
         Stats!sampled, Stats!given, Stats!LcoreIds
<1>2. /\ i \in Nat /\ sum \in Nat /\ next_update \in Nat /\ stop_statis \in {0, 1}
      /\ n_rcv_cores \in Nat /\ n_lcores \in Nat /\ tput_stat \in [Stats!LcoreIds -> Nat]
  BY DEF StatsInv, TypeInv, Stats!TypeOK, Started
<1>3. /\ i' \in Nat /\ sum' \in Nat /\ next_update' \in Nat /\ stop_statis' \in {0, 1}
      /\ task' \in {"loop", "print", "collect", "sort", "exited"}
      /\ Stats!Collected' => Stats!Collected
  <2>1. CASE Stats!PrintBegin
    BY <1>2, <2>1 DEF Stats!PrintBegin, Stats!Idle, Stats!averages, Stats!Collected
  <2>2. CASE Stats!PrintLcore
    <3>1. i < n_lcores => tput_stat[i] \in Nat
      BY <1>2 DEF Stats!LcoreIds
    <3>2. UNCHANGED << next_update, stop_statis >> /\ task = "print"
      BY <2>2 DEF Stats!PrintLcore, Stats!averages
    <3>3. CASE i < n_lcores
      BY <1>2, <2>2, <3>1, <3>2, <3>3 DEF Stats!PrintLcore, Stats!Collected
    <3>4. CASE ~ i < n_lcores
      BY <1>2, <2>2, <3>2, <3>4 DEF Stats!PrintLcore, Stats!Pass, Stats!Collected
    <3> QED  BY <3>3, <3>4
  <2>3. CASE Stats!CollectSample
    BY <1>2, <2>3 DEF Stats!CollectSample, Stats!averages, Stats!printed, Stats!Collected
  <2>4. CASE Stats!CollectEnd
    BY <1>2, <2>4 DEF Stats!CollectEnd, Stats!Pass, Stats!averages, Stats!printed,
                      Stats!Collected
  <2>5. CASE Stats!SortSample
    BY <1>2, <2>5 DEF Stats!SortSample, Stats!averages, Stats!printed, Stats!Collected
  <2>6. CASE Stats!WriteResults
    BY <1>2, <2>6 DEF Stats!WriteResults, Stats!WrittenOnce, Stats!Pass, Stats!printed,
                      Stats!Collected
  <2>7. CASE Stats!Exit
    BY <1>2, <2>7 DEF Stats!Exit, Stats!averages, Stats!printed, Stats!Collected
  <2> QED  BY <2>1, <2>2, <2>3, <2>4, <2>5, <2>6, <2>7 DEF Aside
<1>4. TypeInv'
  BY <1>1, <1>3 DEF StatsInv, TypeInv, Stats!TypeOK, Started, Quiet, Stats!given
<1>5. AfterFirst' /\ AfterSecond'
  BY <1>1, <1>3 DEF StatsInv, AfterFirst, AfterSecond
<1>6. FirstPass' /\ SecondPass'
  BY <1>3 DEF FirstPass, SecondPass
<1> QED  BY <1>4, <1>5, <1>6 DEF StatsInv

\* The first pass.
LEMMA FirstStep ==
    ASSUME StatsInv, Stats!StartBegin \/ Stats!StartLcore \/ Stats!StartEnd  PROVE StatsInv'
<1>1. /\ n_lcores \in Nat /\ i \in Nat /\ tput_stat \in [Stats!LcoreIds -> Nat]
      /\ tput_stat_avg \in [Stats!LcoreIds -> [last : Nat, now : Nat]]
      /\ mark \in [Stats!Ends -> [Stats!LcoreIds -> Nat]]
      /\ Stats!Ends = {"start_begins", "start_ends", "end_begins", "end_ends", "collect_begins"}
  BY DEF StatsInv, TypeInv, Stats!TypeOK, Started, Stats!Ends
<1>2. UNCHANGED << n_lcores, n_rcv_cores, Stats!LcoreIds, tput_stat, latency_sample_num, clock,
                   next_update, stop_statis >>
  BY DEF Stats!StartBegin, Stats!StartLcore, Stats!StartEnd, Stats!given, Stats!sampled,
         Stats!printed, Stats!averages, Stats!LcoreIds
<1>3. CASE Stats!StartBegin
  <2>1. /\ task = "loop" /\ latency_sample_start = 0
        /\ task' = "start" /\ i' = 0 /\ sum' = 0
        /\ UNCHANGED << tput_stat_avg, latency_sample_start >>
        /\ mark' = [mark EXCEPT !["start_begins"] = tput_stat]
    BY <1>3 DEF Stats!StartBegin, Stats!Printed, Stats!Idle, Stats!Pass, Stats!averages
  <2>2. mark' \in [Stats!Ends -> [Stats!LcoreIds -> Nat]] /\ mark'["start_begins"] = tput_stat
    BY <1>1, <2>1
  <2>3. TypeInv'
    BY <1>2, <2>1, <2>2 DEF StatsInv, TypeInv, Stats!TypeOK, Started
  <2>4. stop_statis = 0
    BY <2>1 DEF StatsInv, TypeInv, AfterSecond, Stats!Collected
  <2>5. FirstPass'
    BY <1>1, <1>2, <2>1, <2>2 DEF FirstPass, Read, Stats!LcoreIds
  <2> QED  BY <1>2, <2>1, <2>3, <2>4, <2>5 DEF StatsInv, AfterFirst, SecondPass,
                                               AfterSecond,
                                             Stats!Collected
<1>4. CASE Stats!StartLcore
  <2>1. /\ task = "start" /\ i < n_lcores /\ i \in Stats!LcoreIds
        /\ task' = "start_total"
        /\ UNCHANGED << i, sum, latency_sample_start, mark >>
        /\ tput_stat_avg' = [tput_stat_avg EXCEPT ![i].last = tput_stat[i]]
    BY <1>1, <1>4 DEF Stats!StartLcore, Stats!Snapshot, Stats!LcoreIds
  <2>2. /\ tput_stat_avg' \in [Stats!LcoreIds -> [last : Nat, now : Nat]]
        /\ \A lcore \in Stats!LcoreIds :
             tput_stat_avg'[lcore].last =
                 IF lcore = i THEN tput_stat[i] ELSE tput_stat_avg[lcore].last
    BY <1>1, <2>1
  <2>3. TypeInv'
    BY <1>2, <2>1, <2>2 DEF StatsInv, TypeInv, Stats!TypeOK, Started
  <2>4. latency_sample_start = 0 /\ stop_statis = 0
    BY <2>1 DEF StatsInv, TypeInv, FirstPass, AfterSecond, Stats!Collected
  <2>5. FirstPass'
    <3> SUFFICES ASSUME NEW lcore \in Stats!LcoreIds
                 PROVE  /\ mark["start_begins"][lcore] <= tput_stat[lcore]
                        /\ lcore < i \/ lcore = i =>
                             /\ mark["start_begins"][lcore] <= tput_stat_avg'[lcore].last
                             /\ tput_stat_avg'[lcore].last <= tput_stat[lcore]
      BY <1>2, <2>1, <2>4 DEF FirstPass, Read
    <3>1. /\ mark["start_begins"][lcore] <= tput_stat[lcore]
          /\ lcore < i => /\ mark["start_begins"][lcore] <= tput_stat_avg[lcore].last
                          /\ tput_stat_avg[lcore].last <= tput_stat[lcore]
      BY <2>1 DEF StatsInv, FirstPass, Read
    <3>2. tput_stat[lcore] \in Nat
      BY <1>1
    <3> QED  BY <1>1, <2>1, <2>2, <3>1, <3>2
  <2> QED  BY <1>2, <2>1, <2>3, <2>4, <2>5 DEF StatsInv, AfterFirst, SecondPass,
                                               AfterSecond,
                                             Stats!Collected
<1>5. CASE Stats!StartEnd
  <2>1. /\ task = "start" /\ i = n_lcores
        /\ task' = "loop" /\ i' = 0 /\ sum' = 0 /\ latency_sample_start' = 1
        /\ UNCHANGED tput_stat_avg
        /\ mark' = [mark EXCEPT !["start_ends"] = tput_stat]
    BY <1>5 DEF Stats!StartEnd, Stats!Opens, Stats!Pass
  <2>2. /\ mark' \in [Stats!Ends -> [Stats!LcoreIds -> Nat]] /\ mark'["start_ends"] = tput_stat
        /\ mark'["start_begins"] = mark["start_begins"]
    BY <1>1, <2>1
  <2>3. TypeInv'
    BY <1>2, <2>1, <2>2 DEF StatsInv, TypeInv, Stats!TypeOK, Started
  <2>4. stop_statis = 0
    BY <2>1 DEF StatsInv, TypeInv, FirstPass, AfterSecond, Stats!Collected
  <2>5. AfterFirst'
    <3>1. \A lcore \in Stats!LcoreIds :
            /\ mark["start_begins"][lcore] <= tput_stat_avg[lcore].last
            /\ tput_stat_avg[lcore].last <= tput_stat[lcore]
      BY <1>1, <2>1 DEF StatsInv, FirstPass, Read, Stats!LcoreIds
    <3> QED  BY <1>2, <2>1, <2>2, <3>1 DEF AfterFirst
  <2> QED  BY <1>2, <2>1, <2>3, <2>4, <2>5 DEF StatsInv, FirstPass, SecondPass,
                                               AfterSecond,
                                             Stats!Collected
<1> QED  BY <1>3, <1>4, <1>5

\* The second pass reads the counters as the first did.
LEMMA SecondStep ==
    ASSUME StatsInv, Stats!EndBegin \/ Stats!EndLcore \/ Stats!EndEnd  PROVE StatsInv'
<1>1. /\ n_lcores \in Nat /\ i \in Nat /\ tput_stat \in [Stats!LcoreIds -> Nat]
      /\ latency_sample_num \in [Stats!LcoreIds -> Nat]
      /\ tput_stat_avg \in [Stats!LcoreIds -> [last : Nat, now : Nat]]
      /\ mark \in [Stats!Ends -> [Stats!LcoreIds -> Nat]]
      /\ Stats!Ends = {"start_begins", "start_ends", "end_begins", "end_ends", "collect_begins"}
  BY DEF StatsInv, TypeInv, Stats!TypeOK, Started, Stats!Ends
<1>2. UNCHANGED << n_lcores, n_rcv_cores, Stats!LcoreIds, tput_stat, latency_sample_num, clock,
                   next_update, stop_statis, latency_sample_start >>
  BY DEF Stats!EndBegin, Stats!EndLcore, Stats!EndEnd, Stats!given, Stats!sampled,
         Stats!printed, Stats!averages, Stats!LcoreIds
<1>3. CASE Stats!EndBegin
  <2>1. /\ task = "loop" /\ latency_sample_start = 1 /\ stop_statis = 0
        /\ task' = "end" /\ i' = 0 /\ sum' = 0
        /\ UNCHANGED tput_stat_avg
        /\ mark' = [mark EXCEPT !["end_begins"] = tput_stat]
    BY <1>3 DEF Stats!EndBegin, Stats!Printed, Stats!Idle, Stats!Pass, Stats!averages
  <2>2. /\ mark' \in [Stats!Ends -> [Stats!LcoreIds -> Nat]] /\ mark'["end_begins"] = tput_stat
        /\ mark'["start_begins"] = mark["start_begins"]
        /\ mark'["start_ends"] = mark["start_ends"]
    BY <1>1, <2>1
  <2>3. TypeInv'
    BY <1>2, <2>1, <2>2 DEF StatsInv, TypeInv, Stats!TypeOK, Started
  <2>4. SecondPass'
    BY <1>1, <1>2, <2>1, <2>2 DEF SecondPass, Read, Stats!LcoreIds
  <2>5. AfterFirst'
    BY <1>2, <2>1, <2>2 DEF StatsInv, AfterFirst
  <2> QED  BY <1>2, <2>1, <2>3, <2>4, <2>5 DEF StatsInv, FirstPass, AfterSecond,
                                               Stats!Collected
<1>4. CASE Stats!EndLcore
  <2>1. /\ task = "end" /\ i < n_lcores /\ i \in Stats!LcoreIds
        /\ task' \in {"crashed", "end_total"}
        /\ UNCHANGED << i, sum, mark >>
        /\ tput_stat_avg' = [tput_stat_avg EXCEPT ![i].now = tput_stat[i]]
    BY <1>1, <1>4 DEF Stats!EndLcore, Stats!LcoreIds
  <2>2. /\ tput_stat_avg' \in [Stats!LcoreIds -> [last : Nat, now : Nat]]
        /\ \A lcore \in Stats!LcoreIds :
             /\ tput_stat_avg'[lcore].now =
                    IF lcore = i THEN tput_stat[i] ELSE tput_stat_avg[lcore].now
             /\ tput_stat_avg'[lcore].last = tput_stat_avg[lcore].last
    BY <1>1, <2>1
  <2>3. TypeInv'
    BY <1>2, <2>1, <2>2 DEF StatsInv, TypeInv, Stats!TypeOK, Started
  <2>4. latency_sample_start = 1 /\ stop_statis = 0
    BY <2>1 DEF StatsInv, SecondPass
  <2>5. SecondPass'
    <3> SUFFICES ASSUME NEW lcore \in Stats!LcoreIds
                 PROVE  /\ mark["end_begins"][lcore] <= tput_stat[lcore]
                        /\ lcore < i \/ lcore = i =>
                             /\ mark["end_begins"][lcore] <= tput_stat_avg'[lcore].now
                             /\ tput_stat_avg'[lcore].now <= tput_stat[lcore]
      BY <1>2, <2>1, <2>4 DEF SecondPass, Read
    <3>1. /\ mark["end_begins"][lcore] <= tput_stat[lcore]
          /\ lcore < i => /\ mark["end_begins"][lcore] <= tput_stat_avg[lcore].now
                          /\ tput_stat_avg[lcore].now <= tput_stat[lcore]
      BY <2>1 DEF StatsInv, SecondPass, Read
    <3>2. tput_stat[lcore] \in Nat
      BY <1>1
    <3> QED  BY <1>1, <2>1, <2>2, <3>1, <3>2
  <2>6. AfterFirst'
    BY <1>2, <2>1, <2>2 DEF StatsInv, AfterFirst
  <2> QED  BY <1>2, <2>1, <2>3, <2>4, <2>5, <2>6 DEF StatsInv, FirstPass, AfterSecond,
                                                     Stats!Collected
<1>5. CASE Stats!EndEnd
  <2>1. /\ task = "end" /\ i = n_lcores
        /\ task' = "collect" /\ i' = 0 /\ sum' = 0
        /\ UNCHANGED tput_stat_avg
        /\ mark' = [mark EXCEPT !["end_ends"] = tput_stat,
                                !["collect_begins"] = latency_sample_num]
    BY <1>5 DEF Stats!EndEnd
  <2>2. /\ mark' \in [Stats!Ends -> [Stats!LcoreIds -> Nat]] /\ mark'["end_ends"] = tput_stat
        /\ mark'["start_begins"] = mark["start_begins"]
        /\ mark'["start_ends"] = mark["start_ends"]
        /\ mark'["end_begins"] = mark["end_begins"]
    BY <1>1, <2>1
  <2>3. TypeInv'
    BY <1>2, <2>1, <2>2 DEF StatsInv, TypeInv, Stats!TypeOK, Started
  <2>4. latency_sample_start = 1
    BY <2>1 DEF StatsInv, SecondPass
  <2>5. AfterSecond'
    <3>1. \A lcore \in Stats!LcoreIds :
            /\ mark["end_begins"][lcore] <= tput_stat_avg[lcore].now
            /\ tput_stat_avg[lcore].now <= tput_stat[lcore]
      BY <1>1, <2>1 DEF StatsInv, SecondPass, Read, Stats!LcoreIds
    <3> QED  BY <1>2, <2>1, <2>2, <2>4, <3>1 DEF AfterSecond
  <2>6. AfterFirst'
    BY <1>2, <2>1, <2>2 DEF StatsInv, AfterFirst
  <2> QED  BY <1>2, <2>1, <2>3, <2>5, <2>6 DEF StatsInv, FirstPass, SecondPass
<1> QED  BY <1>3, <1>4, <1>5

\* The second read of a counter, in both passes.
LEMMA TotalStep ==
    ASSUME StatsInv, Stats!AddToTotal  PROVE StatsInv'
<1>1. /\ n_lcores \in Nat /\ i \in Nat /\ sum \in Nat /\ tput_stat \in [Stats!LcoreIds -> Nat]
  BY DEF StatsInv, TypeInv, Stats!TypeOK, Started
<1>2. UNCHANGED << n_lcores, n_rcv_cores, Stats!LcoreIds, tput_stat, latency_sample_num, clock,
                   next_update, stop_statis, latency_sample_start, tput_stat_avg, mark >>
  BY DEF Stats!AddToTotal, Stats!given, Stats!sampled, Stats!printed, Stats!averages,
         Stats!LcoreIds
<1>3. \/ task = "start_total" /\ task' = "start"
      \/ task = "end_total" /\ task' = "end"
  BY DEF Stats!AddToTotal
<1>4. i' = i + 1 /\ sum' = sum + tput_stat[i] /\ i \in Stats!LcoreIds
  BY <1>1, <1>3 DEF Stats!AddToTotal, StatsInv, TypeInv, Stats!LcoreIds
<1>5. i' \in Nat /\ sum' \in Nat
  BY <1>1, <1>4
<1>6. TypeInv'
  BY <1>2, <1>3, <1>5 DEF StatsInv, TypeInv, Stats!TypeOK, Started
<1>7. \A lcore \in Stats!LcoreIds : lcore < i' => lcore < i \/ lcore = i
  BY <1>1, <1>4 DEF Stats!LcoreIds
<1>8. FirstPass'
  BY <1>2, <1>3, <1>7 DEF StatsInv, FirstPass, Read
<1>9. SecondPass'
  BY <1>2, <1>3, <1>7 DEF StatsInv, SecondPass, Read
<1> QED  BY <1>2, <1>3, <1>6, <1>8, <1>9 DEF StatsInv, AfterFirst, AfterSecond,
                                             Stats!Collected

\* All steps keep the windows of the lcores.
LEMMA StatsNext ==
    ASSUME StatsInv, Stats!Next
    PROVE  StatsInv'
<1>1. CASE Stats!Lcore0
  BY <1>1, AsideStep, FirstStep, SecondStep, TotalStep DEF Stats!Lcore0, Aside
<1>2. CASE Others
  BY <1>2, OthersStep
<1> QED  BY <1>1, <1>2 DEF Stats!Next, Others

-----------------------------------------------------------------------------
(* The totals and the printed rates.                                       *)

SumTo(f, k) == Stats!SumOver(f, 0, k)

PassesInBounds ==
    /\ tput_stat_total \in [last : Nat, now : Nat]
    /\ task \in {"start", "end"} => i <= n_lcores

\* While a pass adds up counters, its sum is at least that of what they were when it
\* began, and at most that of what they are now.
FirstSum ==
    task \in {"start", "start_total"} =>
        SumTo(mark["start_begins"], i) <= sum /\ sum <= SumTo(tput_stat, i)

SecondSum ==
    task \in {"end", "end_total"} =>
        SumTo(mark["end_begins"], i) <= sum /\ sum <= SumTo(tput_stat, i)

AfterFirstSum ==
    latency_sample_start = 1 =>
        /\ SumTo(mark["start_begins"], n_lcores) <= tput_stat_total.last
        /\ tput_stat_total.last <= SumTo(mark["start_ends"], n_lcores)

AfterSecondSum ==
    Stats!Collected =>
        /\ SumTo(mark["end_begins"], n_lcores) <= tput_stat_total.now
        /\ tput_stat_total.now <= SumTo(mark["end_ends"], n_lcores)

TotalsInv ==
    /\ StatsInv /\ PassesInBounds
    /\ FirstSum /\ SecondSum /\ AfterFirstSum /\ AfterSecondSum

\* Of a number of lcores the sums are those of numbers.
LEMMA SumToType ==
    ASSUME n_lcores \in Nat, NEW f \in [Stats!LcoreIds -> Nat], NEW k \in 0 .. n_lcores
    PROVE  /\ SumTo(f, k) \in Nat /\ SumTo(f, 0) = 0
           /\ k < n_lcores => SumTo(f, k + 1) = SumTo(f, k) + f[k]
<1>1. k \in Nat /\ \A m \in 0 .. (k - 1) : f[m] \in Nat /\ f[m] \in Int
  BY DEF Stats!LcoreIds
<1>2. SumTo(f, k) \in Int
  BY <1>1, SumType DEF SumTo
<1>3. SumTo(f, 0) = 0
  BY SumNone DEF SumTo
<1>4. SumTo(f, 0) <= SumTo(f, k)
  BY <1>1, SumGrows DEF SumTo
<1>5. ASSUME k < n_lcores  PROVE SumTo(f, k + 1) = SumTo(f, k) + f[k]
  <2>1. \A m \in 0 .. k : f[m] \in Int
    BY <1>5 DEF Stats!LcoreIds
  <2>2. ~ k < 0
    BY <1>1
  <2>3. Stats!SumOver(f, 0, k + 1) = IF k < 0 THEN 0 ELSE Stats!SumOver(f, 0, k) + f[k]
    BY <1>1, <2>1, SumStep
  <2> QED  BY <2>2, <2>3 DEF SumTo
<1> QED  BY <1>2, <1>3, <1>4, <1>5

\* The same of sums from the first lcore on.
LEMMA SumToMonotone ==
    ASSUME n_lcores \in Nat, NEW k \in 0 .. n_lcores,
           NEW f \in [Stats!LcoreIds -> Nat], NEW g \in [Stats!LcoreIds -> Nat],
           \A lcore \in Stats!LcoreIds : f[lcore] <= g[lcore]
    PROVE  SumTo(f, k) <= SumTo(g, k)
<1>1. k \in Nat
  OBVIOUS
<1>2. \A m \in 0 .. (k - 1) : f[m] \in Int /\ g[m] \in Int /\ f[m] <= g[m]
  BY DEF Stats!LcoreIds
<1> QED  BY <1>1, <1>2, SumMonotone DEF SumTo

LEMMA StatsTypes ==
    ASSUME StatsInv
    PROVE  /\ n_lcores \in Nat /\ n_rcv_cores \in Nat /\ i \in Nat /\ sum \in Nat
           /\ tput_stat \in [Stats!LcoreIds -> Nat]
           /\ \A e \in Stats!Ends : mark[e] \in [Stats!LcoreIds -> Nat]
           /\ {"start_begins", "start_ends", "end_begins", "end_ends", "collect_begins"}
                 \subseteq Stats!Ends
           /\ DOMAIN mark = Stats!Ends
           /\ task \in {"start_total", "end_total"} => i < n_lcores
  BY DEF StatsInv, TypeInv, Stats!TypeOK, Started, Stats!Ends

\* The counters may grow while lcore 0 adds them up.
LEMMA TotalsGrow ==
    ASSUME TotalsInv, Grows
    PROVE  (PassesInBounds /\ FirstSum /\ SecondSum /\ AfterFirstSum /\ AfterSecondSum)'
<1>1. /\ task' = task /\ i' = i /\ sum' = sum /\ tput_stat_total' = tput_stat_total
      /\ mark' = mark /\ latency_sample_start' = latency_sample_start
      /\ stop_statis' = stop_statis /\ n_lcores' = n_lcores
      /\ tput_stat' \in [Stats!LcoreIds -> Nat]
      /\ \A lcore \in Stats!LcoreIds : tput_stat[lcore] <= tput_stat'[lcore]
  BY DEF Grows, Stats!given, Stats!averages
<1>2. PassesInBounds'
  BY <1>1 DEF TotalsInv, PassesInBounds
<1>3. /\ StatsInv /\ n_lcores \in Nat /\ tput_stat \in [Stats!LcoreIds -> Nat]
      /\ i \in Nat /\ sum \in Nat
  BY StatsTypes DEF TotalsInv
<1>4. ASSUME task \in {"start", "start_total", "end", "end_total"}
      PROVE  SumTo(tput_stat, i) <= SumTo(tput_stat', i) /\ SumTo(tput_stat, i) \in Nat
             /\ SumTo(tput_stat', i) \in Nat
  <2>1. i \in 0 .. n_lcores
    BY <1>3, <1>4, StatsTypes DEF TotalsInv, PassesInBounds
  <2>2. SumTo(tput_stat, i) <= SumTo(tput_stat', i)
    BY <1>1, <1>3, <2>1, SumToMonotone
  <2>3. SumTo(tput_stat, i) \in Nat
    BY <1>3, <2>1, SumToType
  <2>4. SumTo(tput_stat', i) \in Nat
    BY <1>1, <1>3, <2>1, SumToType
  <2> QED  BY <2>2, <2>3, <2>4
<1>5. /\ SumTo(tput_stat, i)' = SumTo(tput_stat', i)
      /\ \A e : SumTo(mark[e], i)' = SumTo(mark[e], i)
                /\ SumTo(mark[e], n_lcores)' = SumTo(mark[e], n_lcores)
  BY <1>1 DEF SumTo, Stats!SumOver
<1>6. FirstSum'
  BY <1>1, <1>3, <1>4, <1>5 DEF TotalsInv, FirstSum
<1>7. SecondSum'
  BY <1>1, <1>3, <1>4, <1>5 DEF TotalsInv, SecondSum
<1>8. AfterFirstSum' /\ AfterSecondSum'
  BY <1>1, <1>5 DEF TotalsInv, AfterFirstSum, AfterSecondSum, Stats!Collected
<1> QED  BY <1>2, <1>6, <1>7, <1>8

\* The steps of lcore 0 that read or write no total.
LEMMA TotalsAside ==
    ASSUME TotalsInv, StatsInv', Aside
    PROVE  TotalsInv'
<1>1. /\ UNCHANGED << n_lcores, tput_stat_total, latency_sample_start, mark, tput_stat >>
      /\ task' \in {"loop", "print", "collect", "sort", "exited"}
      /\ Stats!Collected' => Stats!Collected
  <2>1. stop_statis \in {0, 1}
    BY DEF TotalsInv, StatsInv, TypeInv
  <2> USE DEF Stats!averages, Stats!given, Stats!Collected
  <2>2. CASE Stats!PrintBegin
    BY <2>2 DEF Stats!PrintBegin, Stats!Idle
  <2>3. CASE Stats!PrintLcore
    BY <2>3 DEF Stats!PrintLcore, Stats!Pass
  <2>4. CASE Stats!CollectSample
    BY <2>4 DEF Stats!CollectSample
  <2>5. CASE Stats!CollectEnd
    BY <2>5 DEF Stats!CollectEnd, Stats!Pass
  <2>6. CASE Stats!SortSample
    BY <2>6 DEF Stats!SortSample
  <2>7. CASE Stats!WriteResults
    BY <2>7 DEF Stats!WriteResults, Stats!Pass
  <2>8. CASE Stats!Exit
    BY <2>8 DEF Stats!Exit
  <2> QED  BY <2>2, <2>3, <2>4, <2>5, <2>6, <2>7, <2>8 DEF Aside
<1>2. /\ \A e : SumTo(mark[e], n_lcores)' = SumTo(mark[e], n_lcores)
  BY <1>1 DEF SumTo, Stats!SumOver
<1> QED  BY <1>1, <1>2 DEF TotalsInv, PassesInBounds, FirstSum, SecondSum, AfterFirstSum,
                           AfterSecondSum

\* The two passes.
LEMMA TotalsPass ==
    ASSUME TotalsInv, StatsInv',
           \/ Stats!StartBegin \/ Stats!StartLcore \/ Stats!StartEnd \/ Stats!AddToTotal
           \/ Stats!EndBegin \/ Stats!EndLcore \/ Stats!EndEnd
    PROVE  TotalsInv'
<1>1. /\ StatsInv /\ n_lcores \in Nat /\ tput_stat \in [Stats!LcoreIds -> Nat]
      /\ i \in Nat /\ sum \in Nat
      /\ \A e \in Stats!Ends : mark[e] \in [Stats!LcoreIds -> Nat]
      /\ DOMAIN mark = Stats!Ends
      /\ {"start_begins", "start_ends", "end_begins", "end_ends", "collect_begins"}
             \subseteq Stats!Ends
  BY StatsTypes DEF TotalsInv
<1>2. UNCHANGED << n_lcores, tput_stat, stop_statis, Stats!LcoreIds >>
  BY DEF Stats!StartBegin, Stats!StartLcore, Stats!StartEnd, Stats!AddToTotal,
         Stats!EndBegin, Stats!EndLcore, Stats!EndEnd, Stats!given, Stats!averages,
         Stats!LcoreIds
<1>3. tput_stat_total \in [last : Nat, now : Nat]
  BY DEF TotalsInv, PassesInBounds
<1>4. /\ 0 \in 0 .. n_lcores /\ n_lcores \in 0 .. n_lcores
      /\ \A f \in [Stats!LcoreIds -> Nat] : SumTo(f, 0) = 0 /\ SumTo(f, n_lcores) \in Nat
  <2>1. 0 \in 0 .. n_lcores /\ n_lcores \in 0 .. n_lcores
    BY <1>1
  <2>2. ASSUME NEW f \in [Stats!LcoreIds -> Nat]
        PROVE  SumTo(f, 0) = 0 /\ SumTo(f, n_lcores) \in Nat
    BY <1>1, <2>1, SumToType
  <2> QED  BY <2>1, <2>2
<1>5. CASE Stats!StartBegin
  <2>1. /\ task = "loop" /\ task' = "start" /\ i' = 0 /\ sum' = 0
        /\ latency_sample_start = 0
        /\ UNCHANGED << tput_stat_total, latency_sample_start >>
        /\ mark' = [mark EXCEPT !["start_begins"] = tput_stat]
    BY <1>5 DEF Stats!StartBegin, Stats!Printed, Stats!Idle, Stats!Pass, Stats!averages
  <2>2. mark'["start_begins"] = tput_stat
    BY <1>1, <2>1
  <2>3. SumTo(mark["start_begins"], i)' = 0 /\ SumTo(tput_stat, i)' = 0
    <3>1. /\ SumTo(mark["start_begins"], i)' = SumTo(mark'["start_begins"], i')
          /\ SumTo(tput_stat, i)' = SumTo(tput_stat', i')
      BY DEF SumTo, Stats!SumOver
    <3> QED  BY <1>1, <1>2, <1>4, <2>1, <2>2, <3>1
  <2>4. stop_statis = 0
    BY <2>1 DEF TotalsInv, StatsInv, TypeInv, AfterSecond, Stats!Collected
  <2> QED  BY <1>2, <1>3, <1>1, <2>1, <2>3, <2>4 DEF TotalsInv, PassesInBounds, FirstSum,
                  SecondSum, AfterFirstSum, AfterSecondSum, Stats!Collected
<1>6. CASE Stats!StartLcore
  <2>1. /\ task = "start" /\ task' = "start_total"
        /\ UNCHANGED << i, sum, tput_stat_total, latency_sample_start, mark >>
    BY <1>6 DEF Stats!StartLcore
  <2>2. /\ \A e : /\ SumTo(mark[e], i)' = SumTo(mark[e], i)
                  /\ SumTo(mark[e], n_lcores)' = SumTo(mark[e], n_lcores)
        /\ SumTo(tput_stat, i)' = SumTo(tput_stat, i)
    BY <1>2, <2>1 DEF SumTo, Stats!SumOver
  <2> QED  BY <1>2, <2>1, <2>2 DEF TotalsInv, PassesInBounds, FirstSum, SecondSum,
                  AfterFirstSum, AfterSecondSum, Stats!Collected
<1>7. CASE Stats!EndLcore
  <2>1. /\ task = "end" /\ task' \in {"end_total", "crashed"}
        /\ UNCHANGED << i, sum, tput_stat_total, latency_sample_start, mark >>
    BY <1>7 DEF Stats!EndLcore
  <2>2. /\ \A e : /\ SumTo(mark[e], i)' = SumTo(mark[e], i)
                  /\ SumTo(mark[e], n_lcores)' = SumTo(mark[e], n_lcores)
        /\ SumTo(tput_stat, i)' = SumTo(tput_stat, i)
    BY <1>2, <2>1 DEF SumTo, Stats!SumOver
  <2> QED  BY <1>2, <2>1, <2>2 DEF TotalsInv, PassesInBounds, FirstSum, SecondSum,
                  AfterFirstSum, AfterSecondSum, Stats!Collected
<1>8. CASE Stats!AddToTotal
  <2>1. /\ \/ task = "start_total" /\ task' = "start"
           \/ task = "end_total" /\ task' = "end"
        /\ sum' = sum + tput_stat[i] /\ i' = i + 1
        /\ UNCHANGED << tput_stat_total, latency_sample_start, mark >>
    BY <1>8 DEF Stats!AddToTotal, Stats!averages
  <2>2. i < n_lcores /\ i \in Stats!LcoreIds /\ i \in 0 .. n_lcores /\ i + 1 <= n_lcores
    BY <1>1, <2>1, StatsTypes DEF Stats!LcoreIds
  <2>3. SumTo(tput_stat, i + 1) = SumTo(tput_stat, i) + tput_stat[i] /\ tput_stat[i] \in Nat
        /\ SumTo(tput_stat, i) \in Nat
    BY <1>1, <2>2, SumToType
  <2>4. ASSUME NEW e \in {"start_begins", "end_begins"}, mark[e][i] <= tput_stat[i],
               SumTo(mark[e], i) <= sum
        PROVE  SumTo(mark[e], i + 1) <= sum + tput_stat[i]
    <3>1. mark[e] \in [Stats!LcoreIds -> Nat] /\ mark[e][i] \in Nat
      BY <1>1, <2>2
    <3>2. SumTo(mark[e], i + 1) = SumTo(mark[e], i) + mark[e][i]
      BY <1>1, <2>2, <3>1, SumToType
    <3>3. SumTo(mark[e], i) \in Nat
      BY <1>1, <2>2, <3>1, SumToType
    <3> QED  BY <1>1, <2>3, <2>4, <3>1, <3>2, <3>3
  <2>5. /\ task = "start_total" => mark["start_begins"][i] <= tput_stat[i]
        /\ task = "end_total" => mark["end_begins"][i] <= tput_stat[i]
    BY <2>2 DEF TotalsInv, StatsInv, FirstPass, SecondPass
  <2>6. /\ \A e : SumTo(mark[e], n_lcores)' = SumTo(mark[e], n_lcores)
        /\ \A e : SumTo(mark[e], i)' = SumTo(mark[e], i + 1)
        /\ SumTo(tput_stat, i)' = SumTo(tput_stat, i + 1)
    BY <1>2, <2>1 DEF SumTo, Stats!SumOver
  <2>7. FirstSum'
    <3> SUFFICES ASSUME task = "start_total"
                 PROVE  /\ SumTo(mark["start_begins"], i + 1) <= sum + tput_stat[i]
                        /\ sum + tput_stat[i] <= SumTo(tput_stat, i + 1)
      BY <2>1, <2>6 DEF FirstSum
    <3>1. SumTo(mark["start_begins"], i) <= sum /\ sum <= SumTo(tput_stat, i)
      BY DEF TotalsInv, FirstSum
    <3>2. SumTo(mark["start_begins"], i + 1) <= sum + tput_stat[i]
      BY <2>4, <2>5, <3>1
    <3> QED  BY <1>1, <2>3, <3>1, <3>2
  <2>8. SecondSum'
    <3> SUFFICES ASSUME task = "end_total"
                 PROVE  /\ SumTo(mark["end_begins"], i + 1) <= sum + tput_stat[i]
                        /\ sum + tput_stat[i] <= SumTo(tput_stat, i + 1)
      BY <2>1, <2>6 DEF SecondSum
    <3>1. SumTo(mark["end_begins"], i) <= sum /\ sum <= SumTo(tput_stat, i)
      BY DEF TotalsInv, SecondSum
    <3>2. SumTo(mark["end_begins"], i + 1) <= sum + tput_stat[i]
      BY <2>4, <2>5, <3>1
    <3> QED  BY <1>1, <2>3, <3>1, <3>2
  <2>9. PassesInBounds'
    BY <1>2, <2>1, <2>2, <1>3 DEF PassesInBounds
  <2> QED  BY <1>2, <2>1, <2>6, <2>7, <2>8, <2>9 DEF TotalsInv, AfterFirstSum,
                                                     AfterSecondSum,
                  Stats!Collected
<1>9. CASE Stats!StartEnd
  <2>1. /\ task = "start" /\ i = n_lcores /\ task' = "loop"
        /\ tput_stat_total' = [tput_stat_total EXCEPT !.last = sum]
        /\ mark' = [mark EXCEPT !["start_ends"] = tput_stat]
    BY <1>9 DEF Stats!StartEnd, Stats!Opens, Stats!Pass
  <2>2. /\ tput_stat_total' \in [last : Nat, now : Nat] /\ tput_stat_total'.last = sum
        /\ mark'["start_ends"] = tput_stat /\ mark'["start_begins"] = mark["start_begins"]
    BY <1>1, <1>3, <2>1
  <2>3. SumTo(mark["start_begins"], n_lcores) <= sum /\ sum <= SumTo(tput_stat, n_lcores)
    BY <2>1 DEF TotalsInv, FirstSum
  <2>4. /\ SumTo(mark["start_begins"], n_lcores)' = SumTo(mark["start_begins"], n_lcores)
        /\ SumTo(mark["start_ends"], n_lcores)' = SumTo(tput_stat, n_lcores)
    BY <1>2, <2>2 DEF SumTo, Stats!SumOver
  <2>5. stop_statis = 0
    BY <2>1 DEF TotalsInv, StatsInv, TypeInv, FirstPass, AfterSecond, Stats!Collected
  <2> QED  BY <1>2, <2>1, <2>2, <2>3, <2>4, <2>5 DEF TotalsInv, PassesInBounds, FirstSum,
                  SecondSum, AfterFirstSum, AfterSecondSum, Stats!Collected
<1>10. CASE Stats!EndBegin
  <2>1. /\ task = "loop" /\ task' = "end" /\ i' = 0 /\ sum' = 0 /\ stop_statis = 0
        /\ UNCHANGED << tput_stat_total, latency_sample_start >>
        /\ mark' = [mark EXCEPT !["end_begins"] = tput_stat]
    BY <1>10 DEF Stats!EndBegin, Stats!Printed, Stats!Idle, Stats!Pass, Stats!averages
  <2>2. /\ mark'["end_begins"] = tput_stat /\ mark'["start_begins"] = mark["start_begins"]
        /\ mark'["start_ends"] = mark["start_ends"]
    BY <1>1, <2>1
  <2>3. /\ SumTo(mark["end_begins"], i)' = 0 /\ SumTo(tput_stat, i)' = 0
        /\ SumTo(mark["start_begins"], n_lcores)' = SumTo(mark["start_begins"], n_lcores)
        /\ SumTo(mark["start_ends"], n_lcores)' = SumTo(mark["start_ends"], n_lcores)
    <3>1. /\ SumTo(mark["end_begins"], i)' = SumTo(mark'["end_begins"], i')
          /\ SumTo(tput_stat, i)' = SumTo(tput_stat', i')
          /\ \A e : SumTo(mark[e], n_lcores)' = SumTo(mark'[e], n_lcores')
      BY DEF SumTo, Stats!SumOver
    <3> QED  BY <1>1, <1>2, <1>4, <2>1, <2>2, <3>1
  <2> QED  BY <1>2, <1>3, <1>1, <2>1, <2>3 DEF TotalsInv, PassesInBounds, FirstSum,
                  SecondSum, AfterFirstSum, AfterSecondSum, Stats!Collected
<1>11. CASE Stats!EndEnd
  <2>1. /\ task = "end" /\ i = n_lcores /\ task' = "collect"
        /\ tput_stat_total' = [tput_stat_total EXCEPT !.now = sum]
        /\ mark' = [mark EXCEPT !["end_ends"] = tput_stat,
                                !["collect_begins"] = latency_sample_num]
        /\ UNCHANGED latency_sample_start
    BY <1>11 DEF Stats!EndEnd
  <2>2. /\ tput_stat_total' \in [last : Nat, now : Nat]
        /\ tput_stat_total'.now = sum /\ tput_stat_total'.last = tput_stat_total.last
        /\ mark'["end_ends"] = tput_stat /\ mark'["end_begins"] = mark["end_begins"]
        /\ mark'["start_begins"] = mark["start_begins"]
        /\ mark'["start_ends"] = mark["start_ends"]
    BY <1>1, <1>3, <2>1
  <2>3. SumTo(mark["end_begins"], n_lcores) <= sum /\ sum <= SumTo(tput_stat, n_lcores)
    BY <2>1 DEF TotalsInv, SecondSum
  <2>4. /\ SumTo(mark["start_begins"], n_lcores)' = SumTo(mark["start_begins"], n_lcores)
        /\ SumTo(mark["start_ends"], n_lcores)' = SumTo(mark["start_ends"], n_lcores)
        /\ SumTo(mark["end_begins"], n_lcores)' = SumTo(mark["end_begins"], n_lcores)
        /\ SumTo(mark["end_ends"], n_lcores)' = SumTo(tput_stat, n_lcores)
    BY <1>2, <2>2 DEF SumTo, Stats!SumOver
  <2> QED  BY <1>2, <2>1, <2>2, <2>3, <2>4 DEF TotalsInv, PassesInBounds, FirstSum,
                  SecondSum, AfterFirstSum, AfterSecondSum, Stats!Collected
<1> QED  BY <1>5, <1>6, <1>7, <1>8, <1>9, <1>10, <1>11

\* All steps keep the sums of the passes in their bounds.
LEMMA TotalsNext ==
    ASSUME TotalsInv, Stats!Next
    PROVE  TotalsInv'
<1>1. StatsInv'
  BY StatsNext DEF TotalsInv
<1>2. CASE Stats!Lcore0
  BY <1>1, <1>2, TotalsAside, TotalsPass DEF Stats!Lcore0, Aside
<1>3. CASE Others
  BY <1>1, <1>3, OthersGrow, TotalsGrow DEF TotalsInv
<1> QED  BY <1>2, <1>3 DEF Stats!Next, Others

LEMMA TotalsInWindow == TotalsInv => Stats!TotalWindow
<1> SUFFICES ASSUME TotalsInv, Stats!Collected
             PROVE  LET rate == tput_stat_total.now - tput_stat_total.last
                    IN  /\ SumTo(mark["end_begins"], n_lcores)
                               - SumTo(mark["start_ends"], n_lcores) <= rate
                        /\ rate <= SumTo(mark["end_ends"], n_lcores)
                                       - SumTo(mark["start_begins"], n_lcores)
  BY DEF Stats!TotalWindow, SumTo
<1>1. latency_sample_start = 1
  BY DEF TotalsInv, StatsInv, AfterSecond
<1>2. tput_stat_total.last \in Nat /\ tput_stat_total.now \in Nat
  BY DEF TotalsInv, PassesInBounds
<1>3. n_lcores \in Nat /\ n_lcores \in 0 .. n_lcores
      /\ \A e \in Stats!Ends : mark[e] \in [Stats!LcoreIds -> Nat]
      /\ {"start_begins", "start_ends", "end_begins", "end_ends"} \subseteq Stats!Ends
  BY StatsTypes DEF TotalsInv
<1>4. /\ SumTo(mark["start_begins"], n_lcores) \in Nat
      /\ SumTo(mark["start_ends"], n_lcores) \in Nat
      /\ SumTo(mark["end_begins"], n_lcores) \in Nat
      /\ SumTo(mark["end_ends"], n_lcores) \in Nat
  <2>1. ASSUME NEW e \in Stats!Ends  PROVE SumTo(mark[e], n_lcores) \in Nat
    <3>1. mark[e] \in [Stats!LcoreIds -> Nat]
      BY <1>3
    <3> QED  BY <1>3, <3>1, SumToType
  <2> QED  BY <2>1 DEF Stats!Ends
<1>5. /\ SumTo(mark["start_begins"], n_lcores) <= tput_stat_total.last
      /\ tput_stat_total.last <= SumTo(mark["start_ends"], n_lcores)
      /\ SumTo(mark["end_begins"], n_lcores) <= tput_stat_total.now
      /\ tput_stat_total.now <= SumTo(mark["end_ends"], n_lcores)
  BY <1>1 DEF TotalsInv, AfterFirstSum, AfterSecondSum
<1> QED  BY <1>2, <1>4, <1>5

-----------------------------------------------------------------------------
\* The counters of the lcores n_rcv_cores .. k - 1, which a print adds up.
AddedUp(f, k) == Stats!SumOver(f, n_rcv_cores, k)

\* What was printed up to now was counted by now, and counted already when the print
\* under way was begun; what this has added up was counted between its begin and now.
\* With more receive lcores than lcores it adds up nothing.
PrintInv ==
    /\ print_begins \in [Stats!LcoreIds -> Nat]
    /\ \A lcore \in Stats!LcoreIds : print_begins[lcore] <= tput_stat[lcore]
    /\ rx_pers = last_rx /\ last_rx \in Nat
    /\ last_rx <= AddedUp(tput_stat, n_lcores)
    /\ task # "print" => AddedUp(print_begins, n_lcores) <= last_rx
    /\ task = "print" =>
         /\ n_rcv_cores <= i /\ last_rx <= AddedUp(print_begins, n_lcores)
         /\ i <= n_lcores => /\ AddedUp(print_begins, i) <= sum
                             /\ sum <= AddedUp(tput_stat, i)
         /\ i > n_lcores => sum = 0 /\ i = n_rcv_cores

\* The same of sums from the first lcore on that sends.
LEMMA SumFromType ==
    ASSUME n_lcores \in Nat, n_rcv_cores \in Nat,
           NEW f \in [Stats!LcoreIds -> Nat], NEW k \in 0 .. n_lcores
    PROVE  /\ Stats!SumOver(f, n_rcv_cores, k) \in Nat
           /\ n_rcv_cores <= k /\ k < n_lcores =>
                  Stats!SumOver(f, n_rcv_cores, k + 1) =
                      Stats!SumOver(f, n_rcv_cores, k) + f[k]
<1>1. k \in Nat /\ \A m \in 0 .. (k - 1) : f[m] \in Nat /\ f[m] \in Int
  BY DEF Stats!LcoreIds
<1>2. Stats!SumOver(f, n_rcv_cores, k) \in Int
  BY <1>1, SumType
<1>3. Stats!SumOver(f, n_rcv_cores, 0) = 0
  BY SumNone
<1>4. Stats!SumOver(f, n_rcv_cores, 0) <= Stats!SumOver(f, n_rcv_cores, k)
  BY <1>1, SumGrows
<1>5. ASSUME n_rcv_cores <= k, k < n_lcores
      PROVE  Stats!SumOver(f, n_rcv_cores, k + 1) = Stats!SumOver(f, n_rcv_cores, k) + f[k]
  <2>1. \A m \in 0 .. k : f[m] \in Int
    BY <1>5 DEF Stats!LcoreIds
  <2>2. ~ k < n_rcv_cores
    BY <1>1, <1>5
  <2>3. Stats!SumOver(f, n_rcv_cores, k + 1) =
            IF k < n_rcv_cores THEN 0 ELSE Stats!SumOver(f, n_rcv_cores, k) + f[k]
    BY <1>1, <2>1, SumStep
  <2> QED  BY <2>2, <2>3
<1> QED  BY <1>2, <1>3, <1>4, <1>5

\* Greater counters add up to more.
LEMMA AddedUpMonotone ==
    ASSUME n_lcores \in Nat, n_rcv_cores \in Nat, NEW k \in 0 .. n_lcores,
           NEW f \in [Stats!LcoreIds -> Nat], NEW g \in [Stats!LcoreIds -> Nat],
           \A lcore \in Stats!LcoreIds : f[lcore] <= g[lcore]
    PROVE  /\ AddedUp(f, k) \in Nat /\ AddedUp(g, k) \in Nat
           /\ AddedUp(f, k) <= AddedUp(g, k)
<1>1. k \in Nat /\ \A m \in 0 .. (k - 1) : f[m] \in Int /\ g[m] \in Int /\ f[m] <= g[m]
  BY DEF Stats!LcoreIds
<1>2. AddedUp(f, k) <= AddedUp(g, k)
  BY <1>1, SumMonotone DEF AddedUp
<1>3. AddedUp(f, k) \in Nat
  BY SumFromType DEF AddedUp
<1>4. AddedUp(g, k) \in Nat
  BY SumFromType DEF AddedUp
<1> QED  BY <1>2, <1>3, <1>4

\* The counters may grow between two rates printed.
LEMMA PrintGrows ==
    ASSUME StatsInv, PrintInv, Grows
    PROVE  PrintInv'
<1>1. /\ task' = task /\ i' = i /\ sum' = sum /\ last_rx' = last_rx /\ rx_pers' = rx_pers
      /\ print_begins' = print_begins /\ Stats!LcoreIds' = Stats!LcoreIds
      /\ n_lcores' = n_lcores /\ n_rcv_cores' = n_rcv_cores
      /\ tput_stat' \in [Stats!LcoreIds -> Nat]
      /\ \A lcore \in Stats!LcoreIds : tput_stat[lcore] <= tput_stat'[lcore]
  BY DEF Grows, Stats!given, Stats!printed, Stats!LcoreIds
<1>2. /\ n_lcores \in Nat /\ n_rcv_cores \in Nat /\ tput_stat \in [Stats!LcoreIds -> Nat]
      /\ i \in Nat /\ sum \in Nat
  BY StatsTypes
<1>3. ASSUME NEW k \in 0 .. n_lcores
      PROVE  /\ AddedUp(tput_stat, k) <= AddedUp(tput_stat', k)
             /\ AddedUp(tput_stat, k) \in Nat /\ AddedUp(tput_stat', k) \in Nat
  BY <1>1, <1>2, AddedUpMonotone
<1>4. /\ AddedUp(tput_stat, n_lcores)' = AddedUp(tput_stat', n_lcores)
      /\ AddedUp(tput_stat, i)' = AddedUp(tput_stat', i)
      /\ AddedUp(print_begins, n_lcores)' = AddedUp(print_begins, n_lcores)
      /\ AddedUp(print_begins, i)' = AddedUp(print_begins, i)
  BY <1>1 DEF AddedUp, Stats!SumOver
<1>5. last_rx' <= AddedUp(tput_stat, n_lcores)'
  <2>1. n_lcores \in 0 .. n_lcores
    BY <1>2
  <2>2. last_rx \in Nat /\ last_rx <= AddedUp(tput_stat, n_lcores)
    BY DEF PrintInv
  <2> QED  BY <1>1, <1>3, <1>4, <2>1, <2>2
<1>6. ASSUME task = "print", i <= n_lcores
      PROVE  sum' <= AddedUp(tput_stat, i)'
  <2>1. i \in 0 .. n_lcores
    BY <1>2, <1>6
  <2>2. sum <= AddedUp(tput_stat, i)
    BY <1>6 DEF PrintInv
  <2> QED  BY <1>1, <1>2, <1>3, <1>4, <2>1, <2>2
<1>7. \A lcore \in Stats!LcoreIds : print_begins[lcore] <= tput_stat'[lcore]
  <2>1. \A lcore \in Stats!LcoreIds :
           /\ print_begins[lcore] \in Nat /\ tput_stat[lcore] \in Nat
           /\ tput_stat'[lcore] \in Nat
           /\ print_begins[lcore] <= tput_stat[lcore]
           /\ tput_stat[lcore] <= tput_stat'[lcore]
    BY <1>1, <1>2 DEF PrintInv
  <2> QED  BY <2>1
<1> QED  BY <1>1, <1>4, <1>5, <1>6, <1>7 DEF PrintInv

LEMMA PrintLcore0 ==
    ASSUME StatsInv, PrintInv, Stats!Lcore0
    PROVE  PrintInv'
<1>1. UNCHANGED << n_lcores, n_rcv_cores, tput_stat, Stats!LcoreIds >>
  BY Lcore0Quiet DEF Quiet, Stats!given, Stats!LcoreIds
<1>2. /\ n_lcores \in Nat /\ n_rcv_cores \in Nat /\ tput_stat \in [Stats!LcoreIds -> Nat]
      /\ i \in Nat /\ sum \in Nat /\ n_lcores \in 0 .. n_lcores
  BY StatsTypes
<1>3. /\ n_lcores' = n_lcores
      /\ AddedUp(tput_stat, n_lcores)' = AddedUp(tput_stat, n_lcores)
      /\ AddedUp(tput_stat, i)' = AddedUp(tput_stat, i')
      /\ AddedUp(print_begins, n_lcores)' = AddedUp(print_begins', n_lcores)
      /\ AddedUp(print_begins, i)' = AddedUp(print_begins', i')
  BY <1>1 DEF AddedUp, Stats!SumOver
<1>4. /\ rx_pers = last_rx /\ last_rx \in Nat /\ last_rx <= AddedUp(tput_stat, n_lcores)
      /\ print_begins \in [Stats!LcoreIds -> Nat]
      /\ \A lcore \in Stats!LcoreIds : print_begins[lcore] <= tput_stat[lcore]
  BY DEF PrintInv
<1>5. CASE Stats!PrintBegin
  <2>1. /\ task' = "print" /\ i' = n_rcv_cores /\ sum' = 0
        /\ last_rx' = last_rx /\ rx_pers' = rx_pers /\ print_begins' = tput_stat
    BY <1>5 DEF Stats!PrintBegin
  <2>2. AddedUp(tput_stat, n_rcv_cores) = 0
    <3>1. n_rcv_cores \in 0 .. n_rcv_cores
      BY <1>2
    <3> QED  BY <1>2, <3>1, SumNone DEF AddedUp
  <2>3. /\ print_begins' \in [Stats!LcoreIds -> Nat]
        /\ \A lcore \in Stats!LcoreIds : print_begins'[lcore] <= tput_stat[lcore]
    BY <1>2, <2>1
  <2> QED  BY <1>1, <1>2, <1>3, <1>4, <2>1, <2>2, <2>3 DEF PrintInv
<1>6. CASE Stats!PrintLcore /\ i < n_lcores
  <2>1. /\ task = "print" /\ task' = "print" /\ i' = i + 1 /\ sum' = sum + tput_stat[i]
        /\ last_rx' = last_rx /\ rx_pers' = rx_pers /\ print_begins' = print_begins
    BY <1>6 DEF Stats!PrintLcore
  <2>2. i \in Stats!LcoreIds /\ i \in 0 .. n_lcores /\ i <= n_lcores /\ i + 1 <= n_lcores
    BY <1>2, <1>6 DEF Stats!LcoreIds
  <2>3. /\ tput_stat[i] \in Nat /\ print_begins[i] \in Nat
        /\ print_begins[i] <= tput_stat[i]
    BY <1>2, <1>4, <2>2
  <2>4. /\ n_rcv_cores <= i /\ last_rx <= AddedUp(print_begins, n_lcores)
        /\ AddedUp(print_begins, i) <= sum /\ sum <= AddedUp(tput_stat, i)
    BY <2>1, <2>2 DEF PrintInv
  <2>5. /\ AddedUp(tput_stat, i + 1) = AddedUp(tput_stat, i) + tput_stat[i]
        /\ AddedUp(tput_stat, i) \in Nat
    BY <1>2, <1>6, <2>2, <2>4, SumFromType DEF AddedUp
  <2>6. /\ AddedUp(print_begins, i + 1) = AddedUp(print_begins, i) + print_begins[i]
        /\ AddedUp(print_begins, i) \in Nat
    BY <1>2, <1>4, <1>6, <2>2, <2>4, SumFromType DEF AddedUp
  <2>7. /\ AddedUp(print_begins, i + 1) <= sum' /\ sum' <= AddedUp(tput_stat, i + 1)
        /\ n_rcv_cores <= i + 1
    BY <1>2, <2>1, <2>3, <2>4, <2>5, <2>6
  <2> QED  BY <1>1, <1>2, <1>3, <1>4, <2>1, <2>2, <2>4, <2>7 DEF PrintInv
<1>7. CASE Stats!PrintLcore /\ ~ i < n_lcores
  <2>1. /\ task = "print" /\ task' = "loop" /\ print_begins' = print_begins
        /\ rx_pers' = rx_pers + (sum - last_rx) /\ last_rx' = sum
    BY <1>7 DEF Stats!PrintLcore, Stats!PrintRate, Stats!Pass
  <2>2. AddedUp(print_begins, n_lcores) <= sum /\ sum <= AddedUp(tput_stat, n_lcores)
    <3>1. CASE i = n_lcores
      BY <1>2, <2>1, <3>1 DEF PrintInv
    <3>2. CASE i > n_lcores
      <4>1. sum = 0 /\ n_lcores \in 0 .. n_rcv_cores
        BY <1>2, <2>1, <3>2 DEF PrintInv
      <4>2. AddedUp(tput_stat, n_lcores) = 0
        BY <1>2, <4>1, SumNone DEF AddedUp
      <4>3. AddedUp(print_begins, n_lcores) = 0
        BY <1>2, <4>1, SumNone DEF AddedUp
      <4> QED  BY <4>1, <4>2, <4>3
    <3> QED  BY <1>2, <1>7, <3>1, <3>2
  <2>3. rx_pers' = sum
    BY <1>2, <1>4, <2>1
  <2> QED  BY <1>1, <1>2, <1>3, <1>4, <2>1, <2>2, <2>3 DEF PrintInv
<1>8. CASE ~ Stats!PrintBegin /\ ~ Stats!PrintLcore
  <2>1. /\ last_rx' = last_rx /\ rx_pers' = rx_pers /\ print_begins' = print_begins
        /\ task # "print" /\ task' # "print"
    BY <1>8 DEF Stats!Lcore0, Stats!printed, Stats!Idle, Stats!Printed, Stats!StartBegin,
        Stats!StartLcore, Stats!AddToTotal, Stats!StartEnd, Stats!EndBegin, Stats!EndLcore,
        Stats!EndEnd, Stats!CollectSample, Stats!CollectEnd, Stats!SortSample,
        Stats!WriteResults, Stats!Exit, Stats!Pass
  <2>2. AddedUp(print_begins, n_lcores) <= last_rx
    BY <2>1 DEF PrintInv
  <2> QED  BY <1>1, <1>3, <1>4, <2>1, <2>2 DEF PrintInv
<1> QED  BY <1>5, <1>6, <1>7, <1>8

RatesInv == TotalsInv /\ PrintInv

LEMMA RatesNext ==
    ASSUME RatesInv, Stats!Next
    PROVE  RatesInv'
<1>1. TotalsInv'
  BY TotalsNext DEF RatesInv
<1>2. CASE Stats!Lcore0
  BY <1>1, <1>2, PrintLcore0 DEF RatesInv, TotalsInv
<1>3. CASE Others
  BY <1>1, <1>3, OthersGrow, PrintGrows DEF RatesInv, TotalsInv
<1> QED  BY <1>2, <1>3 DEF Stats!Next, Others

-----------------------------------------------------------------------------
(* Counting and sorting samples.                                           *)

\* How often x is among the first k entries of s.
SeenAt(s, k, x) == {n \in DOMAIN s : n <= k /\ s[n] = x}
Seen(s, k, x) == Cardinality(SeenAt(s, k, x))

SortedTo(s, k) == \A m, n \in 1 .. k : m < n => s[m] <= s[n]

\* How often x is in q, without the library's name for it.
LEMMA OccurrencesDef ==
    \A q, x : Stats!Occurrences(q, x) = Cardinality({n \in DOMAIN q : q[n] = x})
<1>1. \A S : Stats!Cardinality(S) = Cardinality(S)
  BY DEF Stats!Cardinality, Cardinality
<1> QED  BY <1>1 DEF Stats!Occurrences

LEMMA OccurrencesAppend ==
    ASSUME NEW T, NEW s \in Seq(T), NEW e \in T, NEW x
    PROVE  /\ Stats!Occurrences(Append(s, e), x) =
                  Stats!Occurrences(s, x) + (IF e = x THEN 1 ELSE 0)
           /\ Stats!Occurrences(s, x) \in Nat
<1>1. \A q : {n \in DOMAIN q : q[n] = x} = Positions(q, {x})
  BY DEF Positions
<1>2. \A q : Stats!Occurrences(q, x) = Cardinality(Positions(q, {x}))
  BY <1>1, OccurrencesDef
<1>3. Cardinality(Positions(Append(s, e), {x})) =
          Cardinality(Positions(s, {x})) + (IF e \in {x} THEN 1 ELSE 0)
  BY AppendPositions
<1>4. Cardinality(Positions(s, {x})) \in Nat
  BY PositionsFinite
<1>5. e \in {x} <=> e = x
  OBVIOUS
<1> QED  BY <1>2, <1>3, <1>4, <1>5

LEMMA OccurrencesType ==
    ASSUME NEW T, NEW s \in Seq(T), NEW x
    PROVE  Stats!Occurrences(s, x) \in Nat
<1>1. {n \in DOMAIN s : s[n] = x} = Positions(s, {x})
  BY DEF Positions
<1>2. Cardinality(Positions(s, {x})) \in Nat
  BY PositionsFinite
<1> QED  BY <1>1, <1>2, OccurrencesDef

\* What is seen is part of what occurs.
LEMMA SeenFinite ==
    ASSUME NEW T, NEW s \in Seq(T), NEW k, NEW x
    PROVE  /\ IsFiniteSet(SeenAt(s, k, x))
           /\ Seen(s, k, x) \in Nat /\ Seen(s, k, x) <= Stats!Occurrences(s, x)
<1> DEFINE A == SeenAt(s, k, x)
           B == {n \in DOMAIN s : s[n] = x}
<1>1. B = Positions(s, {x})
  BY DEF Positions
<1>2. IsFiniteSet(B)
  BY <1>1, PositionsFinite
<1>3. A \subseteq B
  BY DEF SeenAt
<1>4. IsFiniteSet(A) /\ Cardinality(A) <= Cardinality(B)
  BY <1>2, <1>3, FS_Subset
<1>5. Cardinality(A) \in Nat
  BY <1>4, FS_CardinalityType
<1>6. Stats!Occurrences(s, x) = Cardinality(B)
  BY OccurrencesDef
<1> QED  BY <1>4, <1>5, <1>6 DEF Seen

\* One entry more is looked at.
LEMMA SeenStep ==
    ASSUME NEW T, NEW s \in Seq(T), NEW k \in Nat, NEW x
    PROVE  /\ Seen(s, 0, x) = 0
           /\ Seen(s, k + 1, x) =
                  Seen(s, k, x) + (IF k < Len(s) /\ s[k + 1] = x THEN 1 ELSE 0)
<1> DEFINE A(j) == SeenAt(s, j, x)
<1>1. DOMAIN s = 1 .. Len(s) /\ Len(s) \in Nat
  BY LenProperties
<1>2. IsFiniteSet(A(k)) /\ Cardinality(A(k)) \in Nat
  <2>1. IsFiniteSet(A(k))
    BY SeenFinite
  <2> QED  BY <2>1, FS_CardinalityType
<1>3. A(0) = {}
  BY <1>1 DEF SeenAt
<1>4. CASE k < Len(s) /\ s[k + 1] = x
  <2>1. A(k + 1) = A(k) \cup {k + 1} /\ k + 1 \notin A(k)
    BY <1>1, <1>4 DEF SeenAt
  <2> HIDE DEF A
  <2>2. Cardinality(A(k) \cup {k + 1}) = Cardinality(A(k)) + 1
    BY <1>2, <2>1, FS_AddElement
  <2>3. Cardinality(A(k + 1)) = Cardinality(A(k)) + 1
    BY <2>1, <2>2
  <2>4. Cardinality(A(0)) = 0
    BY <1>3, FS_EmptySet
  <2> QED  BY <1>4, <2>3, <2>4 DEF Seen, A
<1>5. CASE ~ (k < Len(s) /\ s[k + 1] = x)
  <2>1. A(k + 1) = A(k)
    BY <1>1, <1>5 DEF SeenAt
  <2> HIDE DEF A
  <2>2. Cardinality(A(0)) = 0
    BY <1>3, FS_EmptySet
  <2>3. Cardinality(A(k + 1)) = Cardinality(A(k)) + 0
    BY <1>2, <2>1
  <2> QED  BY <1>5, <2>2, <2>3 DEF Seen, A
<1> QED  BY <1>4, <1>5

\* A sample more makes none seen less often.
LEMMA SeenMore ==
    ASSUME NEW T, NEW s \in Seq(T), NEW e \in T, NEW k, NEW x
    PROVE  /\ Seen(s, k, x) <= Seen(Append(s, e), k, x)
           /\ Stats!Occurrences(s, x) <= Stats!Occurrences(Append(s, e), x)
<1>1. /\ Append(s, e) \in Seq(T) /\ Len(Append(s, e)) = Len(s) + 1
      /\ \A n \in 1 .. Len(s) : Append(s, e)[n] = s[n]
  BY AppendProperties
<1>2. /\ DOMAIN s = 1 .. Len(s) /\ Len(s) \in Nat
      /\ DOMAIN Append(s, e) = 1 .. (Len(s) + 1)
  BY <1>1, LenProperties
<1> DEFINE t == Append(s, e)
           A == SeenAt(s, k, x)
           B == SeenAt(t, k, x)
<1> HIDE DEF t
<1>3. A \subseteq B
  BY <1>1, <1>2 DEF t, SeenAt
<1>4. IsFiniteSet(B)
  <2>1. t \in Seq(T)
    BY <1>1 DEF t
  <2> QED  BY <2>1, SeenFinite
<1>5. Cardinality(A) <= Cardinality(B)
  BY <1>3, <1>4, FS_Subset
<1>6. Stats!Occurrences(s, x) <= Stats!Occurrences(Append(s, e), x)
  BY OccurrencesAppend
<1> QED  BY <1>5, <1>6 DEF Seen, t

\* The while loop of the insertion sort stops.
LEMMA PlaceExists ==
    ASSUME NEW s, NEW n \in Nat \ {0}, \A m \in 1 .. n : s[m] \in Nat
    PROVE  LET p == Stats!Place(s, n, s[n])
           IN  /\ p \in 1 .. n /\ \A m \in p .. (n - 1) : s[m] > s[n]
               /\ p > 1 => s[p - 1] <= s[n]
<1> DEFINE Ok(p) == /\ \A m \in p .. (n - 1) : s[m] > s[n]
                    /\ p > 1 => s[p - 1] <= s[n]
           M == {p \in 1 .. n : \A m \in p .. (n - 1) : s[m] > s[n]}
<1>1. n \in M
  OBVIOUS
<1>2. PICK p \in M : \A y \in M : p <= y
  <2>1. M \in SUBSET Nat /\ M # {}
    BY <1>1
  <2> HIDE DEF M
  <2> QED  BY <2>1, LeastElement
<1>3. p \in 1 .. n /\ \A m \in p .. (n - 1) : s[m] > s[n]
  BY <1>2
<1>4. p > 1 => s[p - 1] <= s[n]
  <2> SUFFICES ASSUME p > 1, ~ s[p - 1] <= s[n]  PROVE FALSE
    OBVIOUS
  <2>1. p - 1 \in 1 .. n /\ s[p - 1] \in Nat /\ s[n] \in Nat
    BY <1>3
  <2>2. \A m \in (p - 1) .. (n - 1) : m = p - 1 \/ m \in p .. (n - 1)
    BY <1>3
  <2>3. s[p - 1] > s[n]
    BY <2>1
  <2>4. p - 1 \in M
    BY <1>3, <2>1, <2>2, <2>3
  <2>5. p <= p - 1
    BY <1>2, <2>4
  <2> QED  BY <1>3, <2>5
<1>5. \E q \in 1 .. n : Ok(q)
  BY <1>3, <1>4
<1> DEFINE c == CHOOSE q \in 1 .. n : Ok(q)
<1>6. c \in 1 .. n /\ Ok(c)
  BY <1>5
<1>7. Stats!Place(s, n, s[n]) = c
  BY DEF Stats!Place
<1> HIDE DEF c
<1> QED  BY <1>6, <1>7

\* Inserting an entry moves entries, and loses or doubles none.
LEMMA InsertKeeps ==
    ASSUME NEW s \in Seq(Nat), NEW n \in 1 .. Len(s), NEW x
    PROVE  /\ Stats!Insert(s, n) \in Seq(Nat) /\ Len(Stats!Insert(s, n)) = Len(s)
           /\ Stats!Occurrences(Stats!Insert(s, n), x) = Stats!Occurrences(s, x)
           /\ SortedTo(s, n - 1) => SortedTo(Stats!Insert(s, n), n)
<1> DEFINE p == Stats!Place(s, n, s[n])
           t == Stats!Insert(s, n)
<1>1. /\ DOMAIN s = 1 .. Len(s) /\ Len(s) \in Nat
      /\ \A m \in 1 .. Len(s) : s[m] \in Nat
  BY LenProperties, ElementOfSeq
<1>2. /\ p \in 1 .. n /\ \A m \in p .. (n - 1) : s[m] > s[n]
      /\ p > 1 => s[p - 1] <= s[n]
  <2>1. n \in Nat \ {0} /\ \A m \in 1 .. n : s[m] \in Nat
    BY <1>1
  <2> QED  BY <2>1, PlaceExists
<1>3. t = [m \in 1 .. Len(s) |-> IF m < p \/ m > n THEN s[m]
                                 ELSE IF m = p THEN s[n] ELSE s[m - 1]]
  BY <1>1 DEF Stats!Insert
<1>4. /\ \A m \in 1 .. Len(s) : m < p \/ m > n => t[m] = s[m]
      /\ t[p] = s[n]
      /\ \A m \in p + 1 .. n : t[m] = s[m - 1]
  BY <1>1, <1>2, <1>3
<1>5. DOMAIN t = 1 .. Len(s)
  BY <1>3
<1>6. \A m \in 1 .. Len(s) : t[m] \in Nat
  <2> SUFFICES ASSUME NEW m \in 1 .. Len(s)  PROVE t[m] \in Nat
    OBVIOUS
  <2>1. m < p \/ m > n \/ m = p \/ m \in p + 1 .. n
    BY <1>2
  <2>2. m \in p + 1 .. n => m - 1 \in 1 .. Len(s)
    BY <1>1, <1>2
  <2> HIDE DEF t, p
  <2> QED  BY <1>1, <1>4, <2>1, <2>2
<1>7. t \in Seq(Nat) /\ Len(t) = Len(s)
  <2>1. t = [m \in 1 .. Len(s) |-> t[m]]
    BY <1>3
  <2> HIDE DEF t
  <2>2. t \in [1 .. Len(s) -> Nat]
    BY <1>6, <2>1
  <2>3. t \in Seq(Nat)
    BY <1>1, <2>2, SeqDef
  <2> QED  BY <1>1, <1>5, <2>3, LenProperties
<1> HIDE DEF t, p
<1>8. Stats!Occurrences(t, x) = Stats!Occurrences(s, x)
  <2> DEFINE A == {m \in DOMAIN s : s[m] = x}
             B == {m \in DOMAIN t : t[m] = x}
             f == [m \in A |-> IF m < p \/ m > n THEN m ELSE IF m = n THEN p ELSE m + 1]
  <2>1. ASSUME NEW m \in A
        PROVE  /\ f[m] \in B
               /\ f[m] = IF m < p \/ m > n THEN m ELSE IF m = n THEN p ELSE m + 1
    <3>1. m \in 1 .. Len(s) /\ s[m] = x
      BY <1>1
    <3>2. CASE m < p \/ m > n
      BY <1>4, <1>5, <3>1, <3>2
    <3>3. CASE m = n
      <4>1. t[p] = x /\ p \in 1 .. Len(s) /\ ~ m < p /\ ~ m > n
        BY <1>1, <1>2, <1>4, <3>1, <3>3
      <4> QED  BY <1>5, <3>3, <4>1
    <3>4. CASE m \in p .. (n - 1)
      <4>1. m + 1 \in p + 1 .. n /\ (m + 1) - 1 = m /\ m + 1 \in 1 .. Len(s) /\ m # n
            /\ ~ m < p /\ ~ m > n
        <5>1. p \in 1 .. n /\ n \in 1 .. Len(s) /\ Len(s) \in Nat /\ m \in p .. (n - 1)
          BY <1>1, <1>2, <3>4
        <5> QED  BY ONLY <5>1
      <4>2. t[m + 1] = x
        BY <1>4, <3>1, <4>1
      <4>3. f[m] = m + 1
        BY <4>1
      <4> QED  BY <1>5, <4>1, <4>2, <4>3
    <3> QED  BY <1>1, <1>2, <3>1, <3>2, <3>3, <3>4
  <2>2. f \in [A -> B]
    BY <2>1
  <2>3. \A j, k \in A : f[j] = f[k] => j = k
    <3> SUFFICES ASSUME NEW j \in A, NEW k \in A, f[j] = f[k]  PROVE j = k
      OBVIOUS
    <3>1. j \in Nat /\ k \in Nat /\ p \in Nat /\ p <= n /\ n \in Nat
      BY <1>1, <1>2
    <3>2. /\ f[j] = IF j < p \/ j > n THEN j ELSE IF j = n THEN p ELSE j + 1
          /\ f[k] = IF k < p \/ k > n THEN k ELSE IF k = n THEN p ELSE k + 1
      BY <2>1
    <3>3. (IF j < p \/ j > n THEN j ELSE IF j = n THEN p ELSE j + 1)
              = (IF k < p \/ k > n THEN k ELSE IF k = n THEN p ELSE k + 1)
      BY <3>2
    <3> QED  BY ONLY <3>1, <3>3
  <2>4. ASSUME NEW b \in B  PROVE \E a \in A : f[a] = b
    <3>1. b \in 1 .. Len(s) /\ t[b] = x
      BY <1>5
    <3>2. CASE b < p \/ b > n
      <4>1. b \in A /\ f[b] = b
        BY <1>1, <1>4, <3>1, <3>2
      <4> QED  BY <4>1
    <3>3. CASE b = p
      <4>1. n \in A /\ n \in 1 .. Len(s) /\ ~ n < p /\ ~ n > n
        BY <1>1, <1>2, <1>4, <3>1, <3>3
      <4>2. f[n] = p
        BY <4>1
      <4> QED  BY <3>3, <4>1, <4>2
    <3>4. CASE b \in p + 1 .. n
      <4>1. /\ b - 1 \in 1 .. Len(s) /\ (b - 1) + 1 = b /\ b - 1 # n
            /\ ~ b - 1 < p /\ ~ b - 1 > n
        BY <1>1, <1>2, <3>1, <3>4
      <4>2. b - 1 \in A
        BY <1>1, <1>4, <3>1, <3>4, <4>1
      <4>3. f[b - 1] = b
        BY <4>1, <4>2
      <4> QED  BY <4>2, <4>3
    <3>5. b \in p + 1 .. n \/ b < p \/ b > n \/ b = p
      BY <1>1, <1>2, <3>1
    <3> QED  BY <3>2, <3>3, <3>4, <3>5
  <2>5. IsFiniteSet(A)
    <3>1. A = Positions(s, {x})
      BY DEF Positions
    <3> QED  BY <3>1, PositionsFinite
  <2> HIDE DEF A, B, f
  <2>6. ExistsBijection(A, B)
    BY <2>2, <2>3, <2>4, Fun_IsBij DEF ExistsBijection
  <2>7. Cardinality(B) = Cardinality(A)
    BY <2>5, <2>6, FS_Bijection
  <2> QED  BY <2>7, OccurrencesDef DEF A, B
<1>9. ASSUME SortedTo(s, n - 1)  PROVE SortedTo(t, n)
  <2> SUFFICES ASSUME NEW j \in 1 .. n, NEW k \in 1 .. n, j < k  PROVE t[j] <= t[k]
    BY DEF SortedTo
  <2>1. /\ p \in Nat /\ n \in Nat /\ 1 <= p /\ p <= n /\ n <= Len(s)
        /\ \A m \in 1 .. n : s[m] \in Nat
    BY <1>1, <1>2
  <2>2. \A a, b \in 1 .. (n - 1) : a <= b => s[a] <= s[b]
    <3> SUFFICES ASSUME NEW a \in 1 .. (n - 1), NEW b \in 1 .. (n - 1), a <= b
                 PROVE  s[a] <= s[b]
      OBVIOUS
    <3>1. a < b => s[a] <= s[b]
      BY <1>9 DEF SortedTo
    <3>2. a = b => s[a] <= s[b]
      BY <2>1
    <3> QED  BY <3>1, <3>2
  <2>3. CASE k < p
    <3>1. t[j] = s[j] /\ t[k] = s[k] /\ j \in 1 .. (n - 1) /\ k \in 1 .. (n - 1)
      BY <1>4, <2>1, <2>3
    <3> QED  BY <2>2, <3>1
  <2>4. CASE k = p
    <3>1. t[j] = s[j] /\ t[k] = s[n] /\ s[p - 1] <= s[n]
      BY <1>2, <1>4, <2>1, <2>4
    <3>2. j \in 1 .. (n - 1) /\ p - 1 \in 1 .. (n - 1) /\ j <= p - 1
      BY <2>1, <2>4
    <3>3. s[j] <= s[p - 1]
      BY <2>2, <3>2
    <3>4. s[j] \in Nat /\ s[p - 1] \in Nat /\ s[n] \in Nat
      BY <2>1, <3>2
    <3> QED  BY <3>1, <3>3, <3>4
  <2>5. CASE k > p
    <3>1. k \in p + 1 .. n /\ k - 1 \in p .. (n - 1) /\ k - 1 \in 1 .. (n - 1)
      BY <2>1, <2>5
    <3>2. t[k] = s[k - 1] /\ s[k - 1] > s[n] /\ s[k - 1] \in Nat /\ s[n] \in Nat
      BY <1>2, <1>4, <2>1, <3>1
    <3>3. CASE j < p
      <4>1. t[j] = s[j] /\ j \in 1 .. (n - 1) /\ j <= k - 1
        BY <1>4, <2>1, <3>1, <3>3
      <4> QED  BY <2>2, <3>1, <3>2, <4>1
    <3>4. CASE j = p
      <4>1. t[j] = s[n]
        BY <1>4, <3>4
      <4> QED  BY ONLY <3>2, <4>1
    <3>5. CASE j > p
      <4>1. j \in p + 1 .. n /\ j - 1 \in 1 .. (n - 1) /\ j - 1 <= k - 1
        BY <2>1, <3>1, <3>5
      <4>2. t[j] = s[j - 1]
        BY <1>4, <4>1
      <4> QED  BY <2>2, <3>1, <3>2, <4>1, <4>2
    <3> QED  BY <2>1, <3>3, <3>4, <3>5
  <2> QED  BY <2>1, <2>3, <2>4, <2>5
<1> QED  BY <1>7, <1>8, <1>9 DEF t

-----------------------------------------------------------------------------
(* The report of the latencies.                                            *)

Together == latency_samples_together
Wanted == mark["collect_begins"]

\* How often each lcore sampled x.
Sampled(x) == [lcore \in Stats!LcoreIds |-> Stats!Occurrences(latency_samples[lcore], x)]

\* Only the receive lcores of a client sample.
SamplesInv ==
    /\ latency_samples \in [Stats!LcoreIds -> Seq(Latencies)]
    /\ Together \in Seq(Nat)
    /\ \A lcore \in Stats!LcoreIds :
         ~ (sampling /\ lcore < n_rcv_cores) =>
             latency_sample_num[lcore] = 0 /\ latency_samples[lcore] = << >>
    /\ Stats!Collected =>
         \A lcore \in Stats!LcoreIds : Wanted[lcore] <= latency_sample_num[lcore]

\* All that was published when collecting began is there, and nothing twice.
Reported ==
    /\ SumTo(Wanted, n_lcores) <= Len(Together)
    /\ \A x \in Latencies : Stats!Occurrences(Together, x) <= SumTo(Sampled(x), n_lcores)

\* The same of the lcores before sum, and of the first i samples of that lcore.
CollectInv ==
    task = "collect" =>
        /\ stop_statis = 0
        /\ sum < n_lcores =>
             /\ SumTo(Wanted, sum) + i <= Len(Together)
             /\ \A x \in Latencies :
                  Stats!Occurrences(Together, x) <=
                      SumTo(Sampled(x), sum) + Seen(latency_samples[sum], i, x)
        /\ sum >= n_lcores => Reported

SortInv ==
    task = "sort" => /\ stop_statis = 0 /\ Reported
                     /\ i <= Len(Together) /\ SortedTo(Together, i)

DoneInv ==
    /\ stop_statis = 1 => Reported /\ SortedTo(Together, Len(Together))
    /\ stop_statis = 0 /\ task \notin {"collect", "sort"} => Together = << >>

ReportInv == StatsInv /\ SamplesInv /\ CollectInv /\ SortInv /\ DoneInv

\* What another lcore does to the samples.
MoreSamples ==
    /\ latency_samples' \in [Stats!LcoreIds -> Seq(Latencies)]
    /\ \A lcore \in Stats!LcoreIds :
         /\ latency_sample_num[lcore] <= latency_sample_num'[lcore]
         /\ \/ latency_samples'[lcore] = latency_samples[lcore]
            \/ \E e \in Latencies :
                 latency_samples'[lcore] = Append(latency_samples[lcore], e)

\* The other lcores only append to what they sampled.
LEMMA OthersSample ==
    ASSUME StatsInv, SamplesInv, Others
    PROVE  MoreSamples /\ SamplesInv'
<1>1. /\ latency_samples \in [Stats!LcoreIds -> Seq(Latencies)]
      /\ latency_sample_num \in [Stats!LcoreIds -> Nat]
  BY DEF SamplesInv, StatsInv, TypeInv, Stats!TypeOK
<1>2. ASSUME NEW lcore \in Stats!LcoreIds, NEW latency \in Latencies,
             Stats!Write(lcore, latency) \/ Stats!Publish(lcore)
      PROVE  /\ MoreSamples
             /\ \A l \in Stats!LcoreIds :
                  l # lcore => /\ latency_sample_num'[l] = latency_sample_num[l]
                               /\ latency_samples'[l] = latency_samples[l]
  <2>1. Append(latency_samples[lcore], latency) \in Seq(Latencies)
    BY <1>1, AppendProperties
  <2>2. CASE Stats!Write(lcore, latency)
    <3>1. /\ latency_samples' = [latency_samples EXCEPT ![lcore] = Append(@, latency)]
          /\ latency_sample_num' = latency_sample_num
      BY <2>2 DEF Stats!Write
    <3>2. /\ latency_samples'[lcore] = Append(latency_samples[lcore], latency)
          /\ \A l \in Stats!LcoreIds : l # lcore => latency_samples'[l] = latency_samples[l]
          /\ latency_samples' \in [Stats!LcoreIds -> Seq(Latencies)]
      BY <1>1, <2>1, <3>1
    <3>3. \A l \in Stats!LcoreIds : latency_sample_num[l] <= latency_sample_num'[l]
      BY <1>1, <3>1
    <3> QED  BY <3>1, <3>2, <3>3 DEF MoreSamples
  <2>3. CASE Stats!Publish(lcore)
    BY <1>1, <2>3 DEF Stats!Publish, MoreSamples
  <2> QED  BY <1>2, <2>2, <2>3
<1>3. ASSUME UNCHANGED << latency_samples, latency_sample_num >>  PROVE MoreSamples
  BY <1>1, <1>3 DEF MoreSamples
<1> DEFINE Idlers == \A lcore \in Stats!LcoreIds :
                       ~ (sampling /\ lcore < n_rcv_cores) =>
                           /\ latency_sample_num'[lcore] = 0
                           /\ latency_samples'[lcore] = << >>
<1>4. ASSUME UNCHANGED << latency_samples, latency_sample_num >>  PROVE Idlers
  BY <1>4 DEF SamplesInv
<1>5. MoreSamples /\ Idlers
  <2>1. ASSUME NEW lcore \in Stats!LcoreIds, Stats!Count(lcore)  PROVE MoreSamples /\ Idlers
    BY <1>3, <1>4, <2>1 DEF Stats!Count, Stats!sampled
  <2>2. ASSUME Stats!Tick  PROVE MoreSamples /\ Idlers
    BY <1>3, <1>4, <2>2 DEF Stats!Tick, Stats!sampled
  <2>3. ASSUME NEW lcore \in Stats!LcoreIds, NEW latency \in Latencies,
               Stats!ReceiveGrant(lcore, latency)
        PROVE  MoreSamples /\ Idlers
    <3>1. sampling /\ lcore < n_rcv_cores
      BY <2>3 DEF Stats!ReceiveGrant, Stats!Receives
    <3>2. \/ Stats!Write(lcore, latency) \/ Stats!Publish(lcore)
          \/ UNCHANGED << latency_samples, latency_sample_num >>
      BY <2>3 DEF Stats!ReceiveGrant
    <3> QED  BY <1>2, <1>3, <1>4, <3>1, <3>2 DEF SamplesInv
  <2>4. ASSUME NEW lcore \in Stats!LcoreIds, NEW latency \in Latencies,
               Stats!FinishSample(lcore, latency)
        PROVE  MoreSamples /\ Idlers
    <3>1. Len(latency_samples[lcore]) # latency_sample_num[lcore]
      <4>1. Len(latency_samples[lcore]) \in Nat /\ latency_sample_num[lcore] \in Nat
        BY <1>1, LenProperties
      <4> QED  BY <2>4, <4>1 DEF Stats!FinishSample, Stats!Written
    <3>2. sampling /\ lcore < n_rcv_cores
      <4>1. Len(<< >>) = 0
        OBVIOUS
      <4> QED  BY <3>1, <4>1 DEF SamplesInv
    <3>3. Stats!Write(lcore, latency) \/ Stats!Publish(lcore)
      BY <2>4 DEF Stats!FinishSample
    <3> QED  BY <1>2, <3>2, <3>3 DEF SamplesInv
  <2> QED  BY <2>1, <2>2, <2>3, <2>4 DEF Others
<1>6. /\ UNCHANGED << Stats!LcoreIds, n_rcv_cores, sampling, Together, mark, task, stop_statis >>
      /\ Wanted' = Wanted
  BY OthersGrow DEF Grows, Stats!given, Stats!LcoreIds, Stats!results, Stats!averages,
                    Together, Wanted
<1>7. SamplesInv'
  <2>1. \A lcore \in Stats!LcoreIds :
          /\ latency_sample_num[lcore] \in Nat /\ latency_sample_num'[lcore] \in Nat
          /\ latency_sample_num[lcore] <= latency_sample_num'[lcore]
    <3>1. latency_sample_num' \in [Stats!LcoreIds -> Nat]
      BY <1>6, OthersStep DEF StatsInv, TypeInv, Stats!TypeOK
    <3> QED  BY <1>1, <1>5, <3>1 DEF MoreSamples
  <2>2. ASSUME Stats!Collected, NEW lcore \in Stats!LcoreIds
        PROVE  Wanted[lcore] <= latency_sample_num'[lcore]
    <3>1. Wanted[lcore] <= latency_sample_num[lcore] /\ Wanted[lcore] \in Nat
      BY <2>2, StatsTypes DEF SamplesInv, Wanted
    <3> QED  BY <2>1, <3>1
  <2> QED  BY <1>5, <1>6, <2>2 DEF SamplesInv, MoreSamples, Stats!Collected
<1> QED  BY <1>5, <1>7

LEMMA SampledType ==
    ASSUME SamplesInv, NEW x
    PROVE  Sampled(x) \in [Stats!LcoreIds -> Nat]
<1> SUFFICES ASSUME NEW lcore \in Stats!LcoreIds
             PROVE  Stats!Occurrences(latency_samples[lcore], x) \in Nat
  BY DEF Sampled
<1>1. latency_samples[lcore] \in Seq(Latencies)
  BY DEF SamplesInv
<1> QED  BY <1>1, OccurrencesType

\* They may do so while lcore 0 collects.
LEMMA ReportGrows ==
    ASSUME ReportInv, Others
    PROVE  (CollectInv /\ SortInv /\ DoneInv)'
<1>1. StatsInv /\ SamplesInv /\ SamplesInv' /\ MoreSamples /\ Grows
  BY OthersSample, OthersGrow DEF ReportInv
<1>2. /\ task' = task /\ i' = i /\ sum' = sum /\ mark' = mark /\ stop_statis' = stop_statis
      /\ n_lcores' = n_lcores /\ Together' = Together /\ Stats!LcoreIds' = Stats!LcoreIds
      /\ Wanted' = Wanted
  BY <1>1 DEF Grows, Stats!given, Stats!averages, Stats!results, Together, Wanted,
              Stats!LcoreIds
<1>3. n_lcores \in Nat /\ sum \in Nat
  BY <1>1, StatsTypes
<1>4. ASSUME NEW x, NEW k \in 0 .. n_lcores
      PROVE  /\ SumTo(Sampled(x), k) <= SumTo(Sampled(x)', k)
             /\ SumTo(Sampled(x), k) \in Nat /\ SumTo(Sampled(x)', k) \in Nat
  <2>1. Sampled(x) \in [Stats!LcoreIds -> Nat]
    BY <1>1, SampledType
  <2>2. Sampled(x)' \in [Stats!LcoreIds -> Nat]
    <3>1. Sampled(x)' = [lcore \in Stats!LcoreIds |->
                            Stats!Occurrences(latency_samples'[lcore], x)]
      BY <1>2 DEF Sampled, Stats!Occurrences
    <3>2. ASSUME NEW lcore \in Stats!LcoreIds
          PROVE  Stats!Occurrences(latency_samples'[lcore], x) \in Nat
      <4>1. latency_samples'[lcore] \in Seq(Latencies)
        BY <1>1 DEF MoreSamples
      <4> QED  BY <4>1, OccurrencesType
    <3> QED  BY <3>1, <3>2
  <2>3. ASSUME NEW lcore \in Stats!LcoreIds
        PROVE  Sampled(x)[lcore] <= Sampled(x)'[lcore]
    <3>1. /\ Sampled(x)[lcore] = Stats!Occurrences(latency_samples[lcore], x)
          /\ Sampled(x)'[lcore] = Stats!Occurrences(latency_samples'[lcore], x)
      BY <1>2 DEF Sampled, Stats!Occurrences
    <3>2. Sampled(x)[lcore] \in Nat
      BY <2>1
    <3>3. CASE latency_samples'[lcore] = latency_samples[lcore]
      BY <3>1, <3>2, <3>3
    <3>4. CASE \E e \in Latencies : latency_samples'[lcore] = Append(latency_samples[lcore], e)
      <4>1. latency_samples[lcore] \in Seq(Latencies)
        BY <1>1 DEF SamplesInv
      <4> QED  BY <3>1, <3>4, <4>1, SeenMore
    <3> QED  BY <1>1, <3>3, <3>4 DEF MoreSamples
  <2>4. SumTo(Sampled(x), k) <= SumTo(Sampled(x)', k)
    BY <1>3, <2>1, <2>2, <2>3, SumToMonotone
  <2>5. SumTo(Sampled(x), k) \in Nat
    BY <1>3, <2>1, SumToType
  <2>6. SumTo(Sampled(x)', k) \in Nat
    BY <1>3, <2>2, SumToType
  <2> QED  BY <2>4, <2>5, <2>6
<1>5. /\ \A x, k : SumTo(Sampled(x), k)' = SumTo(Sampled(x)', k')
      /\ \A k : SumTo(Wanted, k)' = SumTo(Wanted, k')
  BY <1>2 DEF SumTo, Stats!SumOver
<1>6. \A x : Stats!Occurrences(Together, x)' = Stats!Occurrences(Together, x)
  BY <1>2 DEF Stats!Occurrences
<1>7. \A x : Stats!Occurrences(Together, x) \in Nat
  BY <1>1, OccurrencesType DEF SamplesInv
<1>8. Reported => Reported'
  <2> SUFFICES ASSUME Reported  PROVE Reported'
    OBVIOUS
  <2>1. n_lcores \in 0 .. n_lcores
    BY <1>3
  <2>2. /\ SumTo(Wanted, n_lcores)' = SumTo(Wanted, n_lcores)
        /\ \A x : SumTo(Sampled(x), n_lcores)' = SumTo(Sampled(x)', n_lcores)
    BY <1>2 DEF SumTo, Stats!SumOver
  <2>3. ASSUME NEW x \in Latencies
        PROVE  Stats!Occurrences(Together, x)' <= SumTo(Sampled(x), n_lcores)'
    <3>1. Stats!Occurrences(Together, x) <= SumTo(Sampled(x), n_lcores)
      BY DEF Reported
    <3> QED  BY <1>4, <1>6, <1>7, <2>1, <2>2, <3>1
  <2> QED  BY <1>2, <2>2, <2>3 DEF Reported
<1>9. CollectInv'
  <2> SUFFICES ASSUME task = "collect", sum < n_lcores, NEW x \in Latencies
               PROVE  Stats!Occurrences(Together, x)' <=
                          SumTo(Sampled(x), sum)' + Seen(latency_samples[sum], i, x)'
    <3>1. SumTo(Wanted, sum)' = SumTo(Wanted, sum)
      BY <1>2 DEF SumTo, Stats!SumOver
    <3> QED  BY <1>2, <1>8, <3>1 DEF ReportInv, CollectInv
  <2>1. sum \in 0 .. n_lcores /\ sum \in Stats!LcoreIds
    BY <1>3 DEF Stats!LcoreIds
  <2>2. /\ SumTo(Sampled(x), sum)' = SumTo(Sampled(x)', sum)
        /\ Seen(latency_samples[sum], i, x)' = Seen(latency_samples'[sum], i, x)
    BY <1>2 DEF SumTo, Stats!SumOver, Seen, SeenAt
  <2>3. Stats!Occurrences(Together, x) <=
            SumTo(Sampled(x), sum) + Seen(latency_samples[sum], i, x)
    BY DEF ReportInv, CollectInv
  <2>4. latency_samples[sum] \in Seq(Latencies) /\ latency_samples'[sum] \in Seq(Latencies)
    BY <1>1, <2>1 DEF SamplesInv, MoreSamples
  <2>5. Seen(latency_samples[sum], i, x) \in Nat
    BY <2>4, SeenFinite
  <2>6. Seen(latency_samples'[sum], i, x) \in Nat
    BY <2>4, SeenFinite
  <2>7. Seen(latency_samples[sum], i, x) <= Seen(latency_samples'[sum], i, x)
    <3>1. CASE latency_samples'[sum] = latency_samples[sum]
      BY <2>5, <3>1
    <3>2. CASE \E e \in Latencies : latency_samples'[sum] = Append(latency_samples[sum], e)
      BY <2>4, <3>2, SeenMore
    <3> QED  BY <1>1, <2>1, <3>1, <3>2 DEF MoreSamples
  <2>8. /\ SumTo(Sampled(x), sum) <= SumTo(Sampled(x)', sum)
        /\ SumTo(Sampled(x), sum) \in Nat /\ SumTo(Sampled(x)', sum) \in Nat
    BY <1>4, <2>1
  <2>9. Stats!Occurrences(Together, x)' = Stats!Occurrences(Together, x)
        /\ Stats!Occurrences(Together, x) \in Nat
    BY <1>6, <1>7
  <2> QED  BY <2>2, <2>3, <2>5, <2>6, <2>7, <2>8, <2>9
<1>10. \A k : SortedTo(Together, k)' = SortedTo(Together, k')
  BY <1>2 DEF SortedTo
<1>11. SortInv' /\ DoneInv'
  <2>1. SortedTo(Together, i)' = SortedTo(Together, i)
    BY <1>2 DEF SortedTo
  <2>2. SortedTo(Together, Len(Together))' = SortedTo(Together, Len(Together))
    BY <1>2 DEF SortedTo
  <2> QED  BY <1>2, <1>8, <2>1, <2>2 DEF ReportInv, SortInv, DoneInv
<1> QED  BY <1>9, <1>11

\* lcore 0 changes no sample.
LEMMA SamplesKept ==
    ASSUME Stats!Lcore0
    PROVE  /\ UNCHANGED << Stats!given, latency_samples, latency_sample_num, n_lcores,
                           n_rcv_cores, sampling, Stats!LcoreIds >>
           /\ \A x : Sampled(x)' = Sampled(x)
           /\ \A x : SumTo(Sampled(x), n_lcores)' = SumTo(Sampled(x), n_lcores)
           /\ \A x : SumTo(Sampled(x), sum)' = SumTo(Sampled(x), sum')
<1>1. UNCHANGED << Stats!given, Stats!sampled >>
  BY DEF Stats!Lcore0, Stats!PrintBegin, Stats!PrintLcore, Stats!StartBegin,
         Stats!StartLcore, Stats!AddToTotal, Stats!StartEnd, Stats!EndBegin,
         Stats!EndLcore, Stats!EndEnd, Stats!CollectSample, Stats!CollectEnd,
         Stats!SortSample, Stats!WriteResults, Stats!Exit
<1>2. UNCHANGED << Stats!given, latency_samples, latency_sample_num, n_lcores,
                   n_rcv_cores, sampling, Stats!LcoreIds >>
  BY <1>1 DEF Stats!given, Stats!sampled, Stats!LcoreIds
<1>3. \A x : Sampled(x)' = Sampled(x)
  BY <1>2 DEF Sampled, Stats!Occurrences
<1>4. \A x : SumTo(Sampled(x), n_lcores)' = SumTo(Sampled(x), n_lcores)
  BY <1>2, <1>3 DEF SumTo, Stats!SumOver
<1>5. \A x : SumTo(Sampled(x), sum)' = SumTo(Sampled(x), sum')
  BY <1>2, <1>3 DEF SumTo, Stats!SumOver
<1> QED  BY <1>2, <1>3, <1>4, <1>5

\* The steps of lcore 0 that neither collect nor sort.
ReportAside ==
    \/ Stats!PrintBegin \/ Stats!PrintLcore
    \/ Stats!StartBegin \/ Stats!StartLcore \/ Stats!AddToTotal \/ Stats!StartEnd
    \/ Stats!EndBegin \/ Stats!EndLcore \/ Stats!Exit

\* No other step of lcore 0 touches the report.
LEMMA ReportAsideStep ==
    ASSUME ReportInv, StatsInv', ReportAside
    PROVE  ReportInv'
<1>1. Stats!Lcore0
  BY DEF ReportAside, Stats!Lcore0
<1>2. /\ UNCHANGED << Together, stop_statis >>
      /\ task \notin {"collect", "sort"} /\ task' \notin {"collect", "sort"}
      /\ task' = "exited" => stop_statis = 1
  BY DEF ReportAside, Stats!PrintBegin, Stats!PrintLcore, Stats!StartBegin,
         Stats!StartLcore, Stats!AddToTotal, Stats!StartEnd, Stats!EndBegin,
         Stats!EndLcore, Stats!Exit, Stats!results, Stats!averages, Stats!Pass,
         Stats!Idle, Stats!Printed, Together
<1>3. Wanted' = Wanted
  <2>1. mark \in [Stats!Ends -> [Stats!LcoreIds -> Nat]]
    BY DEF ReportInv, StatsInv, TypeInv, Stats!TypeOK
  <2>2. \/ mark' = mark
        \/ mark' = [mark EXCEPT !["start_begins"] = tput_stat]
        \/ mark' = [mark EXCEPT !["start_ends"] = tput_stat]
        \/ mark' = [mark EXCEPT !["end_begins"] = tput_stat]
    BY DEF ReportAside, Stats!PrintBegin, Stats!PrintLcore, Stats!StartBegin,
           Stats!StartLcore, Stats!AddToTotal, Stats!StartEnd, Stats!EndBegin,
           Stats!EndLcore, Stats!Exit
  <2> QED  BY <2>1, <2>2 DEF Wanted, Stats!Ends
<1>4. Reported => Reported'
  <2>1. SumTo(Wanted, n_lcores)' = SumTo(Wanted, n_lcores)
    BY <1>1, <1>3, SamplesKept DEF SumTo, Stats!SumOver
  <2>2. \A x : Stats!Occurrences(Together, x)' = Stats!Occurrences(Together, x)
    BY <1>2 DEF Stats!Occurrences
  <2>3. \A x : SumTo(Sampled(x), n_lcores)' = SumTo(Sampled(x), n_lcores)
    BY <1>1, SamplesKept
  <2> QED  BY <1>2, <2>1, <2>2, <2>3 DEF Reported
<1>5. SortedTo(Together, Len(Together))' = SortedTo(Together, Len(Together))
  BY <1>2 DEF SortedTo
<1>6. SamplesInv'
  BY <1>1, <1>2, <1>3, SamplesKept DEF ReportInv, SamplesInv, Stats!Collected
<1> QED  BY <1>2, <1>4, <1>5, <1>6 DEF ReportInv, CollectInv, SortInv, DoneInv

\* Nothing is in an empty report.
LEMMA NothingOccurs == \A x : Stats!Occurrences(<< >>, x) = 0
<1> TAKE x
<1>1. {n \in DOMAIN << >> : << >>[n] = x} = {}
  OBVIOUS
<1> QED  BY <1>1, OccurrencesDef, FS_EmptySet

\* Collecting begins with an empty report.
LEMMA CollectBegins ==
    ASSUME ReportInv, StatsInv', Stats!EndEnd
    PROVE  ReportInv'
<1>1. Stats!Lcore0
  BY DEF Stats!Lcore0
<1>2. /\ Together' = Together /\ stop_statis' = stop_statis /\ task = "end"
      /\ task' = "collect" /\ i' = 0 /\ sum' = 0
  BY DEF Stats!EndEnd, Stats!results, Together
<1>3. stop_statis = 0 /\ Together = << >>
  BY <1>2 DEF ReportInv, StatsInv, SecondPass, DoneInv
<1>4. Wanted' = latency_sample_num
  <2>1. mark \in [Stats!Ends -> [Stats!LcoreIds -> Nat]] /\ "collect_begins" \in Stats!Ends
    BY DEF ReportInv, StatsInv, TypeInv, Stats!TypeOK, Stats!Ends
  <2>2. mark' = [mark EXCEPT !["end_ends"] = tput_stat,
                             !["collect_begins"] = latency_sample_num]
    BY DEF Stats!EndEnd
  <2> QED  BY <2>1, <2>2 DEF Wanted
<1>5. /\ latency_sample_num \in [Stats!LcoreIds -> Nat] /\ n_lcores \in Nat
  BY DEF ReportInv, StatsInv, TypeInv, Started, Stats!TypeOK
<1>6. SamplesInv'
  <2>1. \A lcore \in Stats!LcoreIds : latency_sample_num[lcore] <= latency_sample_num[lcore]
    BY <1>5
  <2> QED  BY <1>1, <1>2, <1>4, <2>1, SamplesKept DEF ReportInv, SamplesInv
<1>7. SumTo(Wanted, 0)' = 0 /\ Len(Together') = 0
  <2>1. SumTo(Wanted, 0)' = SumTo(latency_sample_num, 0)
    BY <1>4 DEF SumTo, Stats!SumOver
  <2>2. 0 \in 0 .. n_lcores
    BY <1>5
  <2>3. SumTo(latency_sample_num, 0) = 0
    BY <1>5, <2>2, SumToType
  <2>4. Len(<< >>) = 0
    OBVIOUS
  <2> QED  BY <1>2, <1>3, <2>1, <2>3, <2>4
<1>8. SumTo(Wanted, sum)' = 0
  BY <1>2, <1>7 DEF SumTo, Stats!SumOver
<1>9. \A x : Stats!Occurrences(Together, x)' = 0
  <2>1. \A x : Stats!Occurrences(Together, x)' = Stats!Occurrences(Together', x)
    BY DEF Stats!Occurrences
  <2> QED  BY <1>2, <1>3, <2>1, NothingOccurs
<1>10. ASSUME NEW x
       PROVE  SumTo(Sampled(x), sum)' = 0
  <2>1. 0 \in 0 .. n_lcores
    BY <1>5
  <2>2. Sampled(x) \in [Stats!LcoreIds -> Nat]
    BY SampledType DEF ReportInv
  <2>3. SumTo(Sampled(x), 0) = 0
    BY <1>5, <2>1, <2>2, SumToType
  <2> QED  BY <1>1, <1>2, <2>3, SamplesKept
<1>11. CollectInv'
  <2>1. ASSUME sum' < n_lcores', NEW x \in Latencies
        PROVE  Seen(latency_samples[sum], i, x)' = 0
    <3>1. sum' \in Stats!LcoreIds
      BY <1>1, <1>2, <1>5, <2>1, SamplesKept DEF Stats!LcoreIds
    <3>2. latency_samples'[sum'] \in Seq(Latencies)
      BY <1>1, <3>1, SamplesKept DEF ReportInv, SamplesInv
    <3>3. Seen(latency_samples'[sum'], 0, x) = 0
      BY <3>2, SeenStep
    <3>4. Seen(latency_samples[sum], i, x)' = Seen(latency_samples'[sum'], i', x)
      BY DEF Seen, SeenAt
    <3> QED  BY <1>2, <3>3, <3>4
  <2>2. CASE n_lcores > 0
    <3>1. sum' < n_lcores' /\ ~ sum' >= n_lcores'
      BY <1>1, <1>2, <1>5, <2>2, SamplesKept
    <3> QED  BY <1>2, <1>3, <1>7, <1>8, <1>9, <1>10, <2>1, <3>1 DEF CollectInv
  <2>3. CASE n_lcores = 0
    <3>1. ~ sum' < n_lcores'
      BY <1>1, <1>2, <2>3, SamplesKept
    <3>2. /\ SumTo(Wanted, n_lcores)' = 0
          /\ \A x : SumTo(Sampled(x), n_lcores)' = 0
      <4>1. n_lcores' = sum'
        BY <1>1, <1>2, <2>3, SamplesKept
      <4>2. SumTo(Wanted, n_lcores)' = SumTo(Wanted, sum)'
        BY <4>1 DEF SumTo, Stats!SumOver
      <4>3. \A x : SumTo(Sampled(x), n_lcores)' = SumTo(Sampled(x), sum)'
        BY <4>1 DEF SumTo, Stats!SumOver
      <4> QED  BY <1>8, <1>10, <4>2, <4>3
    <3>3. Reported'
      BY <1>7, <1>9, <3>2 DEF Reported
    <3> QED  BY <1>2, <1>3, <3>1, <3>3 DEF CollectInv
  <2> QED  BY <1>5, <2>2, <2>3
<1> QED  BY <1>2, <1>3, <1>6, <1>11 DEF ReportInv, SortInv, DoneInv

\* One sample more in the report, or the next lcore.
LEMMA CollectStep ==
    ASSUME ReportInv, StatsInv', Stats!CollectSample
    PROVE  ReportInv'
<1>1. Stats!Lcore0
  BY DEF Stats!Lcore0
<1>2. /\ task = "collect" /\ task' = task /\ stop_statis' = stop_statis /\ mark' = mark
      /\ sum < n_rcv_cores /\ stop_statis = 0 /\ Wanted' = Wanted
  BY DEF Stats!CollectSample, Stats!averages, Wanted, ReportInv, CollectInv
<1>3. /\ n_lcores \in Nat /\ n_rcv_cores \in Nat /\ i \in Nat /\ sum \in Nat
      /\ Wanted \in [Stats!LcoreIds -> Nat]
      /\ latency_sample_num \in [Stats!LcoreIds -> Nat]
      /\ latency_samples \in [Stats!LcoreIds -> Seq(Latencies)] /\ Together \in Seq(Nat)
      /\ Len(Together) \in Nat
  <2>1. StatsInv /\ SamplesInv
    BY DEF ReportInv
  <2>2. Together \in Seq(Nat) /\ latency_samples \in [Stats!LcoreIds -> Seq(Latencies)]
    BY <2>1 DEF SamplesInv
  <2>3. latency_sample_num \in [Stats!LcoreIds -> Nat]
    BY <2>1 DEF StatsInv, TypeInv, Stats!TypeOK
  <2>4. Wanted \in [Stats!LcoreIds -> Nat]
    BY <2>1, StatsTypes DEF Wanted
  <2> QED  BY <2>1, <2>2, <2>3, <2>4, StatsTypes, LenProperties
<1>4. /\ \A k : SumTo(Wanted, k)' = SumTo(Wanted, k)
      /\ SumTo(Wanted, sum)' = SumTo(Wanted, sum')
      /\ SumTo(Wanted, n_lcores)' = SumTo(Wanted, n_lcores)
  BY <1>1, <1>2, SamplesKept DEF SumTo, Stats!SumOver
<1>5. ASSUME Together' \in Seq(Nat)  PROVE SamplesInv'
  BY <1>1, <1>2, <1>5, SamplesKept DEF ReportInv, SamplesInv, Stats!Collected
<1>6. \A x : Stats!Occurrences(Together, x)' = Stats!Occurrences(Together', x)
  BY DEF Stats!Occurrences
<1>7. \A x : Stats!Occurrences(Together, x) \in Nat
  BY <1>3, OccurrencesType
<1>8. \A x : Seen(latency_samples[sum], i, x)' = Seen(latency_samples[sum'], i', x)
  <2>1. \A x : Seen(latency_samples[sum], i, x)' = Seen(latency_samples'[sum'], i', x)
    BY DEF Seen, SeenAt
  <2> QED  BY <1>1, <2>1, SamplesKept
<1>9. CASE i < Stats!Published(sum)
  <2>1. sum < n_lcores /\ sum \in Stats!LcoreIds
    <3>1. sum < n_lcores
      BY <1>3, <1>9 DEF Stats!Published
    <3> QED  BY <1>3, <3>1 DEF Stats!LcoreIds
  <2>2. /\ Together' = Append(Together, Stats!Entry(sum, i)) /\ i' = i + 1 /\ sum' = sum
    BY <1>9 DEF Stats!CollectSample, Together
  <2>3. latency_samples[sum] \in Seq(Latencies)
    BY <1>3, <2>1
  <2>4. /\ Stats!Entry(sum, i) \in Nat
        /\ \A x \in Latencies : Stats!Entry(sum, i) = x =>
               i < Len(latency_samples[sum]) /\ latency_samples[sum][i + 1] = x
    <3>1. Len(latency_samples[sum]) \in Nat
      BY <2>3, LenProperties
    <3>2. i < Len(latency_samples[sum]) => latency_samples[sum][i + 1] \in Latencies
      <4>1. i < Len(latency_samples[sum]) => i + 1 \in 1 .. Len(latency_samples[sum])
        BY <1>3, <3>1
      <4> QED  BY <2>3, <4>1, ElementOfSeq
    <3>3. \A x \in Latencies : x \in Nat /\ x # 0
      BY LatenciesAssumption
    <3> QED  BY <3>2, <3>3 DEF Stats!Entry, Stats!Written
  <2>5. /\ Together' \in Seq(Nat) /\ Len(Together') = Len(Together) + 1
    BY <1>3, <2>2, <2>4, AppendProperties
  <2>6. ASSUME NEW x \in Latencies
        PROVE  Stats!Occurrences(Together, x)' <=
                   SumTo(Sampled(x), sum)' + Seen(latency_samples[sum], i, x)'
    <3>1. Stats!Occurrences(Together, x)' =
              Stats!Occurrences(Together, x) + (IF Stats!Entry(sum, i) = x THEN 1 ELSE 0)
      <4>1. Together \in Seq(Nat) /\ Stats!Entry(sum, i) \in Nat
        BY <1>3, <2>4
      <4>2. Stats!Occurrences(Append(Together, Stats!Entry(sum, i)), x) =
                Stats!Occurrences(Together, x) + (IF Stats!Entry(sum, i) = x THEN 1 ELSE 0)
        BY ONLY <4>1, OccurrencesAppend
      <4>3. Stats!Occurrences(Together', x) =
                Stats!Occurrences(Together, x) + (IF Stats!Entry(sum, i) = x THEN 1 ELSE 0)
        BY ONLY <2>2, <4>2
      <4>4. Stats!Occurrences(Together, x)' = Stats!Occurrences(Together', x)
        BY ONLY <1>6
      <4> QED  BY ONLY <4>3, <4>4
    <3>2. Seen(latency_samples[sum], i + 1, x) =
              Seen(latency_samples[sum], i, x)
                + (IF i < Len(latency_samples[sum]) /\ latency_samples[sum][i + 1] = x
                   THEN 1 ELSE 0)
      <4>1. i \in Nat
        BY <1>3
      <4> QED  BY ONLY <2>3, <4>1, SeenStep
    <3>3. Seen(latency_samples[sum], i, x) \in Nat
      BY <2>3, SeenFinite
    <3>4. Stats!Occurrences(Together, x) <=
              SumTo(Sampled(x), sum) + Seen(latency_samples[sum], i, x)
      BY <1>2, <2>1 DEF ReportInv, CollectInv
    <3>5. SumTo(Sampled(x), sum)' = SumTo(Sampled(x), sum)
      BY <1>1, <2>2, SamplesKept
    <3>6. SumTo(Sampled(x), sum) \in Nat
      <4>1. Sampled(x) \in [Stats!LcoreIds -> Nat]
        BY SampledType DEF ReportInv
      <4>2. sum \in 0 .. n_lcores
        BY <1>3, <2>1
      <4> QED  BY <1>3, <4>1, <4>2, SumToType
    <3>7. Seen(latency_samples[sum], i, x)' = Seen(latency_samples[sum], i + 1, x)
      BY <1>8, <2>2
    <3>8. Stats!Entry(sum, i) = x =>
              i < Len(latency_samples[sum]) /\ latency_samples[sum][i + 1] = x
      BY <2>4
    <3>9. CASE Stats!Entry(sum, i) = x
      BY <1>7, <3>1, <3>2, <3>3, <3>4, <3>5, <3>6, <3>7, <3>8, <3>9
    <3>10. CASE Stats!Entry(sum, i) # x
      BY <1>7, <3>1, <3>2, <3>3, <3>4, <3>5, <3>6, <3>7, <3>10
    <3> QED  BY <3>9, <3>10
  <2>7. SumTo(Wanted, sum)' + i' <= Len(Together')
    <3>1. SumTo(Wanted, sum) + i <= Len(Together)
      BY <1>2, <2>1 DEF ReportInv, CollectInv
    <3>2. SumTo(Wanted, sum) \in Nat
      <4>1. sum \in 0 .. n_lcores
        BY <1>3, <2>1
      <4> QED  BY <1>3, <4>1, SumToType
    <3> QED  BY <1>3, <1>4, <2>2, <2>5, <3>1, <3>2
  <2>8. sum' < n_lcores' /\ ~ sum' >= n_lcores'
    BY <1>1, <1>3, <2>1, <2>2, SamplesKept
  <2>9. CollectInv'
    BY <1>2, <2>6, <2>7, <2>8 DEF CollectInv
  <2> QED  BY <1>2, <1>5, <2>5, <2>9 DEF ReportInv, SortInv, DoneInv
<1>10. CASE ~ i < Stats!Published(sum)
  <2>1. Together' = Together /\ i' = 0 /\ sum' = sum + 1
    BY <1>10 DEF Stats!CollectSample, Together
  <2>2. CASE sum >= n_lcores
    <3>1. Reported
      BY <1>2, <2>2 DEF ReportInv, CollectInv
    <3>2. Reported'
      BY <1>1, <1>4, <1>6, <2>1, <3>1, SamplesKept DEF Reported
    <3>3. ~ sum' < n_lcores'
      BY <1>1, <1>3, <2>1, <2>2, SamplesKept
    <3> QED  BY <1>2, <1>3, <1>5, <2>1, <3>2, <3>3 DEF ReportInv, CollectInv, SortInv,
                                                       DoneInv
  <2>3. CASE sum < n_lcores
    <3>1. sum \in Stats!LcoreIds /\ sum \in 0 .. n_lcores
      BY <1>3, <2>3 DEF Stats!LcoreIds
    <3>2. Wanted[sum] <= i
      <4>1. latency_sample_num[sum] <= i
        BY <1>3, <1>10, <2>3, <3>1 DEF Stats!Published
      <4>2. Wanted[sum] <= latency_sample_num[sum]
        BY <1>2, <3>1 DEF ReportInv, SamplesInv, Stats!Collected
      <4> QED  BY <1>3, <3>1, <4>1, <4>2
    <3>3. SumTo(Wanted, sum + 1) <= Len(Together)
      <4>1. SumTo(Wanted, sum) + i <= Len(Together)
        BY <1>2, <2>3 DEF ReportInv, CollectInv
      <4>2. /\ SumTo(Wanted, sum) \in Nat
            /\ SumTo(Wanted, sum + 1) = SumTo(Wanted, sum) + Wanted[sum]
        BY <1>3, <2>3, <3>1, SumToType
      <4>3. Wanted[sum] \in Nat
        BY <1>3, <3>1
      <4> QED  BY <1>3, <3>2, <4>1, <4>2, <4>3
    <3>4. ASSUME NEW x \in Latencies
          PROVE  Stats!Occurrences(Together, x) <= SumTo(Sampled(x), sum + 1)
      <4>1. Sampled(x) \in [Stats!LcoreIds -> Nat]
        BY SampledType DEF ReportInv
      <4>2. /\ SumTo(Sampled(x), sum) \in Nat
            /\ SumTo(Sampled(x), sum + 1) = SumTo(Sampled(x), sum) + Sampled(x)[sum]
        BY <1>3, <2>3, <3>1, <4>1, SumToType
      <4>3. Sampled(x)[sum] = Stats!Occurrences(latency_samples[sum], x)
        BY <3>1 DEF Sampled
      <4>4. latency_samples[sum] \in Seq(Latencies)
        BY <1>3, <3>1
      <4>5. /\ Seen(latency_samples[sum], i, x) \in Nat
            /\ Seen(latency_samples[sum], i, x) <= Stats!Occurrences(latency_samples[sum], x)
        BY <4>4, SeenFinite
      <4>6. Stats!Occurrences(latency_samples[sum], x) \in Nat
        BY <4>4, OccurrencesType
      <4>7. Stats!Occurrences(Together, x) <=
                SumTo(Sampled(x), sum) + Seen(latency_samples[sum], i, x)
        BY <1>2, <2>3 DEF ReportInv, CollectInv
      <4> QED  BY <1>7, <4>2, <4>3, <4>5, <4>6, <4>7
    <3>5. /\ SumTo(Wanted, sum)' = SumTo(Wanted, sum + 1)
          /\ \A x : SumTo(Sampled(x), sum)' = SumTo(Sampled(x), sum + 1)
      BY <1>1, <1>4, <2>1, SamplesKept
    <3>6. /\ SumTo(Wanted, sum)' <= Len(Together')
          /\ \A x \in Latencies :
               Stats!Occurrences(Together, x)' <= SumTo(Sampled(x), sum)'
      BY <1>6, <2>1, <3>3, <3>4, <3>5
    <3>7. CASE sum + 1 < n_lcores
      <4>1. sum' < n_lcores' /\ ~ sum' >= n_lcores' /\ sum' \in Stats!LcoreIds
        BY <1>1, <1>3, <2>1, <3>7, SamplesKept DEF Stats!LcoreIds
      <4>2. ASSUME NEW x \in Latencies
            PROVE  Seen(latency_samples[sum], i, x)' = 0
        <5>1. latency_samples[sum'] \in Seq(Latencies)
          BY <1>3, <4>1
        <5>2. Seen(latency_samples[sum'], 0, x) = 0
          BY <5>1, SeenStep
        <5> QED  BY <1>8, <2>1, <5>2
      <4>3. SumTo(Wanted, sum)' + i' <= Len(Together')
        <5>1. sum + 1 \in 0 .. n_lcores
          BY <1>3, <3>7
        <5>2. SumTo(Wanted, sum + 1) \in Nat
          BY <1>3, <5>1, SumToType
        <5> QED  BY <2>1, <3>5, <3>6, <5>2
      <4>4. ASSUME NEW x \in Latencies
            PROVE  Stats!Occurrences(Together, x)' <=
                       SumTo(Sampled(x), sum)' + Seen(latency_samples[sum], i, x)'
        <5>1. Sampled(x) \in [Stats!LcoreIds -> Nat]
          BY SampledType DEF ReportInv
        <5>2. sum + 1 \in 0 .. n_lcores
          BY <1>3, <3>7
        <5>3. SumTo(Sampled(x), sum + 1) \in Nat
          BY <1>3, <5>1, <5>2, SumToType
        <5>4. Stats!Occurrences(Together, x)' <= SumTo(Sampled(x), sum)'
          BY <3>6
        <5>5. SumTo(Sampled(x), sum)' = SumTo(Sampled(x), sum + 1)
          BY <3>5
        <5> QED  BY <4>2, <5>3, <5>4, <5>5
      <4>5. CollectInv'
        BY <1>2, <4>1, <4>3, <4>4 DEF CollectInv
      <4> QED  BY <1>2, <1>3, <1>5, <2>1, <4>5 DEF ReportInv, SortInv, DoneInv
    <3>8. CASE sum + 1 >= n_lcores
      <4>1. sum' = n_lcores' /\ ~ sum' < n_lcores'
        BY <1>1, <1>3, <2>1, <2>3, <3>8, SamplesKept
      <4>2. /\ SumTo(Wanted, n_lcores)' = SumTo(Wanted, sum)'
            /\ \A x : SumTo(Sampled(x), n_lcores)' = SumTo(Sampled(x), sum)'
        BY <4>1 DEF SumTo, Stats!SumOver
      <4>3. Reported'
        BY <3>6, <4>2 DEF Reported
      <4>4. CollectInv'
        BY <1>2, <4>1, <4>3 DEF CollectInv
      <4> QED  BY <1>2, <1>3, <1>5, <2>1, <4>4 DEF ReportInv, SortInv, DoneInv
    <3> QED  BY <1>3, <3>7, <3>8
  <2> QED  BY <1>3, <2>2, <2>3
<1> QED  BY <1>9, <1>10

\* After the receive lcores nothing is left to collect: the others sampled nothing.
LEMMA CollectEnds ==
    ASSUME ReportInv, StatsInv', Stats!CollectEnd
    PROVE  ReportInv'
<1>1. Stats!Lcore0
  BY DEF Stats!Lcore0
<1>2. /\ task = "collect" /\ task' = "sort" /\ i' = 0 /\ stop_statis' = stop_statis
      /\ mark' = mark /\ Wanted' = Wanted /\ Together' = Together
      /\ sum >= n_rcv_cores /\ stop_statis = 0
  BY DEF Stats!CollectEnd, Stats!Pass, Stats!averages, Stats!results, Wanted, Together,
         ReportInv, CollectInv
<1>3. /\ n_lcores \in Nat /\ n_rcv_cores \in Nat /\ i \in Nat /\ sum \in Nat
      /\ Wanted \in [Stats!LcoreIds -> Nat]
      /\ latency_sample_num \in [Stats!LcoreIds -> Nat]
      /\ Together \in Seq(Nat) /\ Len(Together) \in Nat
  <2>1. StatsInv /\ SamplesInv
    BY DEF ReportInv
  <2>2. Together \in Seq(Nat)
    BY <2>1 DEF SamplesInv
  <2>3. latency_sample_num \in [Stats!LcoreIds -> Nat]
    BY <2>1 DEF StatsInv, TypeInv, Stats!TypeOK
  <2>4. Wanted \in [Stats!LcoreIds -> Nat]
    BY <2>1, StatsTypes DEF Wanted
  <2> QED  BY <2>1, <2>2, <2>3, <2>4, StatsTypes, LenProperties
<1>4. Reported
  <2>1. CASE sum >= n_lcores
    BY <1>2, <2>1 DEF ReportInv, CollectInv
  <2>2. CASE sum < n_lcores
    <3>1. \A lcore \in sum .. (n_lcores - 1) :
            /\ lcore \in Stats!LcoreIds
            /\ latency_sample_num[lcore] = 0 /\ latency_samples[lcore] = << >>
            /\ Wanted[lcore] = 0
      <4> SUFFICES ASSUME NEW lcore \in sum .. (n_lcores - 1)
                   PROVE  /\ lcore \in Stats!LcoreIds
                          /\ latency_sample_num[lcore] = 0 /\ latency_samples[lcore] = << >>
                          /\ Wanted[lcore] = 0
        OBVIOUS
      <4>1. lcore \in Stats!LcoreIds /\ ~ lcore < n_rcv_cores
        BY <1>2, <1>3 DEF Stats!LcoreIds
      <4>2. latency_sample_num[lcore] = 0 /\ latency_samples[lcore] = << >>
        BY <4>1 DEF ReportInv, SamplesInv
      <4>3. Wanted[lcore] <= latency_sample_num[lcore]
        BY <1>2, <4>1 DEF ReportInv, SamplesInv, Stats!Collected
      <4>4. Wanted[lcore] \in Nat
        BY <1>3, <4>1
      <4> QED  BY <4>1, <4>2, <4>3, <4>4
    <3>2. sum \in 0 .. n_lcores /\ sum \in sum .. (n_lcores - 1)
      BY <1>3, <2>2
    <3>3. SumTo(Wanted, n_lcores) <= Len(Together)
      <4>1. \A m \in 0 .. (n_lcores - 1) : Wanted[m] \in Nat
        BY <1>3 DEF Stats!LcoreIds
      <4>2. SumTo(Wanted, sum) = SumTo(Wanted, n_lcores)
        BY <1>3, <3>1, <3>2, <4>1, SumGrows DEF SumTo
      <4>3. SumTo(Wanted, sum) + i <= Len(Together)
        BY <1>2, <2>2 DEF ReportInv, CollectInv
      <4>4. SumTo(Wanted, sum) \in Nat
        BY <1>3, <3>2, SumToType
      <4> QED  BY <1>3, <4>2, <4>3, <4>4
    <3>4. ASSUME NEW x \in Latencies
          PROVE  Stats!Occurrences(Together, x) <= SumTo(Sampled(x), n_lcores)
      <4>1. Sampled(x) \in [Stats!LcoreIds -> Nat]
        BY SampledType DEF ReportInv
      <4>2. \A m \in 0 .. (n_lcores - 1) : Sampled(x)[m] \in Nat
        BY <4>1 DEF Stats!LcoreIds
      <4>3. SumTo(Sampled(x), sum) <= SumTo(Sampled(x), n_lcores)
        BY <1>3, <3>2, <4>2, SumGrows DEF SumTo
      <4>4. Stats!Occurrences(Together, x) <=
                SumTo(Sampled(x), sum) + Seen(latency_samples[sum], i, x)
        BY <1>2, <2>2 DEF ReportInv, CollectInv
      <4>5. Seen(latency_samples[sum], i, x) = 0
        <5>1. latency_samples[sum] = << >> /\ << >> \in Seq(Latencies)
          BY <3>1, <3>2
        <5>2. /\ Seen(<< >>, i, x) \in Nat
              /\ Seen(<< >>, i, x) <= Stats!Occurrences(<< >>, x)
          BY <5>1, SeenFinite
        <5> QED  BY <5>1, <5>2, NothingOccurs
      <4>6. /\ SumTo(Sampled(x), sum) \in Nat
        BY <1>3, <3>2, <4>1, SumToType
      <4>7. n_lcores \in 0 .. n_lcores
        BY <1>3
      <4>8. SumTo(Sampled(x), n_lcores) \in Nat
        BY <1>3, <4>1, <4>7, SumToType
      <4>9. Stats!Occurrences(Together, x) \in Nat
        BY <1>3, OccurrencesType
      <4> QED  BY <4>3, <4>4, <4>5, <4>6, <4>8, <4>9
    <3> QED  BY <3>3, <3>4 DEF Reported
  <2> QED  BY <1>3, <2>1, <2>2
<1>5. Reported'
  <2>1. SumTo(Wanted, n_lcores)' = SumTo(Wanted, n_lcores)
    BY <1>1, <1>2, SamplesKept DEF SumTo, Stats!SumOver
  <2>2. \A x : Stats!Occurrences(Together, x)' = Stats!Occurrences(Together, x)
    BY <1>2 DEF Stats!Occurrences
  <2> QED  BY <1>1, <1>2, <1>4, <2>1, <2>2, SamplesKept DEF Reported
<1>6. SamplesInv'
  BY <1>1, <1>2, SamplesKept DEF ReportInv, SamplesInv, Stats!Collected
<1>7. SortInv'
  <2>1. SortedTo(Together, i)'
    BY <1>2 DEF SortedTo
  <2> QED  BY <1>2, <1>3, <1>5, <2>1 DEF SortInv
<1> QED  BY <1>2, <1>6, <1>7 DEF ReportInv, CollectInv, DoneInv

\* Sorting keeps all entries, and puts the first i in order.
LEMMA SortStep ==
    ASSUME ReportInv, StatsInv', Stats!SortSample \/ Stats!WriteResults
    PROVE  ReportInv'
<1>1. Stats!Lcore0
  BY DEF Stats!Lcore0
<1>2. task = "sort" /\ mark' = mark /\ Wanted' = Wanted
  BY DEF Stats!SortSample, Stats!WriteResults, Wanted
<1>3. stop_statis = 0 /\ Reported /\ i <= Len(Together) /\ SortedTo(Together, i)
  BY <1>2 DEF ReportInv, SortInv
<1>4. Together \in Seq(Nat) /\ Len(Together) \in Nat /\ i \in Nat
  BY LenProperties, StatsTypes DEF ReportInv, SamplesInv
<1>5. SumTo(Wanted, n_lcores)' = SumTo(Wanted, n_lcores)
  BY <1>1, <1>2, SamplesKept DEF SumTo, Stats!SumOver
<1>6. \A x : Stats!Occurrences(Together, x)' = Stats!Occurrences(Together', x)
  BY DEF Stats!Occurrences
<1>7. CASE Stats!SortSample
  <2>1. /\ i < Len(Together) /\ Together' = Stats!Insert(Together, i + 1) /\ i' = i + 1
        /\ task' = task /\ stop_statis' = stop_statis
    BY <1>7 DEF Stats!SortSample, Stats!averages, Together
  <2>2. i + 1 \in 1 .. Len(Together) /\ (i + 1) - 1 = i
    BY <1>4, <2>1
  <2>3. /\ Together' \in Seq(Nat) /\ Len(Together') = Len(Together)
        /\ SortedTo(Together', i')
        /\ \A x : Stats!Occurrences(Together', x) = Stats!Occurrences(Together, x)
    BY <1>3, <1>4, <2>1, <2>2, InsertKeeps
  <2>4. Reported'
    BY <1>1, <1>3, <1>5, <1>6, <2>3, SamplesKept DEF Reported
  <2>5. SortInv'
    <3>1. SortedTo(Together, i)' = SortedTo(Together', i')
      BY DEF SortedTo
    <3>2. i' <= Len(Together')
      BY <1>4, <2>1, <2>3
    <3> QED  BY <1>2, <1>3, <2>1, <2>3, <2>4, <3>1, <3>2 DEF SortInv
  <2>6. SamplesInv'
    BY <1>1, <1>2, <2>1, <2>3, SamplesKept DEF ReportInv, SamplesInv, Stats!Collected
  <2> QED  BY <1>2, <1>3, <2>1, <2>5, <2>6 DEF ReportInv, CollectInv, DoneInv
<1>8. CASE Stats!WriteResults
  <2>1. i >= Len(Together) /\ Together' = Together /\ stop_statis' = 1 /\ task' = "loop"
    BY <1>8 DEF Stats!WriteResults, Stats!WrittenOnce, Stats!Pass, Together
  <2>2. i = Len(Together)
    BY <1>3, <1>4, <2>1
  <2>3. SortedTo(Together, Len(Together))'
    BY <1>3, <2>1, <2>2 DEF SortedTo
  <2>4. Reported'
    BY <1>1, <1>3, <1>5, <1>6, <2>1, SamplesKept DEF Reported
  <2>5. SamplesInv'
    BY <1>1, <1>2, <2>1, SamplesKept DEF ReportInv, SamplesInv, Stats!Collected
  <2> QED  BY <2>1, <2>3, <2>4, <2>5 DEF ReportInv, CollectInv, SortInv, DoneInv
<1> QED  BY <1>7, <1>8

\* All steps keep the report complete.
LEMMA ReportNext ==
    ASSUME ReportInv, Stats!Next
    PROVE  ReportInv'
<1>1. StatsInv'
  BY StatsNext DEF ReportInv
<1>2. CASE Others
  <2>1. SamplesInv'
    BY <1>2, OthersSample DEF ReportInv
  <2>2. (CollectInv /\ SortInv /\ DoneInv)'
    BY <1>2, ReportGrows
  <2> QED  BY <1>1, <2>1, <2>2 DEF ReportInv
<1>3. CASE ReportAside
  BY <1>1, <1>3, ReportAsideStep
<1>4. CASE Stats!EndEnd
  BY <1>1, <1>4, CollectBegins
<1>5. CASE Stats!CollectSample
  BY <1>1, <1>5, CollectStep
<1>6. CASE Stats!CollectEnd
  BY <1>1, <1>6, CollectEnds
<1>7. CASE Stats!SortSample \/ Stats!WriteResults
  BY <1>1, <1>7, SortStep
<1>8. Others \/ ReportAside \/ Stats!EndEnd \/ Stats!CollectSample \/ Stats!CollectEnd
      \/ Stats!SortSample \/ Stats!WriteResults
  BY DEF Stats!Next, Stats!Lcore0, Others, ReportAside
<1> QED  BY <1>2, <1>3, <1>4, <1>5, <1>6, <1>7, <1>8

LEMMA ReportInit == Stats!Init /\ Started => ReportInv
<1> SUFFICES ASSUME Stats!Init, Started  PROVE ReportInv
  OBVIOUS
<1>1. StatsInv
  BY StatsInit
<1>2. SamplesInv
  BY DEF Stats!Init, SamplesInv, Stats!Zero, Stats!Collected, Together
<1> QED  BY <1>1, <1>2 DEF Stats!Init, ReportInv, CollectInv, SortInv, DoneInv, Together

\* A report that is written has what it should have.
LEMMA ReportComplete == ReportInv => Stats!SamplesReported
<1> SUFFICES ASSUME ReportInv, stop_statis = 1  PROVE Stats!SamplesReported
  BY DEF Stats!SamplesReported
<1>1. Reported /\ SortedTo(Together, Len(Together))
  BY DEF ReportInv, DoneInv
<1>2. DOMAIN Together = 1 .. Len(Together)
  BY LenProperties DEF ReportInv, SamplesInv
<1>3. \A m, n \in DOMAIN Together : m < n => Together[m] <= Together[n]
  BY <1>1, <1>2 DEF SortedTo
<1>4. \A x \in Latencies :
         Stats!Occurrences(Together, x) <=
             Stats!SumOver([lcore \in Stats!LcoreIds |->
                               Stats!Occurrences(latency_samples[lcore], x)], 0, n_lcores)
  BY <1>1 DEF Reported, SumTo, Sampled
<1>5. Len(Together) >= Stats!SumOver(mark["collect_begins"], 0, n_lcores)
  <2>1. SumTo(Wanted, n_lcores) \in Nat
    <3>1. n_lcores \in Nat /\ n_lcores \in 0 .. n_lcores /\ Wanted \in [Stats!LcoreIds -> Nat]
      BY StatsTypes DEF ReportInv, Wanted
    <3> QED  BY <3>1, SumToType
  <2> QED  BY <1>1, <2>1 DEF Reported, SumTo, Wanted
<1> QED  BY <1>3, <1>4, <1>5 DEF Stats!SamplesReported, Together

LEMMA RatesInit == Stats!Init /\ Started => RatesInv
<1> SUFFICES ASSUME Stats!Init, Started  PROVE RatesInv
  OBVIOUS
<1>1. StatsInv
  BY StatsInit
<1>2. PassesInBounds /\ FirstSum /\ SecondSum /\ AfterFirstSum /\ AfterSecondSum
  BY DEF Stats!Init, PassesInBounds, FirstSum, SecondSum, AfterFirstSum, AfterSecondSum,
         Stats!Collected
<1>3. PrintInv
  <2>1. n_lcores \in 0 .. n_lcores
    BY DEF Started
  <2>2. AddedUp(tput_stat, n_lcores) \in Nat
    BY <1>1, <2>1, StatsTypes, SumFromType DEF AddedUp
  <2>3. tput_stat = Stats!Zero /\ print_begins = tput_stat
    BY DEF Stats!Init
  <2>4. AddedUp(tput_stat, n_lcores) = 0
    <3>1. n_lcores \in Nat /\ \A m \in 0 .. (n_lcores - 1) : tput_stat[m] \in Nat
      BY <1>1, StatsTypes DEF Stats!LcoreIds
    <3>2. 0 \in 0 .. n_lcores /\ \A m \in 0 .. (n_lcores - 1) : tput_stat[m] = 0
      BY <3>1, <2>3 DEF Stats!Zero, Stats!LcoreIds
    <3>3. n_rcv_cores \in Nat /\ 0 \in 0 .. n_rcv_cores
      BY <1>1, StatsTypes
    <3>4. Stats!SumOver(tput_stat, n_rcv_cores, 0) = 0
      BY <3>3, SumNone
    <3>5. Stats!SumOver(tput_stat, n_rcv_cores, 0) = Stats!SumOver(tput_stat, n_rcv_cores, n_lcores)
      BY <3>1, <3>2, <3>3, SumGrows
    <3> QED  BY <3>4, <3>5 DEF AddedUp
  <2>5. /\ print_begins \in [Stats!LcoreIds -> Nat]
        /\ \A lcore \in Stats!LcoreIds : print_begins[lcore] <= tput_stat[lcore]
    BY <2>3 DEF Stats!Zero
  <2>6. AddedUp(print_begins, n_lcores) = 0
    BY <2>3, <2>4
  <2> QED  BY <2>4, <2>5, <2>6 DEF Stats!Init, PrintInv
<1> QED  BY <1>1, <1>2, <1>3 DEF RatesInv, TotalsInv

\* What is printed next is not less than what was printed up to now.
LEMMA PrintedAddUp == RatesInv => Stats!PrintedRatesAddUp
<1> SUFFICES ASSUME RatesInv  PROVE Stats!PrintedRatesAddUp
  OBVIOUS
<1>1. PrintInv /\ n_lcores \in Nat /\ n_rcv_cores \in Nat /\ i \in Nat /\ sum \in Nat
  BY StatsTypes DEF RatesInv, TotalsInv
<1>2. /\ rx_pers <= AddedUp(tput_stat, n_lcores)
      /\ task # "print" => AddedUp(print_begins, n_lcores) <= rx_pers
  BY <1>1 DEF PrintInv
<1>3. ASSUME task = "print", i >= n_lcores  PROVE last_rx <= sum
  <2>1. last_rx <= AddedUp(print_begins, n_lcores)
    BY <1>1, <1>3 DEF PrintInv
  <2>2. CASE i = n_lcores
    <3>1. AddedUp(print_begins, n_lcores) <= sum
      BY <1>1, <1>3, <2>2 DEF PrintInv
    <3>2. AddedUp(print_begins, n_lcores) \in Nat /\ last_rx \in Nat
      <4>1. n_lcores \in 0 .. n_lcores /\ print_begins \in [Stats!LcoreIds -> Nat]
            /\ last_rx \in Nat
        BY <1>1 DEF PrintInv
      <4> QED  BY <1>1, <4>1, SumFromType DEF AddedUp
    <3> QED  BY <1>1, <2>1, <3>1, <3>2
  <2>3. CASE i > n_lcores
    <3>1. sum = 0 /\ n_lcores \in 0 .. n_rcv_cores
      BY <1>1, <1>3, <2>3 DEF PrintInv
    <3>2. AddedUp(print_begins, n_lcores) = 0
      BY <1>1, <3>1, SumNone DEF AddedUp
    <3> QED  BY <2>1, <3>1, <3>2
  <2> QED  BY <1>1, <1>3, <2>2, <2>3
<1> QED  BY <1>2, <1>3 DEF Stats!PrintedRatesAddUp, AddedUp

\* What is reported for a lcore lies in its window.
LEMMA CountedInWindow == StatsInv => Stats!CoreWindow
<1> SUFFICES ASSUME StatsInv, Stats!Collected, NEW lcore \in Stats!LcoreIds
             PROVE  LET rate == tput_stat_avg[lcore].now - tput_stat_avg[lcore].last
                    IN  /\ mark["end_begins"][lcore] - mark["start_ends"][lcore] <= rate
                        /\ rate <= mark["end_ends"][lcore] - mark["start_begins"][lcore]
  BY DEF Stats!CoreWindow
<1>1. /\ mark["start_begins"][lcore] <= tput_stat_avg[lcore].last
      /\ tput_stat_avg[lcore].last <= mark["start_ends"][lcore]
      /\ mark["end_begins"][lcore] <= tput_stat_avg[lcore].now
      /\ tput_stat_avg[lcore].now <= mark["end_ends"][lcore]
  BY DEF StatsInv, AfterFirst, AfterSecond
<1>2. /\ mark["start_begins"][lcore] \in Nat /\ mark["start_ends"][lcore] \in Nat
      /\ mark["end_begins"][lcore] \in Nat /\ mark["end_ends"][lcore] \in Nat
  <2>1. \A e \in Stats!Ends : mark[e][lcore] \in Nat
    BY StatsTypes
  <2> QED  BY <2>1 DEF Stats!Ends
<1>3. tput_stat_avg[lcore].last \in Nat /\ tput_stat_avg[lcore].now \in Nat
  BY DEF StatsInv, TypeInv, Stats!TypeOK
<1> QED  BY <1>1, <1>2, <1>3

-----------------------------------------------------------------------------
(* The files of the results.                                               *)

\* Whether an option is still to be parsed.
Pending(opt) == \E n \in 1 .. Len(argv) : argv[n].opt = opt

\* What a command of console.py makes of the options that name files.
ExperimentInv ==
    /\ pc \notin {"parse", "exited"} => argv = << >>
    /\ {"task_id", "benchmark", "memory_management"} \subseteq DOMAIN conf
    /\ host \in Measured =>
         /\ Pending("a") \/ \E o \in OptionsOf(host) : o.opt = "a" /\ conf.task_id = o.arg
         /\ \/ conf.benchmark \notin {"t", "v"}
            \/ \E o \in OptionsOf(host) : o.opt = "b" /\ conf.benchmark = o.arg
         /\ Pending("o") \/ conf.memory_management \in {"b", "w"}

\* A command of console.py has the options of an experiment.
LEMMA MeasuredOptions ==
    ASSUME NEW h \in Measured
    PROVE  /\ \E n \in DOMAIN h.argv : h.argv[n].opt = "a"
           /\ \E n \in DOMAIN h.argv : h.argv[n].opt = "o"
           /\ \A o \in OptionsOf(h) : o.opt = "a" => o.arg \in ConsoleTasks
           /\ \A o \in OptionsOf(h) : o.opt = "o" => o.arg \in {"b", "w"}
           /\ \A o, p \in OptionsOf(h) :
                o.opt = "a" /\ o.arg \in {"s", "x", "c"} /\ p.opt = "b"
                    => p.arg \notin {"t", "v"}
<1>1. \E n \in DOMAIN h.argv : h.argv[n].opt = "a"
  BY MeasuredAssumption
<1>2. \E n \in DOMAIN h.argv : h.argv[n].opt = "o"
  BY MeasuredAssumption
<1>3. \A n \in DOMAIN h.argv : h.argv[n].opt = "a" => h.argv[n].arg \in ConsoleTasks
  BY MeasuredAssumption
<1>4. \A n \in DOMAIN h.argv : h.argv[n].opt = "o" => h.argv[n].arg \in {"b", "w"}
  BY MeasuredAssumption
<1>5. \A n, m \in DOMAIN h.argv :
         h.argv[n].opt = "a" /\ h.argv[n].arg \in {"s", "x", "c"} /\ h.argv[m].opt = "b"
             => h.argv[m].arg \notin {"t", "v"}
  BY MeasuredAssumption
<1> QED  BY <1>1, <1>2, <1>3, <1>4, <1>5 DEF OptionsOf

\* The variables that name files are set by one option each.
LEMMA LettersSet ==
    ASSUME NEW o, Accepted(o)
    PROVE  /\ Field(o) = "task_id" <=> o.opt = "a"
           /\ Field(o) = "benchmark" <=> o.opt = "b"
           /\ Field(o) = "memory_management" <=> o.opt = "o"
           /\ o.opt \in {"a", "b"} => NewValue(o) = o.arg
           /\ o.opt = "o" /\ o.arg \in {"b", "w"} => NewValue(o) = o.arg
<1>1. Known(o)
  BY DEF Accepted
<1>2. /\ Field(o) = "task_id" <=> o.opt = "a"
      /\ Field(o) = "benchmark" <=> o.opt = "b"
      /\ Field(o) = "memory_management" <=> o.opt = "o"
  <2>1. CASE o.opt \in DOMAIN Positive
    <3>1. Field(o) = Positive[o.opt]
      BY <2>1 DEF Field, Positive, NonNegative, AnyNumber, Letter
    <3> QED  BY <2>1, <3>1 DEF Positive
  <2>2. CASE o.opt \in DOMAIN NonNegative
    <3>1. Field(o) = NonNegative[o.opt]
      BY <2>2 DEF Field, Positive, NonNegative, AnyNumber, Letter
    <3> QED  BY <2>2, <3>1 DEF NonNegative
  <2>3. CASE o.opt \in DOMAIN AnyNumber
    <3>1. Field(o) = AnyNumber[o.opt]
      BY <2>3 DEF Field, Positive, NonNegative, AnyNumber, Letter
    <3> QED  BY <2>3, <3>1 DEF AnyNumber
  <2>4. CASE o.opt \in DOMAIN Letter
    <3>1. Field(o) = Letter[o.opt]
      BY <2>4 DEF Field, Positive, NonNegative, AnyNumber, Letter
    <3> QED  BY <2>4, <3>1 DEF Letter
  <2>5. CASE o.opt = "t"
    BY <2>5 DEF Field, Positive, NonNegative, AnyNumber, Letter
  <2>6. CASE o.opt = "P"
    BY <2>6 DEF Field, Positive, NonNegative, AnyNumber, Letter
  <2> QED  BY <1>1, <2>1, <2>2, <2>3, <2>4, <2>5, <2>6 DEF Known
<1>3. o.opt = "a" => NewValue(o) = o.arg
  BY <1>2 DEF NewValue, Letters
<1>4. o.opt = "b" => NewValue(o) = o.arg
  BY <1>2 DEF NewValue, Letters, Accepted
<1>5. o.opt = "o" /\ o.arg \in {"b", "w"} => NewValue(o) = o.arg
  BY <1>2 DEF NewValue, Letters
<1> QED  BY <1>2, <1>3, <1>4, <1>5

LEMMA ExperimentInit == Init => ExperimentInv
<1> SUFFICES ASSUME Init  PROVE ExperimentInv
  OBVIOUS
<1>1. argv = host.argv /\ conf = Defaults /\ pc = "parse" /\ host \in Hosts
  BY DEF Init
<1>2. DOMAIN argv = 1 .. Len(argv)
  <2>1. argv \in Seq(OptionsOf(host))
    BY <1>1, OptionsOfHost
  <2> QED  BY <2>1, LenProperties
<1>3. host \in Measured => Pending("a") /\ Pending("o")
  BY <1>1, <1>2, MeasuredOptions DEF Pending
<1>4. /\ {"task_id", "benchmark", "memory_management"} \subseteq DOMAIN Defaults
      /\ Defaults.benchmark = "s"
  BY DEF Defaults
<1> QED  BY <1>1, <1>3, <1>4 DEF ExperimentInv

\* Parsing ends with the options of the experiment.
LEMMA ExperimentNext ==
    ASSUME ConfInv, ExperimentInv, Next
    PROVE  ExperimentInv'
<1>1. CASE ParseOption
  <2> DEFINE o == Head(argv)
  <2>1. /\ argv # << >> /\ argv \in Seq(OptionsOf(host)) /\ host' = host /\ pc = "parse"
    BY <1>1 DEF ConfInv, ParseOption
  <2>2. \/ Accepted(o) /\ conf' = [conf EXCEPT ![Field(o)] = NewValue(o)]
           /\ argv' = Tail(argv) /\ pc' = pc
        \/ conf' = conf /\ argv' = argv /\ pc' = "exited"
    BY <1>1 DEF ParseOption
  <2>3. CASE conf' = conf /\ argv' = argv /\ pc' = "exited"
    BY <2>1, <2>3 DEF ExperimentInv, Pending
  <2>4. CASE Accepted(o) /\ conf' = [conf EXCEPT ![Field(o)] = NewValue(o)]
             /\ argv' = Tail(argv) /\ pc' = pc
    <3>1. o \in OptionsOf(host)
      BY <2>1
    <3>2. \A opt : Pending(opt) /\ o.opt # opt => Pending(opt)'
      <4> SUFFICES ASSUME NEW opt, o.opt # opt, NEW n \in 1 .. Len(argv),
                          argv[n].opt = opt
                   PROVE  \E m \in 1 .. Len(Tail(argv)) : Tail(argv)[m].opt = opt
        BY <2>4 DEF Pending
      <4>1. n # 1
        BY <2>1
      <4>2. Len(argv) \in Nat /\ Len(Tail(argv)) = Len(argv) - 1
        BY <2>1, LenProperties
      <4>3. n - 1 \in 1 .. Len(Tail(argv)) /\ (n - 1) + 1 = n
        BY <4>1, <4>2
      <4>4. Tail(argv)[n - 1] = argv[n]
        BY <2>1, <4>2, <4>3
      <4> QED  BY <4>3, <4>4
    <3>3. /\ Field(o) = "task_id" <=> o.opt = "a"
          /\ Field(o) = "benchmark" <=> o.opt = "b"
          /\ Field(o) = "memory_management" <=> o.opt = "o"
          /\ o.opt \in {"a", "b"} => NewValue(o) = o.arg
          /\ o.opt = "o" /\ o.arg \in {"b", "w"} => NewValue(o) = o.arg
      BY <2>4, LettersSet
    <3> DEFINE f == Field(o)
               v == NewValue(o)
    <3>4. conf' = [conf EXCEPT ![f] = v] /\ argv' = Tail(argv) /\ pc' = pc
      BY <2>4
    <3> HIDE DEF f, v, o
    <3>5. /\ DOMAIN conf' = DOMAIN conf
          /\ \A g \in DOMAIN conf : conf'[g] = IF g = f THEN v ELSE conf[g]
      BY <3>4
    <3>6. {"task_id", "benchmark", "memory_management"} \subseteq DOMAIN conf
      BY DEF ExperimentInv
    <3>7. /\ conf'["task_id"] = IF f = "task_id" THEN v ELSE conf["task_id"]
          /\ conf'["benchmark"] = IF f = "benchmark" THEN v ELSE conf["benchmark"]
          /\ conf'["memory_management"] =
                 IF f = "memory_management" THEN v ELSE conf["memory_management"]
      BY <3>5, <3>6
    <3>8. OptionsOf(host') = OptionsOf(host)
      BY <2>1
    <3>9. ASSUME host \in Measured
          PROVE  \/ Pending("a")'
                 \/ \E p \in OptionsOf(host) : p.opt = "a" /\ conf'["task_id"] = p.arg
      <4>1. CASE o.opt = "a"
        BY <3>1, <3>3, <3>7, <4>1 DEF f, v
      <4>2. CASE o.opt # "a"
        <5>1. conf'["task_id"] = conf["task_id"]
          BY <3>3, <3>7, <4>2 DEF f
        <5> QED  BY <3>2, <3>9, <4>2, <5>1 DEF ExperimentInv
      <4> QED  BY <4>1, <4>2
    <3>10. ASSUME host \in Measured
           PROVE  \/ conf'["benchmark"] \notin {"t", "v"}
                  \/ \E p \in OptionsOf(host) : p.opt = "b" /\ conf'["benchmark"] = p.arg
      <4>1. CASE o.opt = "b"
        BY <3>1, <3>3, <3>7, <4>1 DEF f, v
      <4>2. CASE o.opt # "b"
        <5>1. conf'["benchmark"] = conf["benchmark"]
          BY <3>3, <3>7, <4>2 DEF f
        <5> QED  BY <3>10, <5>1 DEF ExperimentInv
      <4> QED  BY <4>1, <4>2
    <3>11. ASSUME host \in Measured
           PROVE  Pending("o")' \/ conf'["memory_management"] \in {"b", "w"}
      <4>1. CASE o.opt = "o"
        <5>1. o.arg \in {"b", "w"}
          BY <3>1, <3>11, <4>1, MeasuredOptions
        <5> QED  BY <3>3, <3>7, <4>1, <5>1 DEF f, v
      <4>2. CASE o.opt # "o"
        <5>1. conf'["memory_management"] = conf["memory_management"]
          BY <3>3, <3>7, <4>2 DEF f
        <5> QED  BY <3>2, <3>11, <4>2, <5>1 DEF ExperimentInv
      <4> QED  BY <4>1, <4>2
    <3> QED  BY <2>1, <3>4, <3>5, <3>6, <3>9, <3>10, <3>11 DEF ExperimentInv, OptionsOf
  <2> QED  BY <2>2, <2>3, <2>4
<1>2. ASSUME UNCHANGED << host, conf, argv >>,
             pc' \in {"parse", "exited"} \/ argv = << >>
      PROVE  ExperimentInv'
  BY <1>2 DEF ExperimentInv, Pending, OptionsOf
<1>3. CASE ParseEnd
  BY <1>2, <1>3 DEF ParseEnd
<1>4. CASE ~ (ParseOption \/ ParseEnd)
  <2>1. UNCHANGED << host, conf, argv >> /\ pc \notin {"parse", "exited"}
    BY <1>4 DEF Next, CreatePool, EnablePort, PortsDone, CheckQueues, AssignLcore,
                ConfigurePorts, CheckLinks, InitZipf, InitAddress, InitFailureAct,
                InitBatchMap, AssignClients, LaunchClient, get_queue_len_in_switch, parsed
  <2> QED  BY <1>2, <2>1 DEF ExperimentInv
<1> QED  BY <1>1, <1>3, <1>4

\* Files have the names that were opened, or there are none.
FilesInv == files \in {{}, Stats!Opened}

\* The files are opened once, under the names that the options select.
LEMMA FilesNext ==
    ASSUME FilesInv, Stats!Next
    PROVE  FilesInv'
<1>1. conf' = conf
  BY DEF Stats!Next, Stats!Lcore0, Stats!Count, Stats!ReceiveGrant, Stats!FinishSample,
         Stats!Tick, Stats!PrintBegin, Stats!PrintLcore, Stats!StartBegin,
         Stats!StartLcore, Stats!AddToTotal, Stats!StartEnd, Stats!EndBegin,
         Stats!EndLcore, Stats!EndEnd, Stats!CollectSample, Stats!CollectEnd,
         Stats!SortSample, Stats!WriteResults, Stats!Exit, Stats!given
<1>2. files' = files \/ files' = Stats!Opened
  BY DEF Stats!Next, Stats!Lcore0, Stats!Count, Stats!ReceiveGrant, Stats!FinishSample,
         Stats!Tick, Stats!PrintBegin, Stats!PrintLcore, Stats!StartBegin,
         Stats!StartLcore, Stats!AddToTotal, Stats!StartEnd, Stats!EndBegin,
         Stats!EndLcore, Stats!EndEnd, Stats!CollectSample, Stats!CollectEnd,
         Stats!SortSample, Stats!WriteResults, Stats!WrittenOnce, Stats!Exit,
         Stats!results
<1>3. Stats!Opened' = Stats!Opened
  BY <1>1 DEF Stats!Opened, Stats!IsTpcc, Stats!AllNames
<1> QED  BY <1>2, <1>3 DEF FilesInv

\* In an experiment of console.py these names were printed.
LEMMA NamesPrinted ==
    ASSUME FilesInv, ExperimentInv, host \in Measured, argv = << >>
    PROVE  Stats!FilesNamed
<1> SUFFICES ASSUME conf.task_id \notin {"r", "S"}  PROVE Stats!Opened \subseteq Stats!Named
  BY DEF FilesInv, Stats!FilesNamed
<1>1. ~ Pending("a") /\ ~ Pending("o")
  <2>1. Len(argv) = 0
    OBVIOUS
  <2> QED  BY <2>1 DEF Pending
<1>2. PICK o \in OptionsOf(host) : o.opt = "a" /\ conf.task_id = o.arg
  BY <1>1 DEF ExperimentInv
<1>3. conf.task_id \in ConsoleTasks \ {"r", "S"}
  BY <1>2, MeasuredOptions
<1>4. CASE conf.task_id \in {"s", "x", "c"}
  <2>1. conf.benchmark \notin {"t", "v"}
    BY <1>2, <1>4, MeasuredOptions DEF ExperimentInv
  <2>2. Stats!Named = Stats!AllNames \ {"filename_txn_lt"}
    BY <1>4, Zenon DEF Stats!Named
  <2>3. Stats!Opened = Stats!AllNames \ {"filename_txn_lt"}
    BY <1>4, <2>1 DEF Stats!Opened, Stats!IsTpcc
  <2> QED  BY <2>2, <2>3
<1>5. CASE conf.task_id = "m"
  <2>1. conf.memory_management \in {"b", "w"}
    BY <1>1 DEF ExperimentInv
  <2> DEFINE M == IF conf.memory_management \in {"b", "w"} THEN {}
                  ELSE {"dirname_2", "dirname_3"}
  <2>2. Stats!Named = Stats!AllNames \ M
    <3>1. conf.task_id \notin {"s", "x", "c"}
      BY <1>5
    <3> QED  BY <1>5, <3>1 DEF Stats!Named
  <2>3. Stats!Named = Stats!AllNames
    BY <2>1, <2>2
  <2> QED  BY <2>3 DEF Stats!Opened
<1>6. CASE conf.task_id \in {"t", "p", "q", "g", "f", "e"}
  <2>1. Stats!Named = Stats!AllNames
    <3>1. conf.task_id \notin {"s", "x", "c"} /\ conf.task_id # "m" /\ conf.task_id # "S"
          /\ conf.task_id \in {"t", "p", "q", "g", "f", "e", "2", "3"}
      BY <1>6
    <3> QED  BY <3>1 DEF Stats!Named
  <2> QED  BY <2>1 DEF Stats!Opened
<1> QED  BY <1>3, <1>4, <1>5, <1>6 DEF ConsoleTasks

\* The median and the tails of three samples or more are entries of the report.
THEOREM TailsExist ==
    \A len \in Nat :
        len >= 3 => /\ 0 <= Stats!MedianIndex(len)
                    /\ Stats!MedianIndex(len) <= Stats!TailIndex(len, 990)
                    /\ Stats!TailIndex(len, 990) <= Stats!TailIndex(len, 999)
                    /\ Stats!TailIndex(len, 999) < len
BY DEF Stats!MedianIndex, Stats!TailIndex

LEMMA TailsInside == ReportInv => Stats!TailsOrdered
<1> SUFFICES ASSUME ReportInv  PROVE Stats!TailsOrdered
  OBVIOUS
<1>1. Len(latency_samples_together) \in Nat
  BY LenProperties DEF ReportInv, SamplesInv, Together
<1> QED  BY <1>1, TailsExist DEF Stats!TailsOrdered

-----------------------------------------------------------------------------
(* The host.                                                               *)

MeasuresInv == RatesInv /\ ReportInv /\ FilesInv

\* Until the host runs nothing is measured.
HostInv ==
    /\ ConfInv /\ ExperimentInv
    /\ pc # "running" => Stats!Init
    /\ Stats!Init \/ (MeasuresInv /\ host \in Measured)

LEMMA NumbersGiven == ConfInv => Started
<1> SUFFICES ASSUME ConfInv  PROVE Started
  OBVIOUS
<1>1. n_lcores \in Nat
  <2>1. host.lcores \in 1 .. 32
    BY HostAssumption DEF ConfInv
  <2> QED  BY <2>1 DEF n_lcores
<1>2. n_rcv_cores \in Nat
  BY DEF ConfInv, n_rcv_cores
<1>3. ExitInterval \in Nat
  BY StatisticsBounds
<1> QED  BY <1>1, <1>2, <1>3 DEF Started

LEMMA MeasuresInit == ConfInv /\ Stats!Init => MeasuresInv
BY NumbersGiven, RatesInit, ReportInit DEF MeasuresInv, FilesInv, Stats!Init

LEMMA MeasuresNext ==
    ASSUME MeasuresInv, Stats!Next
    PROVE  MeasuresInv'
BY RatesNext, ReportNext, FilesNext DEF MeasuresInv

LEMMA StartMeasuresNothing ==
    ASSUME Start, ConfInv, Stats!Init
    PROVE  Stats!Init'
<1>1. UNCHANGED << host, statsVars >>
  BY DEF Start, Next, ParseOption, ParseEnd, CreatePool, EnablePort, PortsDone,
         CheckQueues, AssignLcore, ConfigurePorts, CheckLinks, InitZipf, InitAddress,
         InitFailureAct, InitBatchMap, AssignClients, LaunchClient,
         get_queue_len_in_switch
<1>2. Stats!LcoreIds' = Stats!LcoreIds
  BY <1>1 DEF Stats!LcoreIds, n_lcores
<1> QED  BY <1>1, <1>2 DEF statsVars, Stats!Init, Stats!Zero, Stats!Ends

LEMMA ConfNext ==
    ASSUME ConfInv, Next
    PROVE  ConfInv'
<1>1. CASE ParseOption
  BY <1>1, ParseOptionConf
<1>2. CASE ~ ParseOption
  <2>1. UNCHANGED << host, argv, conf >>
    BY <1>2 DEF Next, ParseEnd, CreatePool, EnablePort, PortsDone, CheckQueues,
                AssignLcore, ConfigurePorts, CheckLinks, InitZipf, InitAddress,
                InitFailureAct, InitBatchMap, AssignClients, LaunchClient,
                get_queue_len_in_switch, parsed
  <2> QED  BY <2>1 DEF ConfInv, OptionsOf
<1> QED  BY <1>1, <1>2

\* The invariant of a host is about its variables.
LEMMA HostStutters ==
    ASSUME HostInv, UNCHANGED hostVars
    PROVE  HostInv'
<1>1. UNCHANGED << host, pc, argv, conf, tput_stat, latency_num, latency_samples,
                   latency_sample_num, clock, next_update, task, i, sum, tput_stat_avg,
                   tput_stat_total, latency_sample_start, stop_statis, last_rx, rx_pers,
                   print_begins, latency_samples_together, files, mark >>
      /\ latency_sample_interval' = latency_sample_interval
  BY DEF hostVars, vars, statsVars
<1>2. UNCHANGED << n_lcores, n_rcv_cores, sampling, Stats!LcoreIds, Together, Wanted,
                   Stats!Collected, Stats!Zero >>
  BY <1>1 DEF n_lcores, n_rcv_cores, sampling, Stats!LcoreIds, Together, Wanted,
              Stats!Collected, Stats!Zero
<1>3. ConfInv' /\ ExperimentInv'
  BY <1>1 DEF HostInv, ConfInv, ExperimentInv, OptionsOf, Pending
<1>4. Stats!Init => Stats!Init'
  BY <1>1, <1>2 DEF Stats!Init, Stats!Ends
<1>5. StatsInv => StatsInv'
  BY <1>1, <1>2 DEF StatsInv, TypeInv, Started, Stats!TypeOK, Stats!Ends, FirstPass,
                    AfterFirst, SecondPass, AfterSecond, Read
<1>6. TotalsInv => TotalsInv'
  BY <1>1, <1>2, <1>5 DEF TotalsInv, PassesInBounds, FirstSum, SecondSum, AfterFirstSum,
                          AfterSecondSum, SumTo, Stats!SumOver
<1>7. PrintInv => PrintInv'
  BY <1>1, <1>2 DEF PrintInv, AddedUp, Stats!SumOver
<1>8. SamplesInv => SamplesInv'
  BY <1>1, <1>2 DEF SamplesInv
<1>9. /\ Reported => Reported'
      /\ SortedTo(Together, Len(Together))' = SortedTo(Together, Len(Together))
      /\ SortedTo(Together, i)' = SortedTo(Together, i)
  <2>1. \A x : Sampled(x)' = Sampled(x)
    BY <1>1, <1>2 DEF Sampled, Stats!Occurrences
  <2>2. /\ SumTo(Wanted, n_lcores)' = SumTo(Wanted, n_lcores)
        /\ \A x : SumTo(Sampled(x), n_lcores)' = SumTo(Sampled(x), n_lcores)
    BY <1>2, <2>1 DEF SumTo, Stats!SumOver
  <2>3. \A x : Stats!Occurrences(Together, x)' = Stats!Occurrences(Together, x)
    BY <1>2 DEF Stats!Occurrences
  <2>4. Reported => Reported'
    BY <1>2, <2>2, <2>3 DEF Reported
  <2>5. /\ SortedTo(Together, Len(Together))' = SortedTo(Together, Len(Together))
        /\ SortedTo(Together, i)' = SortedTo(Together, i)
    BY <1>1, <1>2 DEF SortedTo
  <2> QED  BY <2>4, <2>5
<1>10. CollectInv => CollectInv'
  <2>1. \A x : Sampled(x)' = Sampled(x)
    BY <1>1, <1>2 DEF Sampled, Stats!Occurrences
  <2>2. /\ SumTo(Wanted, sum)' = SumTo(Wanted, sum)
        /\ \A x : SumTo(Sampled(x), sum)' = SumTo(Sampled(x), sum)
    BY <1>1, <1>2, <2>1 DEF SumTo, Stats!SumOver
  <2>3. \A x : /\ Stats!Occurrences(Together, x)' = Stats!Occurrences(Together, x)
               /\ Seen(latency_samples[sum], i, x)' = Seen(latency_samples[sum], i, x)
    BY <1>1, <1>2 DEF Stats!Occurrences, Seen, SeenAt
  <2> QED  BY <1>1, <1>2, <1>9, <2>2, <2>3 DEF CollectInv
<1>11. SortInv /\ DoneInv => SortInv' /\ DoneInv'
  BY <1>1, <1>2, <1>9 DEF SortInv, DoneInv
<1>12. FilesInv => FilesInv'
  BY <1>1 DEF FilesInv, Stats!Opened, Stats!IsTpcc, Stats!AllNames
<1> QED  BY <1>1, <1>3, <1>4, <1>5, <1>6, <1>7, <1>8, <1>10, <1>11, <1>12
         DEF HostInv, MeasuresInv, RatesInv, ReportInv

LEMMA HostInvInit == HostInit => HostInv
BY ConfInit, ExperimentInit DEF HostInit, HostInv

LEMMA HostInvNext == HostInv /\ [HostNext]_hostVars => HostInv'
<1> SUFFICES ASSUME HostInv, [HostNext]_hostVars  PROVE HostInv'
  OBVIOUS
<1>1. CASE Start
  <2>1. Next /\ UNCHANGED statsVars
    BY <1>1 DEF Start
  <2>2. pc # "running"
    BY <2>1 DEF Next, ParseOption, ParseEnd, CreatePool, EnablePort, PortsDone,
                CheckQueues, AssignLcore, ConfigurePorts, CheckLinks, InitZipf,
                InitAddress, InitFailureAct, InitBatchMap, AssignClients, LaunchClient,
                get_queue_len_in_switch
  <2>3. Stats!Init'
    BY <1>1, <2>2, StartMeasuresNothing DEF HostInv
  <2> QED  BY <2>1, <2>3, ConfNext, ExperimentNext DEF HostInv
<1>2. CASE Measure
  <2>1. pc = "running" /\ host \in Measured /\ UNCHANGED vars /\ Stats!Next
    BY <1>2 DEF Measure, MayMeasure
  <2>2. MeasuresInv'
    BY <2>1, MeasuresInit, MeasuresNext DEF HostInv
  <2>3. UNCHANGED << host, pc, argv, conf >>
    BY <2>1 DEF vars
  <2>4. ConfInv' /\ ExperimentInv'
    BY <2>3 DEF HostInv, ConfInv, ExperimentInv, OptionsOf, Pending
  <2> QED  BY <2>1, <2>2, <2>3, <2>4 DEF HostInv
<1>3. CASE UNCHANGED hostVars
  BY <1>3, HostStutters
<1> QED  BY <1>1, <1>2, <1>3 DEF HostNext

\* The host, over all runs.
LEMMA HostInvariance == HostSpec => []HostInv
BY HostInvInit, HostInvNext, PTL DEF HostSpec

\* A host that goes on to measure has started up as a host does: what is proved of
\* the start-up holds of it.
THEOREM HostStartsUp == HostSpec => Spec
<1>1. HostInit => Init
  BY DEF HostInit
<1>2. [HostNext]_hostVars => [Next]_vars
  BY DEF HostNext, Start, Measure, MayMeasure, hostVars
<1> QED  BY <1>1, <1>2, PTL DEF HostSpec, Spec

\* The variables of the statistics keep their types.
THEOREM TypeCorrectness == HostSpec => []Stats!TypeOK
<1>1. HostInv => Stats!TypeOK
  <2>1. HostInv => StatsInv
    BY NumbersGiven, StatsInit DEF HostInv, MeasuresInv, ReportInv
  <2> QED  BY <2>1 DEF StatsInv, TypeInv
<1> QED  BY <1>1, HostInvariance, PTL

\* What a host reports was counted in the time it is reported for, whatever the
\* number of its lcores and however they and lcore 0 take turns.
THEOREM RatesOfTheirWindow == HostSpec => []RatesInWindow
<1>1. HostInv => RatesInWindow
  <2>1. HostInv => RatesInv
    BY NumbersGiven, RatesInit DEF HostInv, MeasuresInv
  <2> QED  BY <2>1, CountedInWindow, TotalsInWindow, PrintedAddUp
           DEF RatesInWindow, RatesInv, TotalsInv
<1> QED  BY <1>1, HostInvariance, PTL

\* The report of the latencies is complete, in order, without doubles, and goes to
\* files with names.
THEOREM ReportIsSound == HostSpec => []ReportSound
<1>1. HostInv => ReportSound
  <2> SUFFICES ASSUME HostInv  PROVE ReportSound
    OBVIOUS
  <2>1. ReportInv
    BY NumbersGiven, ReportInit DEF HostInv, MeasuresInv
  <2>2. Stats!FilesNamed
    <3>1. CASE Stats!Init
      BY <3>1 DEF Stats!Init, Stats!FilesNamed
    <3>2. CASE ~ Stats!Init
      BY <3>2, NamesPrinted DEF HostInv, MeasuresInv, ExperimentInv
    <3> QED  BY <3>1, <3>2
  <2> QED  BY <2>1, <2>2, ReportComplete, TailsInside DEF ReportSound
<1> QED  BY <1>1, HostInvariance, PTL
=============================================================================
