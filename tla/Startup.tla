------------------------------- MODULE Startup -------------------------------
(***************************************************************************)
(* How a host gets from its command line to its loops: nc_parse_args and   *)
(* main of client.c and server.c, nc_init of util.h.  The lcores share out *)
(* the RX and TX queues of the ports and the emulated clients here, once,  *)
(* and never check again what they were given.                             *)
(*                                                                         *)
(* The lcores given to the EAL are 0 .. n-1, as every command line of      *)
(* console.py has it: main and nc_init take an index for an lcore id.      *)
(***************************************************************************)
EXTENDS Integers, Sequences, FiniteSets

CONSTANTS
    Hosts,            \* what may be started, see HostAssumption
    Layouts,          \* the layout files: of a name, a sequence of [lock, len]
    Locks,            \* the locks looked at, of 0 .. MAX_LOCK_NUM - 1
    Uninitialised,    \* values an uninitialised int may have
    MaxClients,       \* MAX_CLIENT_NUM
    Addresses,        \* number of entries of ip_list
    MaxPorts,         \* RTE_MAX_ETHPORTS
    RxQueuesPerLcore, \* NC_RX_QUEUE_PER_LCORE
    LinkPolls,        \* check_iterations
    Word              \* 2^32, smaller in an instance

\* A host: its program, the options as getopt returns them, the number of
\* lcores of the EAL and of the Ethernet ports it finds.
ASSUME HostAssumption ==
    \A h \in Hosts : /\ h.program \in {"client", "server"}
                     /\ h.lcores \in 1 .. 32
                     /\ h.ports \in Nat

ASSUME SizesAssumption ==
    /\ MaxClients \in 1 .. 255 /\ RxQueuesPerLcore \in Nat \ {0}
    /\ Addresses \in Nat \ {0}
    /\ LinkPolls \in Nat \ {0} /\ MaxPorts \in Nat \ {0} /\ Word \in Nat \ {0}

\* A layout is a list of rows, two numbers each, and names a lock once: the table of
\* the switch takes a key once.
ASSUME LayoutAssumption ==
    \A file \in DOMAIN Layouts :
        /\ Len(Layouts[file]) \in Nat /\ DOMAIN Layouts[file] = 1 .. Len(Layouts[file])
        /\ \A n \in DOMAIN Layouts[file] : Layouts[file][n].len \in Int
        /\ \A m, n \in DOMAIN Layouts[file] :
              Layouts[file][m].lock = Layouts[file][n].lock => m = n

VARIABLES
    host,
    pc,             \* where main is, see Final for how it ends
    argv,           \* the options not yet parsed
    conf,           \* the global variables nc_parse_args sets
    latency_sample_interval,
    enabled_ports,
    loop,           \* the variables of the loops of nc_init over ports and lcores
    lcore_conf,     \* port, TX queue and RX queues of the lcores done
    polls,          \* iterations of check_link_status
    clients,        \* client_index_s .. client_index_e of the TX lcores done
    traces,         \* of each client, the trace its lcore was told to read
    batch_map,      \* what get_batch_map made of the map of batches
    ip_src,         \* the entry of ip_list it was copied from, 0: what lies beside
    len_in_switch

vars == << host, pc, argv, conf, latency_sample_interval, enabled_ports, loop,
           lcore_conf, polls, clients, traces, batch_map, ip_src, len_in_switch >>

parsed == << argv, conf, latency_sample_interval >>
queues == << enabled_ports, loop, lcore_conf >>
tables == << clients, traces, batch_map, ip_src, len_in_switch >>

n_lcores    == host.lcores
n_rcv_cores == conf.n_rcv_cores
n_ports     == Len(enabled_ports)

\* "undefined": an array was written outside its bounds.
Final == {"running", "exited", "crashed", "undefined"}

Defaults ==
    [num_of_cores |-> 8, batch_size |-> 1, timeout_slot |-> 400,
     server_node_num |-> 1, client_node_num |-> 8, think_time |-> 0,
     slot_num |-> 130000, lock_num |-> 1, client_num |-> 1, warehouse |-> 1,
     wpkts_send_limit_ms |-> 10000, average_interval |-> 64,
     enabled_port_mask |-> 1, contention_degree |-> 2, machine_id |-> 0,
     n_rcv_cores |-> 0, zipf_alpha |-> 90, task_id |-> "s",
     memory_management |-> "", data_transfer_mode |-> "a", benchmark |-> "s",
     role |-> "client", dir_prefix |-> ""]

NoTrace == << "no name" >>

Init ==
    /\ host \in Hosts
    /\ pc = "parse" /\ argv = host.argv /\ conf = Defaults
    /\ latency_sample_interval = 1000
    /\ enabled_ports = << >> /\ lcore_conf = << >> /\ clients = << >>
    /\ loop = [i |-> 0, port |-> 0, rx |-> 0, tx |-> 0]
    /\ polls = 0
    /\ traces = [c \in 0 .. (MaxClients - 1) |-> NoTrace]
    /\ batch_map = "none" /\ ip_src = 3
    /\ len_in_switch = [l \in Locks |-> 0]

-----------------------------------------------------------------------------
(* nc_parse_args.                                                          *)

\* Options whose argument must be positive, or at least not negative.
Positive ==
    [N |-> "num_of_cores", g |-> "batch_size", k |-> "lock_num",
     e |-> "client_num", w |-> "warehouse", p |-> "enabled_port_mask",
     c |-> "contention_degree", n |-> "machine_id", r |-> "n_rcv_cores"]
NonNegative ==
    [O |-> "timeout_slot", S |-> "server_node_num", C |-> "client_node_num",
     T |-> "think_time", l |-> "slot_num"]
\* Options whose argument is taken as it is, and those that are a letter.
AnyNumber ==
    [s |-> "wpkts_send_limit_ms", i |-> "average_interval", z |-> "zipf_alpha"]
Letter ==
    [a |-> "task_id", o |-> "memory_management", m |-> "data_transfer_mode",
     b |-> "benchmark"]

\* getopt hands out the options one after the other; atoi makes a number of the
\* argument of all but the letters.
ASSUME OptionsAssumption ==
    \A h \in Hosts :
        /\ Len(h.argv) \in Nat
        /\ h.argv = [n \in 1 .. Len(h.argv) |-> h.argv[n]]
        /\ \A n \in 1 .. Len(h.argv) :
              h.argv[n].opt \in DOMAIN Positive \cup DOMAIN NonNegative \cup DOMAIN AnyNumber
                  => h.argv[n].arg \in Int

Letters ==
    [memory_management |-> {"b", "w", "1", "2"}, data_transfer_mode |-> {"s", "a"},
     benchmark |-> {"s", "x", "n", "z", "u", "t", "v"}]

\* The variable an option sets, its new value, and whether it is accepted. A
\* letter nobody knows is ignored, but for -b.
Field(o) ==
    CASE o.opt \in DOMAIN Positive    -> Positive[o.opt]
      [] o.opt \in DOMAIN NonNegative -> NonNegative[o.opt]
      [] o.opt \in DOMAIN AnyNumber   -> AnyNumber[o.opt]
      [] o.opt \in DOMAIN Letter      -> Letter[o.opt]
      [] o.opt = "t"                  -> "role"
      [] o.opt = "P"                  -> "dir_prefix"

Known(o) ==
    \/ o.opt = "t"
    \/ o.opt = "P" /\ host.program = "server"
    \/ o.opt \in DOMAIN Positive \cup DOMAIN NonNegative
                    \cup DOMAIN AnyNumber \cup DOMAIN Letter

Accepted(o) ==
    /\ Known(o)
    /\ o.opt \in DOMAIN Positive => o.arg > 0
    /\ o.opt \in DOMAIN NonNegative => o.arg >= 0
    /\ o.opt = "b" => o.arg \in Letters.benchmark

NewValue(o) ==
    IF o.opt = "t" THEN "server"
    ELSE IF /\ o.opt \in DOMAIN Letter
            /\ Field(o) \in DOMAIN Letters
            /\ o.arg \notin Letters[Field(o)]
         THEN conf[Field(o)]
         ELSE o.arg

ParseOption ==
    /\ pc = "parse" /\ argv # << >>
    /\ \/ /\ Accepted(Head(argv))
          /\ conf' = [conf EXCEPT ![Field(Head(argv))] = NewValue(Head(argv))]
          /\ argv' = Tail(argv)
          /\ UNCHANGED pc
       \/ /\ ~Accepted(Head(argv))
          /\ pc' = "exited"
          /\ UNCHANGED << conf, argv >>
    /\ UNCHANGED << host, latency_sample_interval, queues, polls, tables >>

\* wpkts_send_limit_ms * average_interval * 2 * 1000 / SAMPLE_SIZE / n_rcv_cores,
\* in uint32_t.
PacketsPerSample ==
    (((conf.wpkts_send_limit_ms * conf.average_interval * 2000) % Word) \div 10000)
        \div n_rcv_cores

SampleInterval == IF PacketsPerSample > 1 THEN PacketsPerSample ELSE 1

ParseEnd ==
    /\ pc = "parse" /\ argv = << >>
    /\ IF n_rcv_cores = 0
       THEN pc' = "crashed" /\ UNCHANGED latency_sample_interval
       ELSE pc' = "pool" /\ latency_sample_interval' = SampleInterval
    /\ UNCHANGED << host, argv, conf, queues, polls, tables >>

-----------------------------------------------------------------------------
(* nc_init.                                                                *)

\* The pool of packet buffers is there or is not.
CreatePool ==
    /\ pc = "pool"
    /\ pc' \in {"ports", "exited"}
    /\ UNCHANGED << host, parsed, queues, polls, tables >>

EnabledBit(i) == (conf.enabled_port_mask \div 2^i) % 2 = 1

TotalPorts == IF host.ports < MaxPorts THEN host.ports ELSE MaxPorts

\* One round of the loop over the ports that were detected.
EnablePort ==
    /\ pc = "ports" /\ loop.i < TotalPorts
    /\ loop' = [loop EXCEPT !.i = @ + 1]
    /\ enabled_ports' = IF EnabledBit(loop.i) THEN Append(enabled_ports, loop.i)
                                              ELSE enabled_ports
    /\ UNCHANGED << host, pc, parsed, lcore_conf, polls, tables >>

PortsDone ==
    /\ pc = "ports" /\ loop.i = TotalPorts
    /\ pc' = IF host.ports = 0 THEN "exited" ELSE "lcores"
    /\ UNCHANGED << host, parsed, queues, polls, tables >>

\* NETLOCK_MODE: in the role of a client only the first n_rcv_cores receive.
RxQueuesPerPort ==
    (RxQueuesPerLcore * (IF conf.role = "client" THEN n_rcv_cores ELSE n_lcores))
        \div n_ports
TxQueuesPerPort == n_lcores \div n_ports

\* The test for no port at all comes at the end of nc_init, after the division.
CheckQueues ==
    /\ pc = "lcores"
    /\ pc' = IF n_ports = 0 THEN "crashed"
             ELSE IF n_lcores % n_ports # 0 \/ RxQueuesPerPort < RxQueuesPerLcore
                  THEN "exited"
                  ELSE "assign"
    /\ UNCHANGED << host, parsed, queues, polls, tables >>

\* Slip: one lcore too few.
ReceivesButLast(lcore) == conf.role # "client" \/ lcore < n_rcv_cores - 1

Receives(lcore) == conf.role # "client" \/ lcore < n_rcv_cores

\* Slip: a lcore that does not receive leaves its TX queue to the next one.
AdvanceReceiving(n) ==
    [loop EXCEPT !.rx = @ + n, !.tx = IF n = 0 THEN @ ELSE @ + 1]

\* Where the next lcore starts: after n RX queues and one TX queue, or at the
\* next port if that was the last TX queue of this one.
Advance(n) ==
    IF (loop.tx + 1) % TxQueuesPerPort = 0
    THEN [loop EXCEPT !.port = @ + 1, !.rx = 0, !.tx = 0]
    ELSE [loop EXCEPT !.rx = @ + n, !.tx = @ + 1]

\* One round of the loop that gives each lcore a port, a TX queue of it and, if
\* it receives, the next RX queues.
AssignLcore ==
    /\ pc = "assign" /\ Len(lcore_conf) < n_lcores
    /\ LET n == IF Receives(Len(lcore_conf)) THEN RxQueuesPerLcore ELSE 0
       IN  /\ lcore_conf' =
                 Append(lcore_conf, [port |-> enabled_ports[loop.port + 1],
                                     tx   |-> loop.tx,
                                     rx   |-> loop.rx .. (loop.rx + n - 1)])
           /\ loop' = Advance(n)
    /\ UNCHANGED << host, pc, parsed, enabled_ports, polls, tables >>

\* rte_eth_dev_configure and the set-up of the queues work or do not.
ConfigurePorts ==
    /\ pc = "assign" /\ Len(lcore_conf) = n_lcores
    /\ pc' \in {"links", "exited"}
    /\ UNCHANGED << host, parsed, queues, polls, tables >>

LinksChecked == pc' = "zipf" /\ UNCHANGED polls

\* A link that stays down is reported, and that is all.
Poll(allUp) ==
    IF allUp \/ polls = LinkPolls - 1 THEN LinksChecked
    ELSE polls' = polls + 1 /\ UNCHANGED pc

\* check_link_status.
CheckLinks ==
    /\ pc = "links"
    /\ \E allUp \in BOOLEAN : Poll(allUp)
    /\ UNCHANGED << host, parsed, queues, tables >>

-----------------------------------------------------------------------------
(* main, after nc_init.                                                    *)

\* custom_init. zipf_init takes no theta from 1 up to 40, of which zipf_alpha
\* is a hundredfold.
InitZipf ==
    /\ pc = "zipf"
    /\ pc' = IF conf.zipf_alpha \in 100 .. 3999 THEN "crashed"
             ELSE IF host.program = "client" THEN "address" ELSE "layout"
    /\ UNCHANGED << host, parsed, queues, polls, tables >>

\* ip_src is entry machine_id - 1 of ip_list, or what lies beside
\* the list.
InitAddress ==
    /\ pc = "address"
    /\ ip_src' = IF conf.machine_id \in 1 .. Addresses THEN conf.machine_id
                 ELSE 0
    /\ pc' = "failure_act"
    /\ UNCHANGED << host, parsed, queues, polls, clients, traces, batch_map,
                    len_in_switch >>

\* failure_act is set to FAILURE_NORMAL for as many clients as were asked for.
InitFailureAct ==
    /\ pc = "failure_act"
    /\ pc' = IF conf.client_num > MaxClients THEN "undefined" ELSE "batch"
    /\ UNCHANGED << host, parsed, queues, polls, tables >>

\* For task 'g' the map of batches is allocated, and filled if there is a file.
InitBatchMap ==
    /\ pc = "batch"
    /\ pc' = IF host.program = "client" THEN "clients" ELSE "running"
    /\ batch_map' \in IF conf.task_id = "g" THEN {"read", "uninitialised"} ELSE {"none"}
    /\ UNCHANGED << host, parsed, queues, polls, clients, traces, ip_src,
                    len_in_switch >>

-----------------------------------------------------------------------------
(* main of the client: the clients each TX lcore stands for.               *)

UInt8(n) == n % 256
TxLcores == n_lcores - n_rcv_cores

\* Slip: the last client of an lcore is the first one of the next.
ClientRangeOverlapping(k) ==
    [s |-> UInt8((k * conf.client_num) \div TxLcores),
     e |-> UInt8(((k + 1) * conf.client_num) \div TxLcores)]

ClientRange(k) ==
    [s |-> UInt8((k * conf.client_num) \div TxLcores),
     e |-> UInt8(((k + 1) * conf.client_num) \div TxLcores - 1)]

\* The transaction traces are numbered through all machines.
TpccTrace(machine, c, base) == (machine - 1) * TxLcores + c + base

\* The file get_traces reads for client c; of some options none is named.
TraceOf(machine, c) ==
    CASE conf.benchmark = "s" -> << "shared", machine >>
      [] conf.benchmark = "x" /\ conf.contention_degree = 1 -> << "alone", machine, c + 6 >>
      [] conf.benchmark = "x" /\ conf.contention_degree = 12 ->
             << "contended", conf.lock_num, machine, c >>
      [] conf.benchmark = "t" /\ conf.task_id = "q" ->
             << "6v6", conf.warehouse, TpccTrace(machine, c, 25) >>
      [] conf.benchmark = "v" \/ (conf.benchmark = "t" /\ conf.task_id # "q") ->
             << "10v2", conf.warehouse, TpccTrace(machine, c, 9) >>
      [] OTHER -> NoTrace

\* get_traces is called for every client of the range, and writes outside its
\* arrays for a client that does not exist.
AssignClients ==
    /\ pc = "clients" /\ Len(clients) < TxLcores
    /\ LET range == ClientRange(Len(clients))
       IN  IF range.s <= range.e /\ range.e >= MaxClients
           THEN pc' = "undefined" /\ UNCHANGED << clients, traces >>
           ELSE /\ clients' = Append(clients, range)
                /\ traces' = [c \in DOMAIN traces |->
                                IF c \in range.s .. range.e
                                THEN TraceOf(conf.machine_id, c) ELSE traces[c]]
                /\ UNCHANGED pc
    /\ UNCHANGED << host, parsed, queues, polls, batch_map, ip_src, len_in_switch >>

LaunchClient ==
    /\ pc = "clients" /\ Len(clients) >= TxLcores
    /\ pc' = "running"
    /\ UNCHANGED << host, parsed, queues, polls, tables >>

-----------------------------------------------------------------------------
(* main of the server: the lengths of the queues in the switch.            *)

\* memn_filename; "" where none was printed into it.
LayoutFile ==
    IF conf.benchmark = "t"
    THEN IF conf.memory_management # "b" THEN "incast_random"
         ELSE IF conf.task_id = "q" THEN "multiserver"
         ELSE IF conf.task_id = "e" THEN "empty"
         ELSE "incast"
    ELSE CASE conf.memory_management = "b" ->
                  IF conf.benchmark = "v" THEN "tpcc_incast" ELSE ""
           [] conf.memory_management = "w" -> "random_weight"
           [] conf.memory_management = "1" -> "random_uni_12"
           [] conf.memory_management = "2" -> "random_uni_200"
           [] OTHER -> ""

\* The rows a file has for a lock; the lock ids of the files start at 0.
Rows(file, l) ==
    IF file \in DOMAIN Layouts
    THEN {n \in DOMAIN Layouts[file] : Layouts[file][n].lock + 1 = l}
    ELSE {}

\* The rows the server finds: none, unless it was told where the files are.
RowsFound(l) == IF conf.dir_prefix = "" THEN {} ELSE Rows(LayoutFile, l)

\* Slip: the lock id of the row is taken as it is.
LengthFromFileUnshifted(l) ==
    IF RowsFound(l + 1) = {} THEN 0
    ELSE Layouts[LayoutFile][CHOOSE n \in RowsFound(l + 1) : TRUE].len

LengthFromFile(l) ==
    IF RowsFound(l) = {} THEN 0
    ELSE Layouts[LayoutFile][CHOOSE n \in RowsFound(l) : TRUE].len

MicroLength(l) ==
    CASE conf.benchmark = "s" -> 10000
      [] conf.benchmark = "x" -> 12
      [] OTHER -> IF l <= 20 THEN 500 ELSE 20

\* The loops for the micro-benchmarks start at an uninitialised i.
get_queue_len_in_switch ==
    /\ pc = "layout"
    /\ IF conf.benchmark \in {"s", "x", "n"}
       THEN \E i \in Uninitialised :
               IF i < 0 THEN pc' = "undefined" /\ UNCHANGED len_in_switch
               ELSE /\ pc' = "address"
                    /\ len_in_switch' =
                          [l \in Locks |-> IF l >= i THEN MicroLength(l) ELSE 0]
       ELSE /\ pc' = "address"
            /\ len_in_switch' = [l \in Locks |-> LengthFromFile(l)]
    /\ UNCHANGED << host, parsed, queues, polls, clients, traces, batch_map, ip_src >>

Next ==
    \/ ParseOption \/ ParseEnd \/ CreatePool
    \/ EnablePort \/ PortsDone \/ CheckQueues \/ AssignLcore \/ ConfigurePorts \/ CheckLinks
    \/ InitZipf \/ InitAddress \/ InitFailureAct \/ InitBatchMap \/ AssignClients \/ LaunchClient
    \/ get_queue_len_in_switch

Spec == Init /\ [][Next]_vars

FairSpec == Spec /\ WF_vars(Next)

-----------------------------------------------------------------------------
(* The controller (test.py), which gives the locks their queues from a file *)
(* of its own choice.                                                      *)

ControllerFile ==
    IF conf.memory_management # "b" THEN "incast_random"
    ELSE CASE conf.task_id \in {"p", "2"} -> "incast"
           [] conf.task_id \in {"q", "3"} -> "multiserver"
           [] conf.task_id = "g" -> "incast_map"
           [] conf.task_id = "e" -> "empty"
           [] OTHER -> "incast"

\* Rings follow each other in the order of the rows.
Bounds(n) ==
    LET rows == Layouts[ControllerFile]
        start[m \in 0 .. Len(rows)] ==
            IF m = 0 THEN 0 ELSE start[m - 1] + rows[m].len
    IN  [left |-> start[n - 1] + 1, right |-> start[n]]

RingLength(l) ==
    IF Rows(ControllerFile, l) = {} THEN 0
    ELSE LET bounds == Bounds(CHOOSE n \in Rows(ControllerFile, l) : TRUE)
         IN  bounds.right - bounds.left + 1

-----------------------------------------------------------------------------
OfLcore(lcore) == lcore_conf[lcore + 1]
Lcores == 0 .. (n_lcores - 1)

\* Two lcores never send on the same TX queue of a port: a TX queue of the NIC
\* has no lock.
TxQueuesApart ==
    \A i, j \in 1 .. Len(lcore_conf) :
        i # j => \/ lcore_conf[i].port # lcore_conf[j].port
                 \/ lcore_conf[i].tx # lcore_conf[j].tx

\* RSS spreads packets over all RX queues of a port, so each of them must be
\* polled, and by one lcore only: the order of the packets of a transaction
\* rests on it. The role of a client is fit for one port.
EveryRxQueuePolled ==
    (/\ pc = "running"
     /\ conf.role = "client" => n_ports = 1 /\ n_rcv_cores <= n_lcores)
        => \A n \in 1 .. n_ports, q \in 0 .. (RxQueuesPerPort - 1) :
              Cardinality({i \in Lcores : /\ OfLcore(i).port = enabled_ports[n]
                                          /\ q \in OfLcore(i).rx}) = 1

\* Every emulated client is run by exactly one TX lcore, and no TX lcore runs
\* one that does not exist; all of it indexes arrays without a check.
EveryClientOnOneLcore ==
    (pc = "running" /\ host.program = "client" /\ TxLcores > 0) =>
        /\ \A c \in 0 .. (conf.client_num - 1) :
              Cardinality({k \in DOMAIN clients :
                              c \in clients[k].s .. clients[k].e}) = 1
        /\ \A k \in DOMAIN clients :
              clients[k].s .. clients[k].e \subseteq 0 .. (conf.client_num - 1)

\* Transaction clients run traces of their own, all over the machines of an
\* experiment, when a machine has no more clients than transmit lcores: two that
\* run the same trace contend for the same locks all the time.
TracesApart ==
    (/\ pc = "running" /\ host.program = "client" /\ conf.benchmark \in {"t", "v"}
     /\ conf.client_num <= TxLcores /\ conf.machine_id > 0)
        => \A c, d \in 0 .. (conf.client_num - 1), m \in 1 .. Addresses :
              traces[c] = TraceOf(m, d) => m = conf.machine_id /\ c = d

\* Every emulated client has a transmit lcore of its own to run it, and the
\* transaction traces of an experiment are told apart.
ClientsApart == EveryClientOnOneLcore /\ TracesApart

\* For a TPC-C task of which server and controller read the same file, a server
\* that runs and was told where the files are knows of every lock how long its
\* queue in the switch is: it pushes that many requests back at a time, and one
\* more would overrun the queue.
ServerKnowsRings ==
    (/\ pc = "running" /\ host.program = "server"
     /\ conf.benchmark = "t" /\ conf.dir_prefix # ""
     /\ LayoutFile = ControllerFile)
        => \A l \in Locks : len_in_switch[l] = RingLength(l)
=============================================================================
