# NetLock in TLA+

NetLock is a lock service: a programmable switch grants reader/writer locks in
its data plane, lock servers behind it take the requests the switch has no room
for and the locks it does not manage, and DPDK clients acquire and release
locks, one by one or as transactions. This directory holds TLA+ modules of the
lock queues, the packets between them, the clients, the failure of the switch,
and the start-up and measurements of a host; the TLC configurations that check
them; and TLAPS proofs about them. Every definition that models code is listed
under `map` in `PROJECT.json`, with the lines it translates.

Run in this directory: `tlc -config <cfg> <module>` for a run of the table
below, `tlapm <module>` for the proofs.

- [Inventory](#inventory)
- [The modules](#the-modules)
- [What the runs check](#what-the-runs-check)
- [Fairness](#fairness)
- [What is proved](#what-is-proved)
- [Disagreements between code and documentation](#disagreements-between-code-and-documentation)
- [What is not modelled](#what-is-not-modelled)
- [Plan](#plan)

## Inventory

Paths are relative to `src/`. P4 files are under `switch_code/netlock/p4src/`.

### Switch lock queue (`netlock.p4`, `blackboxs.p4`, `actions.p4`, `tables.p4`)

*State*, one cell per lock: `head_register`, `tail_register`, the bounds
`left`/`right` of the lock's ring in the entry arrays (mode, transaction,
client, address, timestamp), `slots_two_sides_register` (low half: empty slots;
high half: requests at the server), `shared_and_exclusive_count_register`.

*Operations*: a packet crosses the pipeline atomically.
ACQUIRE takes a slot or is forwarded to the server; it is granted at once if
the counters allow. PUSH_BACK is an ACQUIRE that comes back from the server and
is always queued. RELEASE pops the head; a *recirculated* copy then looks at
the next entry and grants it, or a run of shared entries, one entry per pass.
If the last entry is released while requests are at the server, the RELEASE is
forwarded instead, without a pop.

*Hard*: a release is several passes, and anything may happen between two of
them; the recirculated packet carries copies of head and tail; the ring
overflows to the server and requests come back by packets that cross others.

*Correct if*: a writer never holds the lock with anybody else; nobody is
granted twice or after releasing; conflicting requests are granted in order of
arrival; no request is forgotten between the two queues; everybody who waits is
granted in the end.

### Lock server (`dpdk_code/lock_server_code/server.c`, `lock_queue.c`, `include/util.h`)

*State*, per lock: `lockqueues` (a linked list), `num_ex`, `num_sh`,
`len_in_switch`. *Operations*: the receive loop, by role of the packet. As
SECONDARY_BACKUP it buffers ACQUIREs of locks of the switch and answers a
forwarded RELEASE by pushing back up to `len_in_switch` requests; as
PRIMARY_BACKUP it is the lock manager itself; on FAILURE_NOTIFICATION it resets
buffers. RSS gives every lock to one lcore, which handles packets one by one.

*Hard*: a release dequeues the head, not the entry of the releaser, and the
mode of what it dequeues decides who is next. *Correct if* the counters count
the queue, a release always finds an entry, and the lock is a FIFO
reader/writer lock.

### Clients (`dpdk_code/client_code/client.c`, `txn_queue.c`, `think_queue.c`, `include/util.h`)

*State*, per client: the trace cursor `idx`, `last_txn`, `last_txn_idx`,
`txn_s`, `deadlocked` (transmit lcore); `txn_r`, `txn_queues` (receive lcore
writes, transmit lcore reads and clears); `busy` (both write); `thinkqueue`;
packets in `tx_mbufs`.

*Operations*: the transmit loop sends the ACQUIREs of the current transaction,
then waits until `txn_r` shows all grants; it commits and releases, or after
`expire_time` gives back what it has, remembers that in `deadlocked`, waits for
the rest, and starts the transaction again. The receive loop queues and counts
grants, and resends rejected ACQUIREs. In the micro-benchmarks there are no
transactions: locks are requested one by one, skipped while `busy`, and
released on grant or when the think queue is drained.

*Hard*: two lcores share memory without a lock; grants of an expired attempt
keep arriving; transactions of different clients deadlock; ACQUIREs are sent
only in full batches; RELEASEs and ACQUIREs leave from different NIC queues.

*Correct if*: a transaction commits holding all its locks; every granted lock
is released exactly once; the list walk never runs off the list; waits end.

### Client traces (`include/new_order.h`)

`get_traces` drops releases and repeated accesses of a transaction to an
object, and counts the locks of each transaction in `locks_each_txn`. The
client waits for exactly that many grants, so the count must match what is sent.

### Failure handling (`test.py`, `netlock.p4`, `server.c`, `client.c`)

*State*: `failure_status` of the switch; of a host `last_failure_status`; of a
client `failure_act` (NORMAL, ROLLBACK, STOP). *Operations*: `failure_sim` of
the controller sets `failure_status`, writes head, tail, counters and slots of
every lock, and clears it. A failed switch changes nothing and sends requests
for its locks on to the server as FAILURE_NOTIFICATION. Each host probes the
switch; a receive lcore that sees the status change sets `failure_act` of all
clients of the host; the transmit lcore of a client in ROLLBACK goes back to the
beginning of the transaction and then stops.

*Hard*: nothing in a grant tells of which attempt it is; packets of before the
failure arrive during and after it; the registers are reset one by one; the
receive lcore checks `failure_act` and then counts, the transmit lcore reads
ROLLBACK and then writes STOP. *Correct if* two clients never count on a lock
together, one through the old switch and one through the new; a client that
resumes starts from nothing; the recovered switch starts from an empty queue;
nobody stays stopped, and no request waits for ever for a switch that has
forgotten it.

### Packets (`client.c`, `server.c`, `util.h`, `lock_queue.h`, `actions.p4`)

*State*: header fields, in host or network order; the copies of them in queue
entries and list nodes. *Operations*: a request is written by a client, rewritten
by the switch on its way to a server, kept in an entry or node, pushed back, and
granted by a packet made of it, of a node, or of the RELEASE of another client.

*Hard*: ten places rewrite some of the fields and leave the others; `txnID` is
turned at each; lcores share lists and counters without locks, on the strength
of UDP ports chosen so that RSS hashes what belongs together to one queue.
*Correct if* a grant names the request it grants, of a transaction all come to
one lcore, and so do of a lock all packets to a server.

### Start-up of a host (`client.c`, `server.c`, `util.h`, `new_order.h`, `zipf.h`)

*State*: the options; ports, TX and RX queues of each lcore; clients of each
transmit lcore and their traces; the layout of the locks in the switch as the
server (`len_in_switch`) and the controller (`left`, `right`) each read it.
*Hard*: arithmetic on options nobody checks; one loop with four running
indices shares out the queues of all ports; two programs choose the layout file
by different conditions. *Correct if* no TX queue has two lcores, every RX queue
and client exactly one, clients of an experiment have traces of their own,
server and controller agree, and the start-up ends.

### Statistics (`client.c`, `server.c`, `collect.h`, `util.h`)

*State*: counters and latency samples of each lcore, snapshots and totals of
lcore 0. *Operations*: count, sample; every second print rates; after one
interval take a first snapshot, after the second a second one; collect and sort
the samples, write the files; exit. *Hard*: lcore 0 walks over the counters of
the others while they count, reading each twice, and a transaction's locks are
counted at once (`client.c:586`); what is printed is an unsigned difference of two
sums; a sample is two plain stores.
*Correct if* what is reported was counted in the window it is reported for, the
rates printed every second leave nothing out and are never negative,
samples are neither lost nor invented, the files have names, and the process
ends only with results.

### Others

Tenant thresholds (`netlock.p4:399-445`, reset every second by the controller);
NetChain, a test-and-set lock kept as a baseline; trace generators, the console
that starts everything over ssh, and `simple_socket.c`, which no Makefile builds.

### How they interact

    clients --ACQUIRE, RELEASE--> switch --ACQUIRE, RELEASE--> lock server
       ^                          |  ^ |                         |    |
       +------ grant, reject -----+  +-+ recirculated RELEASE    |    |
       |                          ^                              |    |
       |                          +---------- PUSH_BACK ---------+    |
       +---------------- GRANT_LOCK_FROM_SERVER ----------------------+

All of it is packets, except the memory the lcores of a process share: client
state, statistics, and the queues of the lock server.

## The modules

| Module | Models | State and actions |
| --- | --- | --- |
| `SwitchQueue` | the registers of one lock and what one pass does to them | one operator per kind of pass: `QueueAcquire`, `ForwardAcquire`, `QueuePushBack`, `PopOnRelease`, `ForwardRelease`, and `FollowUp`, `Notifies`, `NextPass` for recirculation |
| `NetLock` | one lock of the switch with its clients, the recirculation port, and the server as a buffer | three FIFO channels (`recirculating`, `toServer`, `fromServer`), the server's `buffer`, and `status`, what clients know of their requests; one action per packet arriving somewhere |
| `LockServer` | one lock of the server in its owning role | `queue`, `num_ex`, `num_sh`; one action per branch of the receive loop |
| `FifoLock` | the abstract lock: what either promises | `holders`, `waiting` |
| `NetLockFifo`, `LockServerFifo` | the refinement mappings to `FifoLock` | `NetLockFifo` adds a history variable, the waiting requests in order of arrival; the server's queue has that order already |
| `TxnClient` | transaction clients over locks that do what `FifoLock` promises | transmit and receive lcore interleave; one action per outcome of an iteration of the transmit loop, and separate actions for queueing and counting a grant |
| `MicroClient` | micro-benchmark clients in SYNCHRONOUS mode | `busy`, the batch, the think queue; a client thinks (`think_time > 0`) or does not |
| `Traces` | `get_traces`, row by row | the arrays as `entries`, `locks_each_txn`, and the rows read |
| `Failover` | one lock, the switch that fails and recovers, the server, hosts and clients | `EXTENDS SwitchQueue`; `failure_status`, `controller` (where `failure_sim` is), probes, `failure_act`, `rollingBack`, `received` for the two halves of what an lcore does; one action per register write, per packet arriving, per half of an lcore's turn |
| `Packets` | headers of all packets of requests, through client, switch and server | `network`, `entries`, `queued`, and histories of what was sent, granted and seen; one action per place that writes a packet |
| `Startup` | `nc_parse_args`, `nc_init`, `main`, `get_queue_len_in_switch`, and the controller's choice of bounds | `pc` as the position in `main`; one action per round of a loop |
| `Statistics` | `rx` of each lcore, samples, and the passes of lcore 0 | `task` and `i` as the position of lcore 0; each read of a counter is a step; `mark` and `print_begins` are history variables |
| `Host` | both: a host starts, and measures with what the start-up left | `INSTANCE Statistics` over the variables of `Startup` |
| `Counting` | lemmas on counting queue entries and on positions of a ring | shared by the proof modules |
| `*_proofs` | the proofs; `Client_proofs` is about `Traces` and `TxnClient` both | |
| `MC*` | instances for TLC | constants, symmetry |

Correspondence and abstractions, common to all:

- *One lock at a time.* Every register of the switch and every array of the
  server is indexed by the lock, and no operation on a lock reads another's, so
  `NetLock` and `LockServer` model one lock. The client modules have several.
- *A request* is a member of `Requests`: the pair of client and transaction
  whose mode, address and timestamps the entry arrays hold. A client asks again
  only after it released, which the clients' code guarantees (`LocksAccounted`,
  `BusyExact`).
- *Packets.* The packets of one lock between switch and server form one flow
  (`fix_src_port`), and one lcore handles them, so the channels are FIFOs. They
  interleave freely with each other and with the clients' packets. In `NetLock`
  and `LockServer` a grant reaches its client at once; in the client modules
  grants take their time and arrive in any order.
- *Widths.* Register halves wrap at `RegisterModulus`, 2^32 in the code. The
  server's counters are unsigned; `TypeCorrect` shows they never wrap below zero.
- *`FastRecirculation`* is an assumption about the hardware, spelled out in
  `MayWriteTail`: while a packet recirculates, the tail does not come all the
  way round to a slot the packet has yet to read. Without it the switch reads
  overwritten slots (`netlock.p4:286` reads the entry that an earlier release
  freed); the theorems about readers and writers in one ring assume it.
- *`SlowRecovery`* is an assumption about the controller, spelled out in `Drained`
  of `Failover`: it clears `failure_status` only after the packets of before the
  failure have arrived, all clients have stopped, and the transmit lcores have
  gone round once more. The code has no such test; `failure_sim` writes four
  registers of every lock through the driver first, some ten thousand calls,
  against round trips of microseconds. If recovery were faster, a transmit lcore
  would write STOP over NORMAL (`client.c:440`) and stop for ever; so none of the
  properties is about that race.
- *Tenants.* `LockReject` lets the switch send any ACQUIRE back. A rejected
  ACQUIRE leaves no trace in the registers of a lock, so `NetLock` omits it.
- *One client per transmit lcore, one receive lcore per transaction.* The
  console starts as many clients as transmit lcores (`ClientsApart`
  says they are shared out); `OneLcorePerTxn` of `Packets` shows that RSS gives
  all grants of a transaction to one receive queue, which `TxnClient` assumes.
- *The counter of `Statistics` is `rx`*, which of a server every lcore counts per
  packet, of a micro-benchmark client the receive lcores per grant, and of a TPC-C
  client the transmit lcores per committed transaction, by its locks. Every second
  `print_per_core_throughput` adds it up from lcore `n_rcv_cores` on, so what a
  client prints is of its transmit lcores only, and 0 in the micro-benchmarks
  (`util.h:785-790`). `tx`, `rx_read`, `rx_write` and `dropped` go through the same
  passes; `txn` does not (`client.c:729`).
- *`Packets` leaves out which entry is granted when*: any entry may be granted
  any number of times, so what it shows holds for whatever the queues do.
  Numbers have two digits of a base in place of four bytes; that is what byte
  orders need to differ.
- *`Failover`* has one exclusive lock, so that a transaction is one request. A
  client's attempts are numbered in the model only.
- *Positions, not wording.* Formats of the result files and of what is printed are
  left out; their names are kept, as the set of names a task prints.

In `TxnClient` the third case of the wait, more grants than locks
("SOMETHING MUST BE WRONG!"), has no action: `TraversalSafe` shows that it is
unreachable. `Traces` shows the assumption `TraceAssumption` that `TxnClient`
makes of its trace (`TraceForClient`), for files in which the rows of a
transaction follow each other. Its definitions have names of their own
(`TracesInit`, `TracesSpec`), as a client is both.

Definitions marked "Slip" change one definition the way a bug would; no
specification uses them. `PROJECT.json` lists under `mutants` which property
must fail when the slip takes its definition's place.

## What the runs check

| Run | Configuration | Shows |
| --- | --- | --- |
| `ring` | `MCNetLockFifo_ring` | 2 readers, 2 writers, 4 slots: mutual exclusion, no wrong or double notification, nobody stranded, the refinement of `FifoLock`, and every waiting request is granted |
| `shared` | `MCNetLock_shared` | 4 readers, 2 slots: overflow to the server and back, up to more push-backs than free slots. Types, both halves of `slots_two_sides_register` exact, nobody stranded |
| `lock_server` | `MCLockServer` | 3 readers, 2 writers of a lock of the server: `QueueInv`, exclusion, a release finds an entry, refinement of `FifoLock`, everybody granted |
| `txn` | `MCTxnClient` | 2 clients that write locks A, B and B, A, then read A; rejections: `CommitHoldsAll`, `LocksAccounted`, `TraversalSafe`, and no wait is for ever |
| `traces` | `MCTraces` | all traces of up to 3 rows: `TraceForClient`, `AccessesCovered` |
| `micro` | `MCMicroClient` | 2 clients, 2 locks, one with think queue and batches of two, one without: `BusyExact`, `HeldForAReason`, every request ends |
| `failover` | `MCFailover` | 2 clients of 2 hosts, one of which tries twice; the switch fails at any moment: `MutualExclusion` and `ResumesFresh` across the failure, `ResetHolds`, nobody stays stopped, every attempt ends |
| `packets` | `MCPackets` | 2 hosts, 2 locks, 4 requests, one lock in the switch and one at a server: `GrantIsOfRequest`, `OneLcorePerTxn`, `OneLcorePerLock`, `LatencyOfRequest` |
| `host` | `MCHost` | the command lines of the console and the READMEs and variants of them, through the start-up; 18 hosts through their measurements: `TxQueuesApart`, `EveryRxQueuePolled`, `ClientsApart`, `ServerKnowsRings` of the start-up, `RatesInWindow` and `ReportSound` of the statistics, and `EveryHostEnds` |
| `one_slot`, `overflow_exclusion`, `failure_notification` | `MCNetLock_*`, `MCFailover_notification` | expected violations, see below |

*Why these bounds are enough to be interesting.* Four requests on four slots
let the ring wrap and let a run of two readers be granted after a writer while
another writer arrives, with two releases recirculating at a time. Two slots
with four readers is the smallest overflow with over-commitment of the slots.
Two clients and two locks are the smallest deadlock; the third lock request of
each trace makes a transaction follow another and the trace wrap. Three rows
hold a repeated lock with another entry in between, and an upgrade of its mode.
Two clients, of which one makes a second attempt, are the smallest case in which
an old grant meets a new request while another client waits. `packets` needs two
hosts wanting the same lock (a notification made of another's RELEASE), two
locks of one transaction (grants from different places), and a lock of either
kind. `host` has one and several ports, masks with gaps, more and fewer clients
than transmit lcores, every task of the console, and a client both of whose
lcores sample. A TPC-C client commits up to two locks at once, between any two
reads of the rates printed every second.

Bounds by name: `MaxAttempts` (attempts of a client), `MaxProbes` (replies to
probes in flight), `MaxRows` (of a trace), `MaxEvents` and `MaxReplies` (packets
counted), `MaxLocks` (locks of a transaction, 2), `LinkPolls` (2 for 90), `ExitInterval` (3 for 20), `Word` (2^20 for 2^32),
`Measured` (the hosts that go on to measure), `LengthFits` (requests the register
counts, no restriction as long as a request is outstanding once).

The passing runs on `NetLock` cover two regimes: every request fits into the
ring, in any mix of readers and writers, or the ring overflows and all requests
are shared. Overflows with writers go wrong (see the disagreements below), so no
safety property beyond types and `ServerLengthExact` is claimed for them; those
two are proved for them. Progress under overflow is claimed as
`NoStrandedWaiter` only: for four readers its liveness is too large to check.

*Depth of the properties.* `NoStrandedWaiter` relates the waiting requests to
everything that could still bring them the lock, over both queues and three
channels. `LocksAccounted` counts, for each granted lock, the one thing the
client still has to do about it, across expiry, late grants and retries.
`CommitHoldsAll` looks at the moment the transmit lcore decides to commit and
asks the locks, not the client. `BusyExact` counts a request wherever it may be
against a flag two lcores write. `ResumesFresh` compares what a client counts
with the request it sent since, across grants that look alike. `GrantIsOfRequest`
compares what a client reads with what was sent, over every way a packet can be
rewritten. `RatesInWindow` bounds what is reported by what lcores had counted
when the passes began and ended, which only history variables know; of the rates
printed it asks that none is negative and that together they are what was counted,
up to what came while the last was being added up. Properties
that belong together are named parts of one: `RatesInWindow` is `CoreWindow`,
`TotalWindow` and `PrintedRatesAddUp`; `ReportSound` is `SamplesReported`,
`TailsOrdered` and `FilesNamed`; `ClientsApart` is `EveryClientOnOneLcore` and
`TracesApart`.

## Fairness

- Packets under way arrive: recirculated packets, forwarded packets,
  PUSH_BACKs, grants, probes. NICs drop packets when a buffer is full
  (`send_pkt_burst`), and nothing is retransmitted; loss is not modelled, so
  liveness is claimed for runs without loss only.
- The switch need not fail; a controller that has begun `failure_sim` goes on with
  it (`Recovery`).
- Start-up is one process that goes on (`Start`); lcore 0 goes on polling
  (`Lcore0`) and time passes (`Tick`). The other lcores need not do anything.
- A client that was granted a lock releases it: weak fairness of `Release`.
  Nobody has to acquire.
- Lcores poll for ever, timers expire: weak fairness of the transmit loop's
  iteration as a whole (`Tx`), of draining queues and of sending bursts.
  Fairness of receiving is per lock in `MicroClient`: each grant arrives.
- `LockAcquire` of `TxnClient` has strong fairness: an ACQUIRE that is rejected
  and resent over and over is accepted at some time, as the controller resets
  the tenants' counters every second (`test.py:641-644`).
- Retries of deadlocked transactions may livelock: the code backs off for a
  random time and guarantees nothing. `EveryAttemptEnds` therefore says that an
  attempt obtains all its grants in the end, at once or one after the other,
  not that a transaction commits.

## What is proved

For every finite set of requests and every value of the other constants:

| Theorem | Says |
| --- | --- |
| `LockServer_proofs!TypeCorrect` | types; `num_ex`, `num_sh` are never decremented at zero |
| `LockServer_proofs!QueueCorrect` | `QueueInv` |
| `LockServer_proofs!Exclusion` | `MutualExclusion` |
| `LockServer_proofs!DequeueSafe` | a holder's release never dequeues from an empty queue |
| `LockServer_proofs!ServerImplementsFifoLock` | `ImplementsFifoLock`: every step of the server is one of the abstract lock, or a stutter |
| `NetLock_proofs!TypeCorrect` | registers, cursors, packets keep their types in every regime |
| `NetLock_proofs!ServerLengthCorrect` | the switch's count of requests at the server is exact, in every regime |
| `NetLock_proofs!SharedSlotsCorrect` | `SlotsExact` for shared requests, in rings of any size, overflow included |
| `NetLock_proofs!SharedNobodyStranded` | `NoStrandedWaiter` for shared requests, if the layout gives the lock a place |
| `NetLock_proofs!ExclusionWithRoom`, `NotifiesWaitersWithRoom` | `MutualExclusion`, `NotifiesOnlyWaiters` for readers and writers, if the ring has a slot for every request (`HasRoom`) |
| `NetLock_proofs!NobodyStrandedWithRoom`, `SlotsCorrectWithRoom` | `NoStrandedWaiter`, `SlotsExact`, likewise |
| `NetLock_proofs!SwitchImplementsFifoLock` | `ImplementsFifoLock` for the switch, likewise |
| `LockServer_proofs!FifoExcludes` | the abstract lock excludes: whatever implements it does |
| `MicroClient_proofs!BusyCorrectness`, `HoldersHaveReason` | `BusyExact`, `HeldForAReason`, for any clients, locks, traces and batches |
| `Client_proofs!WorksHoldingAll` | `CommitHoldsAll`, for any clients, locks, traces and rejections |
| `Client_proofs!NothingLeakedOrReleasedTwice`, `ListWalkedSafely` | `LocksAccounted`, `TraversalSafe`, likewise |
| `Client_proofs!TransactionsIsolated` | no two clients at work have a lock in conflict |
| `Client_proofs!LocksAreFifo` | each lock the clients use goes through behaviours of `FifoLock` |
| `Client_proofs!TracesAreForClients`, `NoAccessUncovered` | `TraceForClient`, `AccessesCovered`, for rows of any number, and any batches |
| `Failover_proofs!RecoveryResets`, `RecoveryResetsWithRoom` | `ResetHolds`, with and without requests at the server |
| `Failover_proofs!ExclusionAcrossFailure`, `ClientsResumeFresh` | `MutualExclusion`, `ResumesFresh`, for any clients on any hosts, slots and attempts, given `SlowRecovery` |
| `Packets_proofs!GrantCorrectness` | `GrantIsOfRequest` |
| `Packets_proofs!TransactionAffinity`, `LockAffinity` | `OneLcorePerTxn`, `OneLcorePerLock` |
| `Packets_proofs!LatencyCorrectness` | `LatencyOfRequest` |
| `Host_proofs!QueuesOfTheirOwn` | `TxQueuesApart`, for any command line, lcores, ports and mask |
| `Host_proofs!RxQueuesSharedOut` | `EveryRxQueuePolled`, likewise |
| `Host_proofs!ClientsGivenOnce` | `ClientsApart`, for any command line that main does not stop on |
| `Host_proofs!ServerLengthsRight` | `ServerKnowsRings`, for any layouts |
| `Host_proofs!HostStartsUp` | the four above hold of a host that goes on to measure |
| `Host_proofs!TypeCorrectness` | types of the statistics |
| `Host_proofs!RatesOfTheirWindow` | `RatesInWindow`, for any number of lcores and any interleaving |
| `Host_proofs!ReportIsSound` | `ReportSound`, likewise, for the experiments of the console |
| `Host_proofs!TailsExist` | the percentiles of three samples and more are read inside the array, in order |

*Assumptions*: those named `ASSUME` in the modules. For `LockServer`: requests
are finitely many. For `NetLock` also: at least one slot, and registers wide
enough to count slots and requests. For `Packets`: locks and transactions fit
into the digits, and no client has the address of a server or of the switch. For `MicroClient`: a batch is no
longer than its trace has locks. For `TxnClient`: `TraceAssumption`, of which
`TracesAreForClients` proves all but that transactions are numbered from 1, that a
trace is not empty, and that it does not end with the transaction it begins with. For `Failover`: the hosts' clients are given by
functions, every request is exclusive. For `Startup`: an option main applies `atoi` to
has a number, and a layout file is a list of rows of numbers that names a lock once. For `Host`: a
host that measures was started by a command of `console.py`, which gives a task with
the benchmark and the memory management of its experiment. The theorems "with room"
assume `HasRoom` in addition: `FastRecirculation`, a slot for every request, and two
slots at least. Each of the three is needed: without the first a packet reads slots
that were overwritten, without the second `overflow_exclusion` and without the
third `one_slot` show what goes wrong. `SlowRecovery` is the guard `Drained` of
`RecoveryEnds`; `ExclusionAcrossFailure` and `ClientsResumeFresh` rest on it,
`RecoveryResets` does not. The first two are about `Spec`, where an ACQUIRE waits
at a full ring; `OverflowSpec`, where it goes to the server, is covered by
`RecoveryResets` alone.

*The lock server.* Exclusion alone is not inductive. Whether an arriving
request is granted depends on `num_ex` and `num_sh`; who is granted on a
release depends on the order of the queue; and a release takes away the head,
which may be another reader's entry. `QueueInv` connects the three. Its
conjuncts say that the counters count the queue (`CountersExact`); that as many
entries as there are holders lead the queue, all shared or just one
(`HoldersLead`); that the waiting requests follow, one entry each
(`WaitersFollow`); and that the first of them cannot be granted
(`NobodyWaitsInVain`). The last is what makes "grant only an exclusive head
when a reader left" sound: were a reader waiting behind readers, nobody would
grant it. The proof is by action: counting lemmas for the counters, and one
lemma for each way in which the split between holders and waiting requests can
move (`ArrivesAndWaits`, `ArrivesAndHolds`, `NextTakeOver`, `HolderLeaves`).

The refinement of `FifoLock` is a step simulation from the same invariant: the
waiting part of `queue` is `waiting`, and the lemmas `ReleaseSharedOrder`,
`ReleaseExclusiveOrder` and `ExclusiveTakesOver` say that what a release takes away
from it is its front, and goes to the holders.

*The switch.* `ServerLengthExact` is inductive with the type invariant: each
action moves a request along the path to the server and back, or adds or
removes it together with the register. `LengthFits` gives that it does not wrap.
`SharedSlotsCorrect` and `SharedNobodyStranded` take `Exclusive = {}`. Without
writers an ACQUIRE that gets a slot is granted at once, so that whoever waits is on
the path to the server, each once: `SharedInv`. From it the slots taken are
those of the holders, whatever the cursors do. That nobody is stranded needs
`Drains` as well: while the server path holds a request, a release is still to
come or already on its way, and the release that leaves no holder makes the
server push back.

For readers and writers in a ring with room the invariant is `RoomInv`. It speaks
of two things the switch does not store: `q`, all requests ever queued in order, and
`h`, how many of them were popped. The registers are functions of the two
(`RingHolds`, `RegistersCount`): slots are positions modulo the size of the ring, so
a slot keeps a popped request until the tail comes round. What is at the front of
`q` after `h` is a writer alone or all the readers up to the first writer
(`FrontEnds`), ending before position `w`. From `w` on, requests wait. At most one
recirculating packet notifies, and the positions `a .. b - 1` it is about to grant
wait too; by now others may have been popped past them, as a release pops the
head, which need not be the entry of the request released. Holders and `a .. b - 1`
together are as many as the front has left, and of its kind (`GrantsAre`): this
count is what connects popping at the head with granting somewhere behind it, and
gives exclusion. That a packet still finds what was queued at the positions it is
to read (`Reads`) is where `FastRecirculation` comes in (`TailIsApart`).

The refinement adds that `arrived` lists positions `a .. b - 1`, then those from `w`
on (`InLine`). An arrival appends to it or is granted at once, a release leaves it
alone (`SameLine`), and a notifying pass takes its first.

*The failure.* `ResetHolds` needs to know at each register write that the
registers written before still are as they were: that while `controller` is
between its first write and its last, `failure_status` is 1 (`MarkInv`), and that
each register keeps its value from its own write on (`ResetInv`). A step either
needs `failure_status = 0`, and then no reset is under way, or leaves the
registers alone; `WorkingStep` and `QuietStep` say just that.

Exclusion across the failure and `ResumesFresh` need to know who has a grant, and that
is spread over the switch, the network and two lcores. `RoomInv` has four layers.
*Probes* (`HeardInv`, `ActInv`): `failure_status` goes up once and down once, so the
replies under way to a host and what it heard last are a sequence that does the same,
and a client is in ROLLBACK or STOP only if its host heard of the failure
and not yet of its end. *Giving up* (`StopInv`): a client that stopped has sent
nothing in its new attempt, and counts nothing once its transmit lcore has turned.
*Holders* (`HolderInv`): at most one client has a grant, one only, on its way, let
through or counted, and if the client has not heard of a failure the grant is of its
current attempt. *The queue* (`QueueInv`, while `failure_status` is 0): the ring
holds the requests of the current attempts, but for one that is about to be released
at its head (`RingInv`, `EntryInv`, `TurnInv`); whoever has a grant, or a RELEASE on its
way, is at the head (`UseOf`); and a client has at most one RELEASE, then one ACQUIRE
under way (`PathOf`). A failed switch forwards all packets and resets its registers, so
this layer is lost when the failure begins; when it ends `Drained`, `StopInv` and
`ResetHolds` give an empty queue that nobody uses, where it holds again.

*The micro-benchmark client.* `BusyExact` says nothing of the RELEASEs under way, and
these decide who holds a lock. The invariant counts the stages of a request of
a client for a lock in three groups: asking (batch, on its way, waiting), holding
(grant on its way, think queue) and leaving (buffer, on its way). Asking and holding
together are one if the client is busy with the lock and none otherwise (`BusyInv`);
holding and leaving together are one if the client holds the lock and none otherwise
(`HoldInv`). A client may ask again while it leaves, so neither sum bounds the
other. Each action moves a request from one group to the next, or within one.

*The transaction client.* `CommitHoldsAll` counts grants, and nothing in a grant tells
of which attempt it is; `LocksAccounted` counts what is owed, but says nothing of
requests that are not granted yet. `TxnInv` follows a client's one request for a lock
through the places it may be at: on its way, on its way back, waiting, granted, or a
node of the transaction's list (`AtOnePlace`). Behind the ACQUIRE nothing was sent
(`NothingBehind`), and a RELEASE may still be under way before it, of something held
(`OnTheWay`), as the client commits and asks again without waiting for anything. What
is asked for, granted or noted is of the attempt under way, all of whose
ACQUIREs were sent (`InPlay`): so nodes are distinct entries of one
transaction, and when as many are counted as it has locks, they are all of them and
no answer is outstanding (`CompleteFacts`, `CompleteState`). What is held is owed:
its RELEASE, its grant, or a node behind the first `txn_s` (`Owing`, `Nodes`). `Place`
ties the ACQUIREs in the TX queue to the part of the trace handed over, which the first
entry of another transaction ends (`LastOfTransaction`). A commit or a retry sends
RELEASEs and, in the same burst, the ACQUIREs of the next transaction, if it has one
lock: `BurstOf` says what that does to the queue of each lock, and `NewAttempt` what it
leaves. The expiry sends RELEASEs only, and the rest of the attempt stays in
play (`ExpireOf`).

Two results follow that no run states. `TransactionsIsolated` is what the locks are for:
while a client does the work of a transaction, no other client is at work on one that
conflicts with it. It joins `CommitHoldsAll`, a fact about counts of the client, with
the exclusion of the locks. `LocksAreFifo` is the other half of the refinements of
`FifoLock` by the server and the switch: these say how a lock answers requests that
arrive once, from somebody who neither holds nor waits, and RELEASEs of holders only;
`LocksAreFifo` says that the clients send nothing else (`AcquireMaps`, from
`AtOnePlace` and `Owing`; `ReleaseMaps`, from `OnTheWay`).

*The traces.* A row is compared with the run of entries of its transaction
at the end of the arrays (`SameLock`), which finds every entry of the transaction only
if these are that run. The rows of a transaction follow each other, and entries
come from rows in their order (`FromRows`, `InOrder`): the entry of another
transaction in between would come from a row in between.

*The packets.* `GrantIsOfRequest` is about what clients have read, and says
nothing of packets on their way. The invariant says of every packet, by where it
is going (`ToSwitch`, `ToClient`, `ToServer`), and of every entry and node, that
lock, transaction, client, address and time are those of one request that was
sent; a RELEASE gives that up on all but its lock. Each way of making a packet
is a lemma, and an action adds packets made in one of those ways.

*The start-up.* The loop of `nc_init` gives lcore `i` port `i \div TxQueuesPerPort` and
queue `i % TxQueuesPerPort`, but computes neither. `AssignInv` ties the running
indices to the number of lcores done, `PortsInv` says the enabled ports differ,
and `QueueInv` gives back the lcore from its port and queue. That an RX queue is polled
once adds that an lcore which receives is given the `RxQueuesPerLcore` queues from
`RxQueuesPerLcore * tx` on (`RxInv`): the loop keeps `rx` in step with `tx` only while
lcores receive, and starts both anew at each port. The ranges of clients are computed in
bytes; `ClientsInv` says what is left of them when main neither stopped nor left its
arrays: a range that is not empty ends before `MaxClients`. So none has wrapped, as a share of
nothing does at the first lcore, where its end is -1, and then 255. That the shares which are left partition the clients is the
arithmetic of quotients (`SharesApart`). `TraceTells` gives back machine and client
from the name of a trace. For `ServerKnowsRings` the server looks a lock up by its
name and the controller by its row; they meet because the length of a ring is the
difference of two running sums over the rows (`RingOfRow`).

*The statistics.* `CoreWindow` compares four points of time for each lcore. The
invariant follows lcore 0: before its first pass reaches an lcore its snapshot is
of no matter, after it the snapshot lies between the marks, and the same again for
the second pass (`FirstPass`, `AfterFirst`, `SecondPass`, `AfterSecond`). The totals
are sums of a second read of each counter. In a pass the sum so far lies between the
sums, over the lcores passed, of the counters as they were when the pass began and as
they are now (`FirstSum`, `SecondSum`), and stays there while the counters grow
(`SumMonotone`). What is printed every second telescopes: all of it together is the
last sum printed, which counts no more than was counted by now. That the next is not
negative needs a point of time between them: the last sum is at most what was counted
when the print under way began, and this print finds at least that (`PrintInv`, with
the counters of that moment in `print_begins`). A host with more receive lcores than
lcores adds up nothing.

The report is collected while lcores go on writing and publishing samples, in
either order. `CollectInv` counts by value: what the report has of a latency is at
most what the lcores passed sampled of it and what was seen of this one, and its
length is at least what they had published when collecting began. An entry that was
published and not yet written is 0, which no latency is. Collecting stops at the
receive lcores; that the others have nothing is `SamplesInv`. Sorting moves the
entry after the first `i` to its place among them: `InsertKeeps` gives a
bijection of positions, from which the report keeps its entries, and the order
(`SortInv`). The names of files rest on the options: `ExperimentInv` says that
those still to be parsed or the variables have those of the experiment.

*Only model-checked.* Liveness (temporal reasoning under fairness is out of the
prover's reach, as is ENABLED). Rings that overflow with writers are the subject of an
expected violation, and of no theorem but `TypeCorrect` and `ServerLengthCorrect`.
The refinements are proved as step simulations, without the fairness of
`FifoLock`, which has none. Selecting from a sequence is defined by position (`SentTo` of
`TxnClient`), as the provers do not expand `SelectSeq`.

## Disagreements between code and documentation

Three runs check a sentence of the code's comments against the code, and TLC
finds it violated:

1. `overflow_exclusion`, `MutualExclusion`. A release that empties the switch queue
   while requests are at the server is forwarded without `update_head` and
   `update_lock` (`netlock.p4:250-255`), which leaves the head behind the oldest
   entry and the counters with the released request. Later releases look at wrong
   entries, and a writer is granted together with a reader, though `netlock.p4:234`
   says of a request that finds the lock taken "drop the packet if locked". In
   other orders a writer pushed back waits for a lock that nobody holds.
2. `one_slot`, `NoStrandedWaiter`. With one slot `size_of_queue` is 0
   (`right - left`), the default output of `inc_empty_slots_alu`; every release
   is taken for one that must be forwarded (`netlock.p4:264`: "If the switch
   queue is empty, get some back from the server queue").
3. `failure_notification`, `NotifiedQueuesEmpty`. On a FAILURE_NOTIFICATION the server
   should "empty the queues (init)" (`server.c:535`), but it empties those of
   `secondary_locks`, and a lock gets on that list only where reading a line of the
   layout file fails (`server.c:797-798`). What was buffered before the failure is
   still there.

Met while modelling, and excluded by the statement of a property (its comment
says so) or listed under `hazards`: `README.md:7` of the client and of the server
give commands with which the process divides by zero or writes outside its
arrays; fewer clients than transmit lcores do the same; server and controller
choose different layout files for some tasks; the result files of tasks `r` and `S`
have no name; the transaction rate of an lcore is counted from the start of the
process.

Of these no property is violated by what goes wrong, and the hazards say so: a
transmit lcore that writes STOP over NORMAL (`client.c:440`, `SlowRecovery`); ranges
of clients that wrap (`client.c:1335`, such a host ends as undefined); layout files
that differ and the uninitialised start (`server.c:751`); an exclusive access under a
shared lock without batches (`new_order.h:167`); a sample published before it is
written, reported as 0 (`client.c:899`).

The server also pushes back as many requests as the ring has slots for each
forwarded release, whatever is free: `shared` reaches states in which
`empty_slots` has wrapped below zero, and shows that for readers nothing else
goes wrong.

## What is not modelled

- Tenant thresholds: the meter reads the high output of an ALU that defines only the
  low one (`blackboxs.p4:340`), so what it does is up to the compiler. That any
  ACQUIRE may be rejected is modelled, in `TxnClient` and `Packets`.
- NetChain: one register, no client of it in the repository.
- The ASYNCHRONOUS micro-benchmark, which keeps no state about its requests,
  and several clients per transmit lcore, which the console does not start for
  transactions.
- A transaction with locks both of the switch and of a server across a failure: the
  server's lock stays held, as nothing in the code releases it.
- Loss of packets, and the bursts and buffer counts of the poll mode driver: no code
  recovers from loss outside the failure handling.
- `LinkedQueue`-level pointers: `dequeue` and `think_dequeue` read a node they have
  freed (`lock_queue.h:63-65`, `think_queue.c:46-48`); the models take the value it had.
- The controls nothing applies (`modify_bound`), parser and routing tables, trace
  generators, the console's ssh commands, scripts that read result files, and
  `simple_socket.c`, which is not built.

## Plan

Done: the lock queues of switch and server with their refinements, the clients,
traces, packets, failure and recovery, start-up and statistics; the proofs above.

What would add most, in this order:

1. Model rollback inside `TxnClient`, for transactions of several locks.
2. Compose the client with `LockServer` or `NetLock` in place of `FifoLock`'s promise:
   `LocksAreFifo` and the two refinements meet at `FifoLock`, but are theorems about
   different state spaces, and packets between the two are modelled once on each side.
3. State for `OverflowSpec` with writers what still holds of the queue, short of
   exclusion.
