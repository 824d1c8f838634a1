-------------------------------- MODULE Host --------------------------------
(***************************************************************************)
(* A host from its command line to its results: the start-up, and then the *)
(* measurements with the lcores and the options the start-up left behind.  *)
(***************************************************************************)
EXTENDS Startup

CONSTANTS
    Latencies, ExitInterval, MaxLocks, MaxEvents, MaxReplies,   \* see Statistics
    Measured    \* bound: the hosts whose measurements are looked at

VARIABLES
    tput_stat, latency_num, latency_samples, latency_sample_num, clock,
    next_update, task, i, sum, tput_stat_avg, tput_stat_total,
    latency_sample_start, stop_statis, last_rx, rx_pers,
    print_begins, latency_samples_together, files, mark

\* Only a client samples latencies.
sampling == host.program = "client"

ASSUME LatenciesAssumption == Latencies \subseteq Nat \ {0}
ASSUME StatisticsBounds ==
    /\ ExitInterval \in Nat /\ ExitInterval > 2
    /\ MaxLocks \in Nat /\ MaxEvents \in Nat /\ MaxReplies \in Nat

\* The tasks of console.py, each in a command with its benchmark and its memory
\* management: s, x, c for locks only, and m for two ways to lay out the queues.
ConsoleTasks == {"s", "x", "c", "m", "S", "t", "p", "q", "g", "f", "e", "r"}
ASSUME MeasuredAssumption ==
    \A h \in Measured :
        LET Given(opt) == {n \in DOMAIN h.argv : h.argv[n].opt = opt}
        IN  /\ Given("a") # {} /\ Given("o") # {}
            /\ \A n \in Given("a") : h.argv[n].arg \in ConsoleTasks
            /\ \A n \in Given("o") : h.argv[n].arg \in {"b", "w"}
            /\ \A n \in Given("a"), m \in Given("b") :
                  h.argv[n].arg \in {"s", "x", "c"} => h.argv[m].arg \notin {"t", "v"}

Stats == INSTANCE Statistics

statsVars ==
    << tput_stat, latency_num, latency_samples, latency_sample_num, clock,
       next_update, task, i, sum, tput_stat_avg, tput_stat_total,
       latency_sample_start, stop_statis, last_rx, rx_pers,
       print_begins, latency_samples_together, files, mark >>
hostVars == << vars, statsVars >>

HostInit == Init /\ Stats!Init

Start == Next /\ UNCHANGED statsVars

MayMeasure == pc = "running" /\ host \in Measured /\ UNCHANGED vars

Measure == MayMeasure /\ Stats!Next

HostNext == Start \/ Measure

HostSpec == HostInit /\ [][HostNext]_hostVars

\* What lcore 0 does by itself.
Lcore0 == Stats!Lcore0 \/ \E latency \in Latencies : Stats!FinishSample(0, latency)

\* The loops never block: lcore 0 goes on polling, and time passes.
HostFairSpec ==
    /\ HostSpec
    /\ WF_hostVars(Start)
    /\ WF_hostVars(MayMeasure /\ Stats!Tick)
    /\ WF_hostVars(MayMeasure /\ Lcore0)

-----------------------------------------------------------------------------
\* What a host reports as its rates was counted in the time it is reported for,
\* lcore by lcore and in total; what it prints every second misses nothing that was
\* counted before its last print.
RatesInWindow == Stats!CoreWindow /\ Stats!TotalWindow /\ Stats!PrintedRatesAddUp

\* The report of the latencies has all samples in order, its percentiles lie among
\* them, and its files have names.
ReportSound == Stats!SamplesReported /\ Stats!TailsOrdered /\ Stats!FilesNamed

\* A host runs or gives up, whatever its links do; one that got to its loops
\* writes its results and exits, unless it divides by an average_interval of 0.
EveryHostEnds ==
    /\ <>(pc \in Final)
    /\ (pc = "running" /\ host \in Measured) ~>
          \/ task = "exited" /\ files # {}
          \/ task = "crashed" /\ conf.average_interval = 0
=============================================================================
