----------------------------- MODULE Statistics -----------------------------
(***************************************************************************)
(* What a host measures: its lcores count what they received, the receive  *)
(* lcores of a client sample latencies, and lcore 0 reads all of it, one   *)
(* variable after the other and without a lock, while the others go on     *)
(* (the loops of client.c and server.c, collect_results of collect.h).     *)
(*                                                                         *)
(* The counter is rx; the two passes treat tx, rx_read, rx_write and       *)
(* dropped like it. Time is counted in average_intervals.                  *)
(***************************************************************************)
EXTENDS Integers, Sequences, SequencesExt

CONSTANTS
    Latencies,      \* the latencies a sample may have
    ExitInterval,   \* average_intervals until the exit, 20 in the code
    MaxLocks,       \* bound: the locks of a transaction (locks_each_txn)
    MaxEvents,      \* bound: what is counted by all lcores, at the last step
    MaxReplies      \* bound: grants a receive lcore of a client gets

\* Set by the start-up and only read here; sampling: the host is a client.
VARIABLES n_lcores, n_rcv_cores, conf, latency_sample_interval, sampling

VARIABLES
    tput_stat,            \* of each lcore, its rx
    latency_num,          \* of each lcore, latency_stat_c[].num
    latency_samples,      \* the samples written, in order
    latency_sample_num,   \* their number as its lcore published it
    clock, next_update,
    task,                 \* what lcore 0 is at
    i,                    \* the loop index of task
    sum,                  \* total_rx of a pass
    tput_stat_avg, tput_stat_total,
    latency_sample_start, stop_statis,
    last_rx, rx_pers,     \* of print_per_core_throughput; rx_pers: all it printed
    print_begins,         \* history: tput_stat when it was called last
    latency_samples_together,
    files,                \* the names files and directories are opened under
    mark                  \* history: tput_stat at both ends of the two passes,
                          \* latency_sample_num when collecting begins

given == << n_lcores, n_rcv_cores, conf, latency_sample_interval, sampling >>
sampled == << latency_num, latency_samples, latency_sample_num >>
averages == << tput_stat_avg, tput_stat_total, latency_sample_start, stop_statis >>
printed == << next_update, last_rx, rx_pers, print_begins >>
results == << latency_samples_together, files >>
vars == << given, tput_stat, sampled, clock, task, i, sum, averages, printed,
           results, mark >>

LcoreIds == 0 .. (n_lcores - 1)
Zero == [lcore \in LcoreIds |-> 0]
Ends == {"start_begins", "start_ends", "end_begins", "end_ends", "collect_begins"}

\* The sum of f over the lcores from .. to - 1.
SumOver(f, from, to) ==
    LET s[n \in 0 .. to] == IF n <= from THEN 0 ELSE s[n - 1] + f[n - 1]
    IN  s[to]

\* custom_init clears the counters; the rest starts at 0 in the source.
Init ==
    /\ tput_stat = Zero /\ latency_num = Zero /\ latency_sample_num = Zero
    /\ latency_samples = [lcore \in LcoreIds |-> << >>]
    /\ clock = 0 /\ next_update = 0 /\ task = "loop" /\ i = 0 /\ sum = 0
    /\ tput_stat_avg = [lcore \in LcoreIds |-> [last |-> 0, now |-> 0]]
    /\ tput_stat_total = [last |-> 0, now |-> 0]
    /\ latency_sample_start = 0 /\ stop_statis = 0
    /\ last_rx = 0 /\ rx_pers = 0 /\ print_begins = Zero
    /\ latency_samples_together = << >> /\ files = {}
    /\ mark = [e \in Ends |-> Zero]

Running == task \notin {"exited", "crashed"}

-----------------------------------------------------------------------------
(* All lcores. lcore 0 has more to do, between its packets.                *)

MayReceive(lcore) == Running /\ (lcore = 0 => task = "loop")
Receives(lcore) == sampling => lcore < n_rcv_cores

IsTpcc == conf.benchmark \in {"t", "v"}

\* What a lcore adds to its rx at once: one of a server a packet, one of a client
\* that sends the locks of a TPC-C transaction it commits.
Increments(lcore) ==
    IF ~ sampling THEN {1}
    ELSE IF IsTpcc /\ ~ Receives(lcore) THEN 1 .. MaxLocks ELSE {}

Count(lcore) ==
    /\ MayReceive(lcore)
    /\ SumOver(tput_stat, 0, n_lcores) < MaxEvents
    /\ \E n \in Increments(lcore) : tput_stat' = [tput_stat EXCEPT ![lcore] = @ + n]
    /\ UNCHANGED << given, sampled, clock, task, i, sum, averages, printed,
                    results, mark >>

\* The two halves of taking a sample are plain stores, in an order of the
\* compiler's choice: one entry may be written but not published, or published
\* but not written.
Written(lcore) == Len(latency_samples[lcore])
Write(lcore, latency) ==
    /\ latency_samples' = [latency_samples EXCEPT ![lcore] = Append(@, latency)]
    /\ UNCHANGED latency_sample_num
Publish(lcore) ==
    /\ latency_sample_num' = [latency_sample_num EXCEPT ![lcore] = @ + 1]
    /\ UNCHANGED latency_samples

\* A grant arrives at a receive lcore of a client.
ReceiveGrant(lcore, latency) ==
    /\ MayReceive(lcore) /\ sampling /\ Receives(lcore)
    /\ Written(lcore) = latency_sample_num[lcore] /\ latency_num[lcore] < MaxReplies
    /\ latency_num' = [latency_num EXCEPT ![lcore] = @ + 1]
    /\ IF latency_sample_start = 1 /\ latency_num'[lcore] % latency_sample_interval = 0
       THEN Write(lcore, latency) \/ Publish(lcore)
       ELSE UNCHANGED << latency_samples, latency_sample_num >>
    /\ tput_stat' = IF IsTpcc THEN tput_stat
                              ELSE [tput_stat EXCEPT ![lcore] = @ + 1]
    /\ UNCHANGED << given, clock, task, i, sum, averages, printed, results, mark >>

FinishSample(lcore, latency) ==
    /\ Running
    /\ \/ Written(lcore) < latency_sample_num[lcore] /\ Write(lcore, latency)
       \/ Written(lcore) > latency_sample_num[lcore] /\ Publish(lcore)
    /\ UNCHANGED << given, tput_stat, latency_num, clock, task, i, sum, averages,
                    printed, results, mark >>

\* Nobody but lcore 0 reads the clock, and only between its passes.
Tick ==
    /\ task = "loop" /\ clock < ExitInterval
    /\ clock' = clock + 1
    /\ UNCHANGED << given, tput_stat, sampled, task, i, sum, averages, printed,
                    results, mark >>

-----------------------------------------------------------------------------
(* lcore 0. A pass over the lcores is a loop of its own.                   *)

\* lcore 0 finishes a sample of its own before it does anything else.
Idle == task = "loop" /\ Written(0) = latency_sample_num[0]

\* Slip: the sum of the pass before is still there.
PassWithoutReset(name) == task' = name /\ i' = 0 /\ UNCHANGED sum

Pass(name) == task' = name /\ i' = 0 /\ sum' = 0

\* print_per_core_throughput adds up the rx of the lcores from n_rcv_cores on.
PrintBegin ==
    /\ Idle /\ clock > next_update
    /\ next_update' = next_update + 1
    /\ task' = "print" /\ i' = n_rcv_cores /\ sum' = 0
    /\ print_begins' = tput_stat
    /\ UNCHANGED << given, tput_stat, sampled, clock, averages, last_rx, rx_pers,
                    results, mark >>

PrintRate ==
    rx_pers' = rx_pers + (sum - last_rx) /\ last_rx' = sum

PrintLcore ==
    /\ task = "print"
    /\ IF i < n_lcores
       THEN /\ sum' = sum + tput_stat[i]
            /\ i' = i + 1
            /\ UNCHANGED << task, last_rx, rx_pers >>
       ELSE PrintRate /\ Pass("loop")
    /\ UNCHANGED << given, tput_stat, sampled, clock, averages, next_update,
                    print_begins, results, mark >>

\* In a round of the loop what is printed every second comes first.
Printed == Idle /\ clock <= next_update

\* The pass after the first interval, once: it sets average_start_tsc to 0,
\* which latency_sample_start stands for.
StartBegin ==
    /\ Printed /\ clock >= 1 /\ latency_sample_start = 0
    /\ Pass("start")
    /\ mark' = [mark EXCEPT !["start_begins"] = tput_stat]
    /\ UNCHANGED << given, tput_stat, sampled, clock, averages, printed, results >>

\* Of txn the code stores this reading where the second pass stores its own; this
\* counter does not stand for txn.
Snapshot == tput_stat_avg' = [tput_stat_avg EXCEPT ![i].last = tput_stat[i]]

\* A pass reads a counter twice, for tput_stat_avg and for the total.
StartLcore ==
    /\ task = "start" /\ i < n_lcores
    /\ Snapshot
    /\ task' = "start_total"
    /\ UNCHANGED << given, tput_stat, sampled, clock, i, sum, tput_stat_total,
                    latency_sample_start, stop_statis, printed, results, mark >>

AddToTotal ==
    /\ \/ task = "start_total" /\ task' = "start"
       \/ task = "end_total"   /\ task' = "end"
    /\ sum' = sum + tput_stat[i] /\ i' = i + 1
    /\ UNCHANGED << given, tput_stat, sampled, clock, averages, printed, results,
                    mark >>

\* Slip: the window is not opened, and the first pass comes again.
NotOpened == UNCHANGED latency_sample_start

Opens == latency_sample_start' = 1

StartEnd ==
    /\ task = "start" /\ i = n_lcores
    /\ tput_stat_total' = [tput_stat_total EXCEPT !.last = sum]
    /\ Opens
    /\ Pass("loop")
    /\ mark' = [mark EXCEPT !["start_ends"] = tput_stat]
    /\ UNCHANGED << given, tput_stat, sampled, clock, tput_stat_avg, stop_statis,
                    printed, results >>

\* The pass after the second interval, once.
EndBegin ==
    /\ Printed /\ clock >= 2 /\ latency_sample_start = 1 /\ stop_statis = 0
    /\ Pass("end")
    /\ mark' = [mark EXCEPT !["end_begins"] = tput_stat]
    /\ UNCHANGED << given, tput_stat, sampled, clock, averages, printed, results >>

\* The rates are printed at once, divided by average_interval.
EndLcore ==
    /\ task = "end" /\ i < n_lcores
    /\ tput_stat_avg' = [tput_stat_avg EXCEPT ![i].now = tput_stat[i]]
    /\ task' = IF conf.average_interval = 0 THEN "crashed" ELSE "end_total"
    /\ UNCHANGED << given, tput_stat, sampled, clock, i, sum, tput_stat_total,
                    latency_sample_start, stop_statis, printed, results, mark >>

EndEnd ==
    /\ task = "end" /\ i = n_lcores
    /\ tput_stat_total' = [tput_stat_total EXCEPT !.now = sum]
    /\ task' = "collect" /\ i' = 0 /\ sum' = 0
    /\ mark' = [mark EXCEPT !["end_ends"] = tput_stat,
                            !["collect_begins"] = latency_sample_num]
    /\ UNCHANGED << given, tput_stat, sampled, clock, tput_stat_avg,
                    latency_sample_start, stop_statis, printed, results >>

-----------------------------------------------------------------------------
(* collect_results. In the loop over receive lcores sum is lc, i is i.     *)

\* What an entry of latency_samples holds, 0 while nothing was written to it.
Entry(lcore, n) ==
    IF n < Written(lcore) THEN latency_samples[lcore][n + 1] ELSE 0

\* A server counts n_rcv_cores too, whose entries are empty.
Published(lcore) == IF lcore < n_lcores THEN latency_sample_num[lcore] ELSE 0

CollectSample ==
    /\ task = "collect" /\ sum < n_rcv_cores
    /\ IF i < Published(sum)
       THEN /\ latency_samples_together' =
                  Append(latency_samples_together, Entry(sum, i))
            /\ i' = i + 1 /\ UNCHANGED sum
       ELSE sum' = sum + 1 /\ i' = 0 /\ UNCHANGED latency_samples_together
    /\ UNCHANGED << given, tput_stat, sampled, clock, task, averages, printed,
                    files, mark >>

CollectEnd ==
    /\ task = "collect" /\ sum >= n_rcv_cores
    /\ Pass("sort")
    /\ UNCHANGED << given, tput_stat, sampled, clock, averages, printed, results,
                    mark >>

\* Where the while loop of the insertion sort stops: all entries between place
\* and n are greater than lat, the one before is not.
Place(s, n, lat) ==
    CHOOSE place \in 1 .. n :
        /\ \A m \in place .. (n - 1) : s[m] > lat
        /\ place > 1 => s[place - 1] <= lat

\* Slip: an entry is moved behind the smaller ones only.
InsertUnshifted(s, n) == [s EXCEPT ![Place(s, n, s[n])] = s[n]]

\* s with its n-th entry moved to its place among those before it.
Insert(s, n) ==
    [m \in DOMAIN s |-> IF m < Place(s, n, s[n]) \/ m > n THEN s[m]
                        ELSE IF m = Place(s, n, s[n]) THEN s[n]
                        ELSE s[m - 1]]

SortSample ==
    /\ task = "sort" /\ i < Len(latency_samples_together)
    /\ latency_samples_together' = Insert(latency_samples_together, i + 1)
    /\ i' = i + 1
    /\ UNCHANGED << given, tput_stat, sampled, clock, task, sum, averages, printed,
                    files, mark >>

\* The names printed for a task, and the names then used.
AllNames == {"dirname_1", "dirname_2", "dirname_3", "filename_res",
             "filename_lt", "filename_txn_lt"}

Named ==
    CASE conf.task_id \in {"s", "x", "c"} -> AllNames \ {"filename_txn_lt"}
      [] conf.task_id = "m" ->
             AllNames \ (IF conf.memory_management \in {"b", "w"} THEN {}
                         ELSE {"dirname_2", "dirname_3"})
      [] conf.task_id = "S" ->
             AllNames \ ({"filename_txn_lt"}
                         \cup (IF conf.benchmark \in {"z", "u", "v"} THEN {}
                               ELSE {"dirname_2", "dirname_3"}))
      [] conf.task_id \in {"t", "p", "q", "g", "f", "e", "2", "3"} -> AllNames
      [] OTHER -> {}

Opened ==
    IF conf.task_id \in {"p", "q"} \/ IsTpcc
    THEN AllNames ELSE AllNames \ {"filename_txn_lt"}

\* The entries reported as the median and as a tail, in thousandths.
MedianIndex(len) == len \div 2
TailIndex(len, thousandths) == (len * thousandths) \div 1000 - 1

WrittenOnce == files' = Opened /\ stop_statis' = 1

WriteResults ==
    /\ task = "sort" /\ i >= Len(latency_samples_together)
    /\ WrittenOnce
    /\ Pass("loop")
    /\ UNCHANGED << given, tput_stat, sampled, clock, tput_stat_avg,
                    tput_stat_total, latency_sample_start, printed,
                    latency_samples_together, mark >>

Exit ==
    /\ Printed /\ clock >= ExitInterval /\ stop_statis = 1
    /\ task' = "exited"
    /\ UNCHANGED << given, tput_stat, sampled, clock, i, sum, averages, printed,
                    results, mark >>

Lcore0 ==
    \/ PrintBegin \/ PrintLcore
    \/ StartBegin \/ StartLcore \/ AddToTotal \/ StartEnd
    \/ EndBegin \/ EndLcore \/ EndEnd
    \/ CollectSample \/ CollectEnd \/ SortSample \/ WriteResults \/ Exit

Next ==
    \/ \E lcore \in LcoreIds : Count(lcore)
    \/ \E lcore \in LcoreIds, latency \in Latencies :
           ReceiveGrant(lcore, latency) \/ FinishSample(lcore, latency)
    \/ Tick \/ Lcore0

Spec == Init /\ [][Next]_vars

-----------------------------------------------------------------------------
Collected == task \in {"collect", "sort", "exited"} \/ stop_statis = 1

\* The type invariant of the statistics.
TypeOK ==
    /\ tput_stat \in [LcoreIds -> Nat]
    /\ latency_sample_num \in [LcoreIds -> Nat]
    /\ task \in {"loop", "print", "start", "start_total", "end", "end_total",
                 "collect", "sort", "exited", "crashed"}
    /\ i \in Nat /\ sum \in Nat /\ clock \in 0 .. ExitInterval
    /\ tput_stat_avg \in [LcoreIds -> [last : Nat, now : Nat]]
    /\ mark \in [Ends -> [LcoreIds -> Nat]]

\* What is reported for a lcore is at least what it counted between the two
\* passes and at most what it counted from the begin of the first to the end of
\* the second.
CoreWindow ==
    Collected =>
        \A lcore \in LcoreIds :
            LET rate == tput_stat_avg[lcore].now - tput_stat_avg[lcore].last
            IN  /\ mark["end_begins"][lcore] - mark["start_ends"][lcore] <= rate
                /\ rate <= mark["end_ends"][lcore] - mark["start_begins"][lcore]

\* The same of the totals, which other reads of the counters went into.
TotalWindow ==
    LET Total(e) == SumOver(mark[e], 0, n_lcores)
        rate == tput_stat_total.now - tput_stat_total.last
    IN  Collected => /\ Total("end_begins") - Total("start_ends") <= rate
                     /\ rate <= Total("end_ends") - Total("start_begins")

\* The rates printed every second are never negative (they are unsigned), and add
\* up to no less than was counted when the last was begun and no more than is now,
\* though every counter is read at a time of its own.
PrintedRatesAddUp ==
    LET Total(counters) == SumOver(counters, n_rcv_cores, n_lcores)
    IN  /\ rx_pers <= Total(tput_stat)
        /\ task # "print" => Total(print_begins) <= rx_pers
        /\ task = "print" /\ i >= n_lcores => last_rx <= sum

Occurrences(s, x) == Cardinality({n \in DOMAIN s : s[n] = x})

\* The report has the samples in order, none of them twice, and misses none
\* that was published when collecting began.
SamplesReported ==
    stop_statis = 1 =>
        /\ \A m, n \in DOMAIN latency_samples_together :
              m < n => latency_samples_together[m] <= latency_samples_together[n]
        /\ \A x \in Latencies :
              Occurrences(latency_samples_together, x) <=
                  SumOver([lcore \in LcoreIds |-> Occurrences(latency_samples[lcore], x)],
                          0, n_lcores)
        /\ Len(latency_samples_together) >= SumOver(mark["collect_begins"], 0, n_lcores)

\* Of three samples or more the entries reported as median, 99% and 99.9% exist
\* and are in that order.
TailsOrdered ==
    LET len == Len(latency_samples_together)
    IN  files # {} /\ len >= 3 =>
            /\ 0 <= MedianIndex(len) /\ MedianIndex(len) <= TailIndex(len, 990)
            /\ TailIndex(len, 990) <= TailIndex(len, 999) /\ TailIndex(len, 999) < len

\* Files are opened under names that were printed, in the tasks of console.py
\* but "r", which has no branch, and "S", which prints no filename_txn_lt.
FilesNamed == conf.task_id \notin {"r", "S"} => files \subseteq Named
=============================================================================
