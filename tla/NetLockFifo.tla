---------------------------- MODULE NetLockFifo ----------------------------
(***************************************************************************)
(* The switch and its buffering server as an implementation of FifoLock.   *)
(***************************************************************************)
EXTENDS NetLock

VARIABLE arrived  \* history: the waiting requests, in order of arrival

fifoLockVars == << vars, arrived >>

NewlyWaiting ==
    {r \in Requests : status[r] # "waiting" /\ status'[r] = "waiting"}

\* The places in line of requests that no longer wait.
Served == {i \in DOMAIN arrived : status'[arrived[i]] # "waiting"}

WithoutPlace(i) ==
    SubSeq(arrived, 1, i - 1) \o SubSeq(arrived, i + 1, Len(arrived))

\* No step makes two requests wait, or serves two.
RecordArrival ==
    \/ \E r \in NewlyWaiting : arrived' = Append(arrived, r)
    \/ \E i \in Served : arrived' = WithoutPlace(i)
    \/ NewlyWaiting = {} /\ Served = {} /\ UNCHANGED arrived

SpecWithArrivals ==
    /\ Init /\ arrived = << >>
    /\ [][Next /\ RecordArrival]_fifoLockVars

FairSpecWithArrivals == SpecWithArrivals /\ Fairness

Fifo == INSTANCE FifoLock WITH holders <- Held, waiting <- arrived

\* As long as the switch queue has room for every request, it grants the lock
\* as FifoLock does: exclusively, and never past an older conflicting request,
\* though release passes, recirculated passes and arrivals interleave.
ImplementsFifoLock == Fifo!Spec
=============================================================================
