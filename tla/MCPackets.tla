------------------------------ MODULE MCPackets ------------------------------
(* Small instances of Packets for TLC. *)
EXTENDS Packets

Request(host, cid, tid, lock, mode) ==
    [host |-> << 1, host >>, cid |-> cid, tid |-> tid, lock |-> lock, mode |-> mode]

\* A transaction of host 1 with two locks, both of which host 2 wants as well.
MCRequests ==
    {Request(1, 0, 1, 3, "shared"), Request(1, 0, 1, 6, "exclusive"),
     Request(2, 1, 6, 3, "shared"), Request(2, 1, 6, 6, "exclusive")}
=============================================================================
