---------------------------- MODULE MCTxnClient ----------------------------
(* Small instances of TxnClient for TLC. *)
EXTENDS TxnClient, TLC

CONSTANTS c1, c2, A, B

Write(t, l) == [txn |-> t, lock |-> l, exclusive |-> TRUE]
Read(t, l)  == [txn |-> t, lock |-> l, exclusive |-> FALSE]

\* Two clients that write A and B in opposite orders, then read one of them.
CrossingTrace ==
    c1 :> << Write(1, A), Write(1, B), Read(2, A) >> @@
    c2 :> << Write(1, B), Write(1, A), Read(2, A) >>
=============================================================================
