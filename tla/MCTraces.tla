------------------------------ MODULE MCTraces ------------------------------
(* Small instances of Traces for TLC. *)
EXTENDS Traces

\* Objects 1 and 2 are in one batch.
Batches(o) == IF o = 3 THEN 2 ELSE 1
=============================================================================
