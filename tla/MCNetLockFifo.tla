----------------------------- MODULE MCNetLockFifo -----------------------------
(* Small instances of NetLockFifo for TLC. *)
EXTENDS NetLockFifo, TLC

CONSTANTS s1, s2, s3, x1, x2

Shared == Requests \ Exclusive
Alike  == Permutations(Exclusive) \cup Permutations(Shared)
=============================================================================
