----------------------------- MODULE MCNetLock -----------------------------
(* Small instances of NetLock for TLC. *)
EXTENDS NetLock, TLC

CONSTANTS s1, s2, s3, x1, x2

Shared == Requests \ Exclusive
Alike  == Permutations(Exclusive) \cup Permutations(Shared)
=============================================================================
