---------------------------- MODULE MCLockServer ----------------------------
(* Small instances of LockServer and LockServerFifo for TLC. *)
EXTENDS LockServerFifo, TLC

CONSTANTS s1, s2, s3, x1, x2
=============================================================================
