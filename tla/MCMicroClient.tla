--------------------------- MODULE MCMicroClient ---------------------------
(* Small instances of MicroClient for TLC. *)
EXTENDS MicroClient, TLC

CONSTANTS c1, c2, A, B

SharedLocks == c1 :> << A, B >> @@ c2 :> << B, A >>
Batches     == c1 :> 2 @@ c2 :> 1
=============================================================================
