----------------------------- MODULE MCFailover -----------------------------
(* Two clients on hosts of their own, for TLC. *)
EXTENDS Failover, TLC

CONSTANTS c1, c2, h1, h2

MCMaxAttempts == c1 :> 2 @@ c2 :> 1
MCRequests == {<< c1, 1 >>, << c1, 2 >>, << c2, 1 >>}
MCHostOf   == c1 :> h1 @@ c2 :> h2
MCFirstOf  == h1 :> c1 @@ h2 :> c2
=============================================================================
