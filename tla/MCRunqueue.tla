------------------------------ MODULE MCRunqueue ------------------------------
(* Runqueue for TLC: small sets of tasks, with and without timeouts.       *)
EXTENDS Runqueue

CONSTANTS t1, t2, t3
=============================================================================
