------------------------------ MODULE MCLifecycle ------------------------------
(* Instances of Lifecycle for TLC. *)
EXTENDS Lifecycle, TLC

CONSTANTS p1, p2, a1, a2
===============================================================================
