--------------------------- MODULE MCProviderHealth ---------------------------
(* Instances of ProviderHealth for TLC. *)
EXTENDS ProviderHealth, TLC

CONSTANTS h, r1, r2, r3
===============================================================================
