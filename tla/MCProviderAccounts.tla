-------------------------- MODULE MCProviderAccounts --------------------------
(* Instances of ProviderAccounts for TLC: administrators are interchangeable. *)
EXTENDS ProviderAccounts, TLC

CONSTANTS a1, a2

Symmetry == Permutations(Admins)
===============================================================================
