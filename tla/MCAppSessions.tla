---------------------------- MODULE MCAppSessions ----------------------------
(* Instances of AppSessions for TLC: requests and token pairs are interchangeable. *)
EXTENDS AppSessions, TLC

CONSTANTS a1, k1, k2, p1, p2, p3, c1, c2

\* Every credential is of one application.
OneApp == [k \in Creds |-> a1]

Symmetry == Permutations(Pairs) \cup Permutations(Clients)
===============================================================================
