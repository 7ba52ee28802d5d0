--------------------------- MODULE MCAdminSessions ---------------------------
(* Instances of AdminSessions for TLC: requests and token pairs are interchangeable. *)
EXTENDS AdminSessions, TLC

CONSTANTS u1, p1, p2, p3, c1, c2

Symmetry == Permutations(Pairs) \cup Permutations(Clients)
===============================================================================
