------------------------------- MODULE MCAccess -------------------------------
(* Instances of Access for TLC: requests and administrators are interchangeable. *)
EXTENDS Access, TLC

CONSTANTS u1, u2, c1, c2

\* A role without permissions, and one that assigns roles.
Asked == {{}, {Code("users", "update")}}

Symmetry == Permutations(Users) \cup Permutations(Clients)
===============================================================================
