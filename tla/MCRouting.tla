------------------------------- MODULE MCRouting -------------------------------
(* Instances of Routing for TLC. *)
EXTENDS Routing, TLC

CONSTANTS a1, a2

\* Two accounts for one lane, the first of them for another as well.
ThreeOffers == {<<1, a1>>, <<1, a2>>, <<2, a1>>}
===============================================================================
