----------------------------- MODULE MCSettlement -----------------------------
(* Instances of Settlement for TLC. *)
EXTENDS Settlement, TLC

CONSTANTS c1, c2, c3, k1, k2

\* A payment, its retry, and a different request under the same key.
OneKey      == [c \in {c1, c2, c3} |-> k1]
ThreeHashes == (c1 :> "r1") @@ (c2 :> "r1") @@ (c3 :> "r2")

\* The payment and its retry are alike.
Symmetry == Permutations({c1, c2})

\* Two payments of different keys.
TwoKeys   == (c1 :> k1) @@ (c2 :> k2)
TwoHashes == [c \in {c1, c2} |-> "r1"]

\* One payment.
SoleKey  == c1 :> k1
SoleHash == c1 :> "r1"

\* The second payment is asked for when the request of the first is over; everything
\* else may come upon either at any time.
InTurn   == pc'[c2] # "new" => pc[c1] \in {"done", "lost"}
TurnSpec == Init /\ [][Next /\ InTurn]_vars /\ Fairness
===============================================================================
