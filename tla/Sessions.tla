------------------------------- MODULE Sessions -------------------------------
(***************************************************************************)
(* What the two tables of token sessions promise, whoever the holder is: a *)
(* token pair authorizes from the moment it is issued until it is          *)
(* exchanged for one other or ended, and never again; nobody exchanges it  *)
(* twice.                                                                  *)
(***************************************************************************)
CONSTANTS
  Pairs,   \* an access token and the refresh token signed with it
  None     \* no pair

VARIABLES
  live,      \* pairs that authorize
  ended,     \* pairs that no longer do, or never came to
  successor  \* the pair each was exchanged for

pairVars == <<live, ended, successor>>

Fresh(p) == p \in Pairs \ (live \cup ended)

Issue(p) ==
  /\ Fresh(p)
  /\ live' = live \cup {p}
  /\ UNCHANGED <<ended, successor>>

\* A refresh: the old pair ends in the step that makes the new one live.
Exchange(p, q) ==
  /\ p \in live /\ Fresh(q)
  /\ live' = (live \ {p}) \cup {q}
  /\ ended' = ended \cup {p}
  /\ successor' = [successor EXCEPT ![p] = q]

\* A refresh of a pair that ended while it was under way: the new one is born ended.
ExchangeLate(p, q) ==
  /\ p \in ended /\ successor[p] = None /\ Fresh(q)
  /\ ended' = ended \cup {q}
  /\ successor' = [successor EXCEPT ![p] = q]
  /\ UNCHANGED live

\* A logout, a revocation, a clean-up: some pairs, or none, end for good.
Finish ==
  /\ UNCHANGED successor
  /\ live' \subseteq live
  /\ ended' = ended \cup (live \ live')

Init ==
  /\ live = {} /\ ended = {}
  /\ successor = [p \in Pairs |-> None]

Next ==
  \/ Finish
  \/ \E p \in Pairs : Issue(p)
  \/ \E p, q \in Pairs : Exchange(p, q) \/ ExchangeLate(p, q)

Spec == Init /\ [][Next]_pairVars

-------------------------------------------------------------------------------

\* What that comes to.  A pair is the exchange of one other at most, which has ended, so
\* that a stolen refresh token and its owner's lead to one line of pairs.
OneLine ==
  /\ live \cap ended = {}
  /\ \A p \in Pairs : successor[p] # None => p \in ended /\ successor[p] \in live \cup ended
  /\ \A p, q \in Pairs : successor[p] = successor[q] /\ successor[p] # None => p = q

\* What has ended stays so, and is not exchanged again.
EndedForGood ==
  [][/\ ended \subseteq ended'
     /\ \A p \in Pairs : successor[p] # None => successor'[p] = successor[p]]_pairVars
===============================================================================
