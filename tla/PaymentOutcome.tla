---------------------------- MODULE PaymentOutcome ----------------------------
(***************************************************************************)
(* What Momobase promises its client about a payment: under one            *)
(* idempotency key at most one payment is opened and paid, it is settled   *)
(* once, with the outcome its provider decided, and that is published at   *)
(* most once, afterwards.                                                  *)
(***************************************************************************)
EXTENDS Naturals

CONSTANTS Payments, KeyOf, Outcomes

VARIABLES
  book,      \* the payment as Momobase reports it
  provider,  \* the payment as its provider knows it
  published  \* how often its settlement was published

vars == <<book, provider, published>>

Init ==
  /\ book = [p \in Payments |-> "none"]
  /\ provider = [p \in Payments |-> "none"]
  /\ published = [p \in Payments |-> 0]

Open(p) ==
  /\ \A q \in Payments : KeyOf[q] = KeyOf[p] => book[q] = "none"
  /\ book' = [book EXCEPT ![p] = "open"]
  /\ UNCHANGED <<provider, published>>

Pay(p) ==
  /\ book[p] = "open"
  /\ provider[p] = "none"
  /\ provider' = [provider EXCEPT ![p] = "processing"]
  /\ UNCHANGED <<book, published>>

Decide(p) ==
  /\ provider[p] = "processing"
  /\ \E o \in Outcomes : provider' = [provider EXCEPT ![p] = o]
  /\ UNCHANGED <<book, published>>

Settle(p) ==
  /\ book[p] = "open"
  /\ provider[p] \in Outcomes
  /\ book' = [book EXCEPT ![p] = provider[p]]
  /\ UNCHANGED <<provider, published>>

Publish(p) ==
  /\ book[p] \in Outcomes
  /\ published[p] = 0
  /\ published' = [published EXCEPT ![p] = 1]
  /\ UNCHANGED <<book, provider>>

Next == \E p \in Payments :
          Open(p) \/ Pay(p) \/ Decide(p) \/ Settle(p) \/ Publish(p)

Spec == Init /\ [][Next]_vars
===============================================================================
