-------------------------------- MODULE Charges --------------------------------
(***************************************************************************)
(* The fees of a payment (domain/charges.go): a flat amount, or basis      *)
(* points of the amount, rounded half up in integers of a fixed width that *)
(* would not hold the whole amount times the rate.                         *)
(***************************************************************************)
EXTENDS Integers

CONSTANTS
  Scale,   \* basisPointScale: how many basis points are the whole (10 000)
  MaxInt   \* the largest integer (2^63 - 1)

\* The scale is even, and small enough that a remainder times a rate fits.
ASSUME ChargesAssumption ==
  /\ Scale \in Nat \ {0} /\ MaxInt \in Nat
  /\ Scale % 2 = 0
  /\ Scale * Scale + Scale <= MaxInt

\* What a result that does not fit becomes.
Int64(x) == IF x \in -MaxInt - 1 .. MaxInt THEN x
          ELSE ((x + MaxInt + 1) % (2 * (MaxInt + 1))) - (MaxInt + 1)

Half == Scale \div 2

\* As a payload may have it: a type left out is filled in by Normalize.
Normalize(rule) == IF rule.type = "" THEN [rule EXCEPT !.type = "flat"] ELSE rule

Valid(rule) == /\ rule.value >= 0
               /\ rule.type = "flat" \/ (rule.type = "percentage" /\ rule.value <= Scale)

Rule(schedule, service) ==
  IF service = "disbursement" THEN schedule.disbursement ELSE schedule.collection

\* The quotient and the remainder by the scale, each times the rate.
AllAtOnce(value, amount) ==   \* (bug) the whole amount times the rate
  Int64(Int64(amount * value) + Half) \div Scale
Portion(value, amount) ==
  Int64(Int64((amount \div Scale) * value)
      + Int64(Int64((amount % Scale) * value) + Half) \div Scale)

\* A negative amount or an invalid rule is refused.
Calculate(rule, amount) ==
  IF amount < 0 \/ ~Valid(rule) THEN {}
  ELSE IF rule.type = "flat" THEN {rule.value}
  ELSE {Portion(rule.value, amount)}

calculateCharge(schedule, service, amount) ==
  Calculate(Normalize(Rule(schedule, service)), amount)

-------------------------------------------------------------------------------

\* fee is value basis points of amount, rounded to the nearest and halves up.
RoundsHalfUp(fee, value, amount) ==
  /\ fee * Scale <= amount * value + Half
  /\ amount * value + Half < (fee + 1) * Scale

\* For every valid rate and every amount the integers hold, the fee is the exact one, and
\* no more than the amount.
FeesExact ==
  \A amount \in 0 .. MaxInt, value \in 0 .. Scale :
    \A fee \in calculateCharge([collection |-> [type |-> "percentage", value |-> value],
                                disbursement |-> [type |-> "", value |-> 0]],
                               "collection", amount) :
      RoundsHalfUp(fee, value, amount) /\ fee \in 0 .. amount
===============================================================================
