------------------------------- MODULE TxStatus -------------------------------
(***************************************************************************)
(* The payment status graph every settle path writes through: the statuses *)
(* of internal/domain/constants.go, Transaction.Transition and Terminal of *)
(* internal/domain/state_machine.go, and the normalisation of a provider's *)
(* vocabulary, providers.PaymentStatus.                                    *)
(***************************************************************************)

TxPending    == "pending"
TxProcessing == "processing"
TxUnknown    == "unknown"

TerminalStatuses == {"succeeded", "failed", "expired", "cancelled"}
OpenStatuses     == {TxPending, TxProcessing, TxUnknown}
Statuses         == OpenStatuses \cup TerminalStatuses

\* domain.Terminal: a status that admits no further transition.
Terminal(status) == status \in TerminalStatuses

\* Transaction.Transition returns nil exactly for these moves.  A move to the
\* current status is accepted and changes nothing; pending is never re-entered.
CanTransition(current, next) ==
  \/ current = next
  \/ /\ current = TxPending
     /\ next = TxProcessing \/ next = TxUnknown \/ Terminal(next)
  \/ /\ current = TxProcessing
     /\ next = TxUnknown \/ Terminal(next)
  \/ /\ current = TxUnknown
     /\ next = TxProcessing \/ Terminal(next)

-------------------------------------------------------------------------------

\* The words of PaymentStatus's switch, in the upper case it compares them in.
\* "" is the absent status; OtherWord stands for every word it does not list.
SucceededWords  == {"SUCCESS", "SUCCESSFUL", "SUCCEEDED", "COMPLETED", "200"}
FailedWords     == {"FAILED", "FAILURE", "DECLINED"}
ProcessingWords == {"PENDING", "IN_PROGRESS", "PROCESSING", ""}
CancelledWords  == {"CANCELLED", "CANCELED"}
ExpiredWords    == {"EXPIRED", "TIMEOUT", "TIMED_OUT"}
OtherWord       == "UNKNOWN"

Words == SucceededWords \cup FailedWords \cup ProcessingWords
           \cup CancelledWords \cup ExpiredWords \cup {OtherWord}

\* providers.PaymentStatus: a word in no list, blank excepted, is unknown; the
\* status pending is never produced.
PaymentStatus(word) ==
  CASE word \in SucceededWords  -> "succeeded"
    [] word \in FailedWords     -> "failed"
    [] word \in ProcessingWords -> TxProcessing
    [] word \in CancelledWords  -> "cancelled"
    [] word \in ExpiredWords    -> "expired"
    [] OTHER                    -> TxUnknown
===============================================================================
