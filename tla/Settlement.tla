------------------------------ MODULE Settlement ------------------------------
(***************************************************************************)
(* One payment from the client's POST to its final status: the request     *)
(* path (payment.Orchestrator.Create and persist), the webhook path        *)
(* (webhook.Service.Handle, apply and ReprocessPending) and the            *)
(* reconciliation worker (reconciliation.Service.RunOnce), running         *)
(* concurrently over the tables they share.                                *)
(*                                                                         *)
(* A database transaction (UnitOfWork.Within) is one step.  Everything the *)
(* code does outside one is a step of its own, so that any other handler   *)
(* may run between two of them: the look-up of the idempotency key and the *)
(* insert, the provider call and the update that records it, the query of  *)
(* the provider and the locked re-read that uses the answer.               *)
(*                                                                         *)
(* A transaction is named by the call that created it, which stands for    *)
(* the fresh identifier of platform.NewID.                                 *)
(***************************************************************************)
EXTENDS Naturals, FiniteSets, TxStatus

CONSTANTS
  Calls,          \* the client's calls of Create, retries included
  Keys,           \* idempotency keys, each within its application
  KeyOf, HashOf,  \* the key of each call and its normalised request hash
  NoTx,           \* what a call that ends in an error returns
  Vocabulary,     \* the status words the provider's adapter reports
  Outcomes,       \* the final statuses the provider may decide
  EventStatuses,  \* the statuses its webhook events may carry
  EventFits,      \* how far its events agree with the transaction
  Limit,          \* rows a reconciliation pass takes (limit, 100)
  MaxCrashes      \* bound: how often the process dies and restarts

\* What validateWebhook finds: the event fits its transaction, or differs in a
\* field its canonical hash covers (amount, currency, the client's reference), or
\* in one it leaves out (country, account).
Fits == {"fits", "differs", "differs unhashed"}

ASSUME RequestAssumption ==
  /\ IsFiniteSet(Calls)
  /\ KeyOf \in [Calls -> Keys]
  /\ NoTx \notin Calls
ASSUME ProviderAssumption ==
  /\ Vocabulary \subseteq Words
  /\ Outcomes \subseteq TerminalStatuses
  /\ EventStatuses \subseteq Statuses
  /\ EventFits \subseteq Fits
ASSUME BoundAssumption == Limit \in Nat \ {0} /\ MaxCrashes \in Nat

VARIABLES
  pc,         \* where each call is in Create
  reply,      \* what the provider call returned to Create
  answered,   \* the transaction each finished call reports to its client
  txStatus,   \* transactions.status, Absent while there is no row
  txRef,      \* transactions.provider_reference is not empty
  deferred,   \* transactions.next_reconcile_at lies in the future
  createdAt,  \* transactions.created_at as a rank, 0 while there is no row
  attStatus,  \* transaction_attempts.status of its one attempt
  attRef,     \* transaction_attempts.provider_reference is not empty
  attDone,    \* transaction_attempts.completed_at is set
  receivedAt, \* webhook_events.created_at as a rank, 0 while there is no row
  processed,  \* webhook_events.processed
  outcome,    \* the provider's own record of the payment
  wpc,        \* where the reconciliation worker is in RunOnce
  rows,       \* the due transactions it still has to reconcile in this pass
  wreply,     \* what QueryTransaction returned for the oldest of them
  queue,      \* the pending events it still has to retry in this pass
  outbox,     \* settled-status changes committed but not yet published
  announced,  \* how often each transaction's settlement was published
  crashes     \* restarts so far

requestVars  == <<pc, reply, answered>>
txVars       == <<txStatus, txRef, deferred, createdAt>>
attemptVars  == <<attStatus, attRef, attDone>>
eventVars    == <<receivedAt, processed>>
workerVars   == <<wpc, rows, wreply, queue>>
hookVars     == <<outbox, announced>>
vars == <<requestVars, txVars, attemptVars, eventVars, outcome, workerVars,
          hookVars, crashes>>

Absent  == "absent"
NoReply == [word |-> "none", ref |-> FALSE]
Failure == [word |-> "error", ref |-> FALSE]   \* an error, or no response
Replies == [word : Vocabulary \cup {"none", "error"}, ref : BOOLEAN]

\* A verified webhook event.
Events == [tx : Calls, status : EventStatuses, fit : EventFits]

\* canonicalWebhookHash.
SameHash(e, f) ==
  e.tx = f.tx /\ e.status = f.status /\ (e.fit = "differs" <=> f.fit = "differs")

Notices == [tx : Calls, prev : Statuses, status : TerminalStatuses]

Exists(t) == txStatus[t] # Absent
Stored(e) == receivedAt[e] # 0

-------------------------------------------------------------------------------
(* The provider, as the code sees it.                                      *)

\* The words a truthful provider may answer with: a final word only for the
\* outcome it has decided, a non-final or unlisted one at any time.
TruthfulWords(t) ==
  {w \in Vocabulary : Terminal(PaymentStatus(w)) => PaymentStatus(w) = outcome[t]}

\* Events may be late and repeated, but a final one reports the outcome.
CanSend(e) ==
  /\ outcome[e.tx] # "none"
  /\ Terminal(e.status) => outcome[e.tx] = e.status

ProviderDecides(t) ==
  /\ outcome[t] = "processing"
  /\ \E o \in Outcomes : outcome' = [outcome EXCEPT ![t] = o]
  /\ UNCHANGED <<requestVars, txVars, attemptVars, eventVars, workerVars,
                 hookVars, crashes>>

-------------------------------------------------------------------------------
(* The request path.                                                       *)

Holds(t, key) == Exists(t) /\ KeyOf[t] = key
KeyFree(key)  == \A t \in Calls : ~Holds(t, key)

\* replay: the stored transaction, unless the request differs from the one
\* that created it.
AnyReplay(c, t)    == t   \* (bug) the request hash is not compared
ReplayAnswer(c, t) == IF HashOf[t] = HashOf[c] THEN t ELSE NoTx

Replay(c, t) ==
  /\ pc' = [pc EXCEPT ![c] = "done"]
  /\ answered' = [answered EXCEPT ![c] = ReplayAnswer(c, t)]
  /\ UNCHANGED <<reply, txVars, attemptVars, eventVars, outcome, workerVars,
                 hookVars, crashes>>

FindReplays(c) ==
  /\ pc[c] = "new"
  /\ \E t \in Calls : Holds(t, KeyOf[c]) /\ Replay(c, t)

FindMisses(c) ==
  /\ pc[c] = "new"
  /\ KeyFree(KeyOf[c])
  /\ pc' = [pc EXCEPT ![c] = "insert"]
  /\ UNCHANGED <<reply, answered, txVars, attemptVars, eventVars, outcome,
                 workerVars, hookVars, crashes>>

\* An invalid request, an inactive app, a foreign currency, a rejecting hook, no
\* route, a rejected account or a failing database: an error and no row.
Refuse(c) ==
  /\ pc[c] \in {"new", "insert"}
  /\ pc' = [pc EXCEPT ![c] = "done"]
  /\ UNCHANGED <<reply, answered, txVars, attemptVars, eventVars, outcome,
                 workerVars, hookVars, crashes>>

\* The unique index on (app_id, idempotency_key).
NoUniqueIndex(c) == TRUE   \* (bug) the look-up of the key is all there is
UniqueIndex(c)   == KeyFree(KeyOf[c])

\* The transaction and its attempt, written together.
Insert(c) ==
  /\ pc[c] = "insert"
  /\ UniqueIndex(c)
  /\ pc' = [pc EXCEPT ![c] = "execute"]
  /\ txStatus'  = [txStatus EXCEPT ![c] = TxProcessing]
  /\ createdAt' = [createdAt EXCEPT ![c] = Cardinality({t \in Calls : Exists(t)}) + 1]
  /\ attStatus' = [attStatus EXCEPT ![c] = TxProcessing]
  /\ UNCHANGED <<reply, answered, txRef, deferred, attRef, attDone, eventVars,
                 outcome, workerVars, hookVars, crashes>>

\* The index refuses the insert; the call answers with the row of the key.
InsertConflicts(c) ==
  /\ pc[c] = "insert"
  /\ \E t \in Calls : Holds(t, KeyOf[c]) /\ Replay(c, t)

\* Collect or Disburse reaches the provider, which records the payment.
ProviderReceives(c) ==
  /\ pc[c] = "execute"
  /\ pc' = [pc EXCEPT ![c] = "await"]
  /\ outcome' = [outcome EXCEPT ![c] = "processing"]
  /\ UNCHANGED <<reply, answered, txVars, attemptVars, eventVars, workerVars,
                 hookVars, crashes>>

Return(c, r) ==
  /\ pc' = [pc EXCEPT ![c] = "persist"]
  /\ reply' = [reply EXCEPT ![c] = r]
  /\ UNCHANGED <<answered, txVars, attemptVars, eventVars, outcome, workerVars,
                 hookVars, crashes>>

\* The answer need not carry a reference: nothing in the contract requires it.
ProviderAnswers(c) ==
  /\ pc[c] = "await"
  /\ \E w \in TruthfulWords(c), ref \in BOOLEAN : Return(c, [word |-> w, ref |-> ref])

\* An open circuit or an unloaded provider before the call; a timeout, an error
\* or an empty response after it.
CallFails(c) ==
  /\ pc[c] \in {"execute", "await"}
  /\ Return(c, Failure)

\* The adapter panics and the recover middleware ends the request.
AdapterPanics(c) ==
  /\ pc[c] = "await"
  /\ pc' = [pc EXCEPT ![c] = "lost"]
  /\ UNCHANGED <<reply, answered, txVars, attemptVars, eventVars, outcome,
                 workerVars, hookVars, crashes>>

\* NotifyTransactionChanged runs after the commit.  Only changes to a final
\* status are tracked.
Publish(t, prev, status) ==
  outbox' = IF Terminal(status)
            THEN outbox \cup {[tx |-> t, prev |-> prev, status |-> status]}
            ELSE outbox

\* A webhook or the worker reports a status that is not the one it found.
PublishAlways(t, status) == Publish(t, txStatus[t], status)   \* (bug)
PublishChange(t, status) ==
  IF txStatus[t] = status THEN UNCHANGED outbox ELSE Publish(t, txStatus[t], status)

\* The updates of the two rows every settle path makes.
SetTransaction(t, status) ==
  /\ txStatus' = [txStatus EXCEPT ![t] = status]
  /\ deferred' = [deferred EXCEPT ![t] = ~Terminal(status)]

NeverComplete(t, status) ==   \* (bug) completed_at is left out
  attStatus' = [attStatus EXCEPT ![t] = status] /\ UNCHANGED attDone
SetAttempt(t, status) ==
  /\ attStatus' = [attStatus EXCEPT ![t] = status]
  /\ attDone'   = [attDone EXCEPT ![t] = @ \/ Terminal(status)]

ErrorIsFailed(r) ==   \* (bug) a timeout is taken for a failed payment
  IF r = Failure THEN "failed" ELSE PaymentStatus(r.word)
RequestStatus(r) == IF r = Failure THEN TxUnknown ELSE PaymentStatus(r.word)

\* persist: both rows are updated without looking at what they hold by now.
Persist(c) ==
  LET status == RequestStatus(reply[c])
      ref(old) == IF reply[c] = Failure THEN old ELSE reply[c].ref
  IN  /\ pc[c] = "persist"
      /\ pc' = [pc EXCEPT ![c] = "done"]
      /\ reply' = [reply EXCEPT ![c] = NoReply]
      /\ answered'  = [answered EXCEPT ![c] = c]
      /\ SetTransaction(c, status)
      /\ SetAttempt(c, status)
      /\ txRef'  = [txRef EXCEPT ![c] = ref(@)]
      /\ attRef' = [attRef EXCEPT ![c] = ref(@)]
      /\ Publish(c, TxPending, status)
      /\ UNCHANGED <<createdAt, eventVars, outcome, workerVars, announced,
                     crashes>>

PersistFails(c) ==
  /\ pc[c] = "persist"
  /\ pc' = [pc EXCEPT ![c] = "done"]
  /\ reply' = [reply EXCEPT ![c] = NoReply]
  /\ UNCHANGED <<answered, txVars, attemptVars, eventVars, outcome,
                 workerVars, hookVars, crashes>>

-------------------------------------------------------------------------------
(* Webhook events.                                                         *)

\* findWebhookTarget: an attempt carries the event's reference.
Matched(e) == attRef[e.tx]

\* validateWebhook and Transition both accept the event.
NoTransition(e) == Matched(e) /\ e.fit = "fits"   \* (bug) the status is just stored
NoValidation(e) ==   \* (bug) amount, currency and account are not compared
  Matched(e) /\ CanTransition(txStatus[e.tx], e.status)
Applicable(e) ==
  Matched(e) /\ e.fit = "fits" /\ CanTransition(txStatus[e.tx], e.status)

\* MarkProcessed.
Marked(e) == processed \cup {e}

\* apply, past its checks; the row of the event is marked in the same commit.
Apply(e) ==
  LET t == e.tx
  IN  /\ SetTransaction(t, e.status)
      /\ SetAttempt(t, e.status)
      /\ txRef'  = [txRef EXCEPT ![t] = TRUE]
      /\ attRef' = [attRef EXCEPT ![t] = TRUE]
      /\ processed' = Marked(e)
      /\ PublishChange(t, e.status)
      /\ UNCHANGED <<createdAt, announced>>

\* WebhookEventRepo.Insert: nothing is inserted under the same hash twice.
Store(e) ==
  /\ \A f \in Events : SameHash(e, f) => ~Stored(f)
  /\ receivedAt' = [receivedAt EXCEPT
                      ![e] = Cardinality({f \in Events : Stored(f)}) + 1]

\* Handle.  An event that names no transaction yet is stored for the worker; one
\* that is refused is rolled back with its row and leaves nothing behind.
HandleStores(e) ==
  /\ CanSend(e)
  /\ ~Matched(e)
  /\ Store(e)
  /\ UNCHANGED <<requestVars, txVars, attemptVars, processed, outcome,
                 workerVars, hookVars, crashes>>

HandleApplies(e) ==
  /\ CanSend(e)
  /\ Applicable(e)
  /\ Store(e)
  /\ Apply(e)
  /\ UNCHANGED <<requestVars, outcome, workerVars, crashes>>

-------------------------------------------------------------------------------
(* The reconciliation worker.                                              *)

\* next_reconcile_at passes.
Tick(t) ==
  /\ deferred[t]
  /\ deferred' = [deferred EXCEPT ![t] = FALSE]
  /\ UNCHANGED <<requestVars, txStatus, txRef, createdAt, attemptVars, eventVars,
                 outcome, workerVars, hookVars, crashes>>

DueAnyway == {t \in Calls : txStatus[t] \in OpenStatuses /\ ~deferred[t]}  \* (bug)
NeverUnknown ==   \* (bug) the status list forgets unknown
  {t \in Calls : txStatus[t] \in {TxPending, TxProcessing} /\ txRef[t] /\ ~deferred[t]}
Due == {t \in Calls : txStatus[t] \in OpenStatuses /\ txRef[t] /\ ~deferred[t]}

\* The first Limit members of S in the order of their creation.
OldestOf(S, at) == {x \in S : Cardinality({y \in S : at[y] < at[x]}) < Limit}

IsOldest(x, S, at) == x \in S /\ \A y \in S : at[x] <= at[y]

StartPass ==
  /\ wpc = "idle"
  /\ wpc' = "rows"
  /\ rows' = OldestOf(Due, createdAt)
  /\ UNCHANGED <<requestVars, txVars, attemptVars, eventVars, outcome, wreply,
                 queue, hookVars, crashes>>

\* QueryTransaction of the row as it was selected, outside any transaction.
Query(t) ==
  /\ wpc = "rows"
  /\ IsOldest(t, rows, createdAt)
  /\ wreply' \in TruthfulWords(t) \cup {"error"}
  /\ wpc' = "answer"
  /\ UNCHANGED <<requestVars, txVars, attemptVars, eventVars, outcome, rows,
                 queue, hookVars, crashes>>

\* The pass is done with row t.
NextRow(t) ==
  /\ wpc' = "rows"
  /\ rows' = rows \ {t}
  /\ wreply' = "none"
  /\ UNCHANGED <<requestVars, txRef, createdAt, attRef, eventVars, outcome, queue,
                 announced, crashes>>

Answered(t) == wpc = "answer" /\ IsOldest(t, rows, createdAt)

\* The locked re-read finds a settled row, or the commit fails or the context is
\* cancelled: nothing is stored.
Skip(t) ==
  /\ Answered(t)
  /\ NextRow(t)
  /\ UNCHANGED <<txStatus, deferred, attStatus, attDone, outbox>>

\* reconcile.  UpdateFromStatus finds the status it is conditioned on, because
\* the row is locked since it was read.
Reconcile(t) ==
  LET status == PaymentStatus(wreply)
  IN  /\ Answered(t)
      /\ wreply # "error"
      /\ ~Terminal(txStatus[t])
      /\ CanTransition(txStatus[t], status)
      /\ SetTransaction(t, status)
      /\ SetAttempt(t, status)
      /\ PublishChange(t, status)
      /\ NextRow(t)

\* deferRetry: the attempt keeps the status it had.
DeferRetry(t) ==
  /\ Answered(t)
  /\ wreply = "error"
  /\ ~Terminal(txStatus[t])
  /\ CanTransition(txStatus[t], TxUnknown)
  /\ SetTransaction(t, TxUnknown)
  /\ UNCHANGED <<attStatus, attDone, outbox>>
  /\ NextRow(t)

\* ReprocessPending takes its snapshot once the rows are done.
LoadPending ==
  /\ wpc = "rows"
  /\ rows = {}
  /\ wpc' = "events"
  /\ queue' = OldestOf({e \in Events : Stored(e) /\ e \notin processed}, receivedAt)
  /\ UNCHANGED <<requestVars, txVars, attemptVars, eventVars, outcome, rows,
                 wreply, hookVars, crashes>>

Retrying(e) == wpc = "events" /\ IsOldest(e, queue, receivedAt)

RetryApplies(e) ==
  /\ Retrying(e)
  /\ Applicable(e)
  /\ Apply(e)
  /\ queue' = queue \ {e}
  /\ UNCHANGED <<requestVars, receivedAt, outcome, wpc, rows, wreply, crashes>>

EndPass ==
  /\ wpc' = "idle"
  /\ queue' = {}
  /\ UNCHANGED <<requestVars, txVars, attemptVars, eventVars, outcome, rows,
                 wreply, hookVars, crashes>>

StopsAtUnmatched(e) == Retrying(e) /\ ~Matched(e) /\ EndPass   \* (bug) NotFound is an error

\* apply finds no attempt with the reference and leaves the event pending.
RetryPasses(e) ==
  /\ Retrying(e)
  /\ ~Matched(e)
  /\ queue' = queue \ {e}
  /\ UNCHANGED <<requestVars, txVars, attemptVars, eventVars, outcome, wpc, rows,
                 wreply, hookVars, crashes>>

\* An event apply refuses ends ReprocessPending: those behind it are not tried.
RetryRefused(e) == Retrying(e) /\ Matched(e) /\ ~Applicable(e) /\ EndPass

\* So does a database that fails, before the snapshot or after it.
PassFails ==
  /\ wpc \in {"rows", "events"} /\ rows = {}
  /\ EndPass

QueueDone == wpc = "events" /\ queue = {} /\ EndPass

-------------------------------------------------------------------------------

\* A post-commit handler observes a settlement.
Announce(n) ==
  /\ n \in outbox
  /\ outbox' = outbox \ {n}
  /\ announced' = [announced EXCEPT ![n.tx] = @ + 1]
  /\ UNCHANGED <<requestVars, txVars, attemptVars, eventVars, outcome, workerVars,
                 crashes>>

\* The process dies: requests in flight, the pass and unpublished changes are
\* gone, the tables stay.
Crash ==
  /\ crashes < MaxCrashes
  /\ crashes' = crashes + 1
  /\ pc' = [c \in Calls |-> IF pc[c] \in {"new", "done"} THEN pc[c] ELSE "lost"]
  /\ reply' = [c \in Calls |-> NoReply]
  /\ wpc' = "idle" /\ rows' = {} /\ wreply' = "none" /\ queue' = {}
  /\ outbox' = {}
  /\ UNCHANGED <<answered, txVars, attemptVars, eventVars, outcome, announced>>

-------------------------------------------------------------------------------

Init ==
  /\ pc       = [c \in Calls |-> "new"]
  /\ reply    = [c \in Calls |-> NoReply]
  /\ answered = [c \in Calls |-> NoTx]
  /\ txStatus = [t \in Calls |-> Absent]
  /\ txRef    = [t \in Calls |-> FALSE]
  /\ deferred = [t \in Calls |-> FALSE]
  /\ createdAt = [t \in Calls |-> 0]
  /\ attStatus = [t \in Calls |-> Absent]
  /\ attRef   = [t \in Calls |-> FALSE]
  /\ attDone  = [t \in Calls |-> FALSE]
  /\ receivedAt = [e \in Events |-> 0]
  /\ processed = {}
  /\ outcome  = [t \in Calls |-> "none"]
  /\ wpc = "idle" /\ rows = {} /\ wreply = "none" /\ queue = {}
  /\ outbox = {}
  /\ announced = [t \in Calls |-> 0]
  /\ crashes = 0

RequestStep(c) ==
  \/ FindReplays(c)
  \/ FindMisses(c)
  \/ Refuse(c)
  \/ Insert(c)
  \/ InsertConflicts(c)
  \/ ProviderReceives(c)
  \/ ProviderAnswers(c)
  \/ CallFails(c)
  \/ AdapterPanics(c)
  \/ Persist(c)
  \/ PersistFails(c)

WebhookStep(e) == HandleStores(e) \/ HandleApplies(e)

WorkerStep ==
  \/ StartPass
  \/ \E t \in Calls : Query(t) \/ Skip(t) \/ Reconcile(t) \/ DeferRetry(t)
  \/ LoadPending
  \/ \E e \in Events : RetryApplies(e) \/ RetryPasses(e) \/ RetryRefused(e)
  \/ QueueDone
  \/ PassFails

Next ==
  \/ \E c \in Calls : RequestStep(c)
  \/ \E e \in Events : WebhookStep(e)
  \/ WorkerStep
  \/ \E t \in Calls : ProviderDecides(t) \/ Tick(t)
  \/ \E n \in outbox : Announce(n)
  \/ Crash

Spec == Init /\ [][Next]_vars

-------------------------------------------------------------------------------
(* What the settle paths promise.                                          *)

\* Every variable has its type.
TypeOK ==
  /\ pc \in [Calls -> {"new", "insert", "execute", "await", "persist", "done", "lost"}]
  /\ reply \in [Calls -> Replies]
  /\ answered \in [Calls -> Calls \cup {NoTx}]
  /\ txStatus \in [Calls -> Statuses \cup {Absent}]
  /\ txRef \in [Calls -> BOOLEAN]
  /\ deferred \in [Calls -> BOOLEAN]
  /\ createdAt \in [Calls -> Nat]
  /\ attStatus \in [Calls -> Statuses \cup {Absent}]
  /\ attRef \in [Calls -> BOOLEAN]
  /\ attDone \in [Calls -> BOOLEAN]
  /\ receivedAt \in [Events -> Nat]
  /\ processed \subseteq Events
  /\ outcome \in [Calls -> Outcomes \cup {"none", "processing"}]
  /\ wpc \in {"idle", "rows", "answer", "events"}
  /\ rows \subseteq Calls
  /\ wreply \in Vocabulary \cup {"none", "error"}
  /\ queue \subseteq Events
  /\ outbox \subseteq Notices
  /\ announced \in [Calls -> Nat]
  /\ crashes \in Nat

\* However many calls carry one idempotency key, together, in turn or after a
\* crash, the provider is asked to move the money once (Create 94-98, 195-205).
PaidOncePerKey ==
  \A t, u \in Calls :
    outcome[t] # "none" /\ outcome[u] # "none" /\ KeyOf[t] = KeyOf[u] => t = u

\* All calls of one key that are answered with a transaction are answered with
\* the same one, and only if they asked for what it pays (replay 300-303).
RepliesAgree ==
  \A c \in Calls : answered[c] # NoTx =>
    /\ Exists(answered[c])
    /\ KeyOf[answered[c]] = KeyOf[c] /\ HashOf[answered[c]] = HashOf[c]
    /\ \A d \in Calls :
         answered[d] # NoTx /\ KeyOf[d] = KeyOf[c] => answered[d] = answered[c]

\* Until its request has persisted, no webhook and no pass of the worker touches
\* a row: that is why persist may overwrite it unseen (255-262).
OwnedByRequest ==
  \A c \in Calls : pc[c] \in {"execute", "await", "persist"} =>
    /\ txStatus[c] = TxProcessing /\ attStatus[c] = TxProcessing
    /\ ~txRef[c] /\ ~attRef[c] /\ ~attDone[c]

\* The books say what the provider decided: a final status is its outcome,
\* whichever path recorded it and whatever arrived late or twice.
SettledTruthfully ==
  \A t \in Calls : Terminal(txStatus[t]) => outcome[t] = txStatus[t]

\* A transaction and its attempt settle together: the attempt of a settled
\* transaction is completed with its status, that of an open one is not.
SettledTogether ==
  \A t \in Calls :
    /\ Terminal(txStatus[t]) => attStatus[t] = txStatus[t]
    /\ attDone[t] <=> Terminal(txStatus[t])

\* An event is marked processed with its effect: a processed final event shows
\* in its transaction's status (MarkProcessed 156 in the commit of 145).
ProcessedEventsCount ==
  \A e \in processed :
    /\ Stored(e) /\ e.fit = "fits" /\ txRef[e.tx]
    /\ Terminal(e.status) => txStatus[e.tx] = e.status

\* A settlement is published at most once, and never before it is committed,
\* although the request, webhooks and the worker may all report it.
AnnouncedOnce ==
  /\ \A t \in Calls : announced[t] > 0 => announced[t] = 1 /\ Terminal(txStatus[t])
  /\ \A n \in outbox :
       /\ announced[n.tx] = 0
       /\ n.status = txStatus[n.tx]
       /\ \A m \in outbox : m.tx = n.tx => m = n

\* The outcome that lands first stays: no path leaves a final status, and every
\* other move follows the graph of Transition (state_machine.go 8-11).
StatusFollowsGraph ==
  [][\A t \in Calls : Exists(t) => CanTransition(txStatus[t], txStatus'[t])]_txStatus

-------------------------------------------------------------------------------
(***************************************************************************)
(* The inductive invariant: why the promises hold.  The unique index keeps *)
(* one row per key; the two rows of a payment carry the same reference,    *)
(* and until its request has persisted they carry none, so that nothing    *)
(* else can find them; what waits in a reply, in the worker or in the      *)
(* event table was said by a provider that never takes an outcome back.    *)
(***************************************************************************)

OneRowPerKey ==
  \A t, u \in Calls : Exists(t) /\ Exists(u) /\ KeyOf[t] = KeyOf[u] => t = u

RowsInv ==
  \A t \in Calls :
    /\ Exists(t) <=> attStatus[t] # Absent
    /\ txRef[t] = attRef[t]
    /\ ~Exists(t) => ~txRef[t] /\ outcome[t] = "none"

RanksInv ==
  \A t, u \in Calls : Exists(t) =>
    /\ createdAt[t] <= Cardinality({x \in Calls : Exists(x)})
    /\ Exists(u) /\ createdAt[t] = createdAt[u] => t = u

ProgressInv ==
  \A c \in Calls :
    /\ pc[c] \in {"new", "insert"} => ~Exists(c)
    /\ pc[c] = "execute" => outcome[c] = "none"
    /\ pc[c] = "await" => outcome[c] # "none"
    /\ pc[c] = "persist" => reply[c] = Failure \/ reply[c].word \in TruthfulWords(c)

AnswersInv ==
  \A c \in Calls : answered[c] # NoTx =>
    /\ Exists(answered[c])
    /\ KeyOf[answered[c]] = KeyOf[c] /\ HashOf[answered[c]] = HashOf[c]

WorkerInv ==
  /\ \A t \in rows : txRef[t]
  /\ wpc = "answer" => \A t \in Calls :
       IsOldest(t, rows, createdAt) => wreply \in TruthfulWords(t) \cup {"error"}

EventsInv ==
  /\ \A e \in Events : Stored(e) => CanSend(e)
  /\ \A e \in queue : Stored(e)

IInv ==
  /\ TypeOK /\ OneRowPerKey /\ RowsInv /\ RanksInv /\ ProgressInv /\ AnswersInv
  /\ WorkerInv /\ EventsInv
  /\ OwnedByRequest /\ SettledTruthfully /\ SettledTogether
  /\ ProcessedEventsCount /\ AnnouncedOnce

-------------------------------------------------------------------------------
(***************************************************************************)
(* What happens in the end.  Handlers, the clock and the worker are        *)
(* scheduled.  A provider that is asked again and again about a payment it *)
(* has decided says so some time, and the commit that records a final      *)
(* answer, or the retry of a stored event, does not fail every time.       *)
(***************************************************************************)

\* The provider answers a query of t with its final outcome.
QuerySettles(t) == Query(t) /\ Terminal(PaymentStatus(wreply'))

\* The worker records a final answer.
ReconcileSettles(t) == Reconcile(t) /\ Terminal(PaymentStatus(wreply))

Fairness ==
  /\ WF_vars(WorkerStep)
  /\ \A c \in Calls : WF_vars(pc[c] # "new" /\ RequestStep(c))
  /\ \A t \in Calls :
       /\ WF_vars(Tick(t))
       /\ SF_vars(QuerySettles(t))
       /\ SF_vars(ReconcileSettles(t))
  /\ SF_vars(LoadPending)
  /\ \A e \in Events : SF_vars(RetryApplies(e) \/ RetryPasses(e))

FairSpec == Spec /\ Fairness

\* A payment with a reference that the provider has decided is settled, even if
\* every webhook is lost, the process restarts and single queries fail.
DecidedSettles ==
  \A t \in Calls :
    txRef[t] /\ outcome[t] \in TerminalStatuses ~> Terminal(txStatus[t])

\* The retry does not get to e: an older pending event is refused, which ends the pass,
\* or those older than e fill it.
PendingBefore(e) ==
  {f \in Events : Stored(f) /\ f \notin processed /\ receivedAt[f] < receivedAt[e]}
ShutOut(e) ==
  \/ \E f \in PendingBefore(e) : Matched(f) /\ ~Applicable(f)
  \/ Cardinality(PendingBefore(e)) >= Limit

\* RunOnce "retries webhook events that arrived before their transaction was ready"
\* (reconciliation/doc.go:3-4) are applied in the end, or overtaken by a status they can
\* no longer reach, or shut out by older ones (webhook/service.go:199), which the
\* sentence does not say.  An older event without a transaction keeps nobody waiting,
\* nor does one that is applied, nor a pass that fails, nor a restart.
EarlyEventsApplied ==
  \A e \in Events :
    Stored(e) /\ e \notin processed /\ Applicable(e) /\ ~ShutOut(e)
      ~> e \in processed \/ ~Applicable(e) \/ ShutOut(e)

-------------------------------------------------------------------------------
(* The settlement of one payment implements PaymentOutcome.                *)

Book == [t \in Calls |-> IF txStatus[t] = Absent THEN "none"
                         ELSE IF Terminal(txStatus[t]) THEN txStatus[t] ELSE "open"]

PO == INSTANCE PaymentOutcome
        WITH Payments <- Calls, book <- Book, provider <- outcome,
             published <- announced

\* Seen from outside, request path, webhooks and worker together are one book in
\* which each payment is opened, paid, settled and published at most once.
ImplementsPaymentOutcome == PO!Spec

-------------------------------------------------------------------------------
(* What the repository's own words say, and the code does not do.          *)

\* "Package reconciliation settles transactions the request path left unresolved"
\* (reconciliation/doc.go:1): once the provider has decided.
LeftUnresolvedSettles ==
  \A t \in Calls :
    /\ pc[t] = "done" /\ txStatus[t] = TxUnknown
    /\ outcome[t] \in TerminalStatuses
    ~> Terminal(txStatus[t])
===============================================================================
