-------------------------- MODULE Settlement_proofs --------------------------
(***************************************************************************)
(* Proofs about Settlement, for any number of calls, keys and events.      *)
(***************************************************************************)
EXTENDS Settlement, FiniteSetTheorems, FunctionTheorems, TLAPS

\* The normalisation yields a status, never pending (amount.go 18-33).
LEMMA PaymentStatusType ==
  ASSUME NEW w
  PROVE  PaymentStatus(w) \in Statuses \ {TxPending}
  BY DEF PaymentStatus, Statuses, OpenStatuses, TerminalStatuses, TxPending,
         TxProcessing, TxUnknown

\* Whatever a provider answers, an unsettled row that has been created may take it.
LEMMA AnswerIsLegal ==
  ASSUME NEW w, NEW s \in {TxProcessing, TxUnknown}
  PROVE  CanTransition(s, PaymentStatus(w))
  BY PaymentStatusType DEF CanTransition, Statuses, OpenStatuses, TxPending,
         TxProcessing, TxUnknown, Terminal

\* Finitely many calls mean finitely many distinct events.
LEMMA EventsFinite == IsFiniteSet(Events)
<1> DEFINE D == (Calls \X EventStatuses) \X EventFits
           f == [d \in D |-> [tx |-> d[1][1], status |-> d[1][2], fit |-> d[2]]]
<1>1. IsFiniteSet(EventStatuses)
  <2> DEFINE g == [i \in 1..7 |-> CASE i = 1 -> TxPending [] i = 2 -> TxProcessing
                      [] i = 3 -> TxUnknown [] i = 4 -> "succeeded"
                      [] i = 5 -> "failed"  [] i = 6 -> "expired" [] i = 7 -> "cancelled"]
  <2>1. g \in [1..7 -> Statuses]
    BY DEF Statuses, OpenStatuses, TerminalStatuses
  <2>2. ASSUME NEW s \in Statuses PROVE \E i \in 1..7 : g[i] = s
    <3>1. /\ g[1] = TxPending /\ g[2] = TxProcessing /\ g[3] = TxUnknown
          /\ g[4] = "succeeded" /\ g[5] = "failed" /\ g[6] = "expired"
          /\ g[7] = "cancelled"
      OBVIOUS
    <3> HIDE DEF g
    <3> QED
      BY <3>1 DEF Statuses, OpenStatuses, TerminalStatuses
  <2>3. g \in Surjection(1..7, Statuses)
    BY <2>1, <2>2 DEF Surjection
  <2>4. IsFiniteSet(1..7)
    <3>1. 1 \in Int /\ 7 \in Int
      OBVIOUS
    <3> QED
      BY <3>1, FS_Interval
  <2>5. IsFiniteSet(Statuses)
    BY <2>3, <2>4, FS_Surjection
  <2> QED
    BY <2>5, FS_Subset, ProviderAssumption
<1>2. IsFiniteSet(EventFits)
  <2>1. Fits = ({"fits"} \cup {"differs"}) \cup {"differs unhashed"}
    BY DEF Fits
  <2>2. IsFiniteSet({"fits"})
    BY FS_Singleton
  <2>3. IsFiniteSet(Fits)
    BY <2>1, <2>2, FS_AddElement
  <2> QED
    BY <2>3, FS_Subset, ProviderAssumption
<1>3. IsFiniteSet(D)
  BY <1>1, <1>2, FS_Product, RequestAssumption
<1>4. f \in Surjection(D, Events)
  <2>1. f \in [D -> Events]
    BY DEF Events
  <2>2. ASSUME NEW e \in Events PROVE \E d \in D : f[d] = e
    <3>1. <<<<e.tx, e.status>>, e.fit>> \in D
      BY DEF Events
    <3>2. f[<<<<e.tx, e.status>>, e.fit>>] = e
      BY <3>1 DEF Events
    <3> QED
      BY <3>1, <3>2
  <2> QED
    BY <2>1, <2>2 DEF Surjection
<1> QED
  BY <1>3, <1>4, FS_Surjection

\* The ranks of created rows and received events are natural numbers.
LEMMA RankType ==
  /\ Cardinality({t \in Calls : Exists(t)}) + 1 \in Nat \ {0}
  /\ Cardinality({f \in Events : Stored(f)}) + 1 \in Nat \ {0}
<1>1. IsFiniteSet({t \in Calls : Exists(t)})
  BY FS_Subset, RequestAssumption
<1>2. IsFiniteSet({f \in Events : Stored(f)})
  BY FS_Subset, EventsFinite
<1>3. /\ Cardinality({t \in Calls : Exists(t)}) \in Nat
      /\ Cardinality({f \in Events : Stored(f)}) \in Nat
  BY <1>1, <1>2, FS_CardinalityType
<1> QED
  BY <1>3

-------------------------------------------------------------------------------
(* Type correctness.                                                       *)

LEMMA InitTypeOK == Init => TypeOK
  BY DEF Init, TypeOK, NoReply, Replies, Events, Notices

LEMMA PublishType ==
  ASSUME TypeOK, NEW t \in Calls, NEW prev \in Statuses, NEW status \in Statuses,
         Publish(t, prev, status)
  PROVE  outbox' \subseteq Notices
  BY DEF TypeOK, Publish, Notices, Terminal

LEMMA PublishChangeType ==
  ASSUME TypeOK, NEW t \in Calls, Exists(t), NEW status \in Statuses,
         PublishChange(t, status)
  PROVE  outbox' \subseteq Notices
<1>1. txStatus[t] \in Statuses
  BY DEF TypeOK, Exists
<1> QED
  BY <1>1, PublishType DEF PublishChange, TypeOK

LEMMA SettleType ==
  ASSUME TypeOK, NEW t \in Calls, NEW status \in Statuses,
         SetTransaction(t, status), SetAttempt(t, status)
  PROVE  /\ txStatus' \in [Calls -> Statuses \cup {Absent}]
         /\ deferred' \in [Calls -> BOOLEAN]
         /\ attStatus' \in [Calls -> Statuses \cup {Absent}]
         /\ attDone' \in [Calls -> BOOLEAN]
  BY DEF TypeOK, SetTransaction, SetAttempt, Terminal

\* Only an existing row can take a status.
LEMMA TransitionExists ==
  ASSUME NEW t \in Calls, NEW status \in Statuses, CanTransition(txStatus[t], status)
  PROVE  Exists(t)
  BY DEF CanTransition, Exists, Absent, Statuses, OpenStatuses, TerminalStatuses,
         TxPending, TxProcessing, TxUnknown

LEMMA EventFields ==
  ASSUME NEW e \in Events
  PROVE  e.tx \in Calls /\ e.status \in Statuses /\ e.fit \in Fits
  BY ProviderAssumption DEF Events

LEMMA RequestStatusType ==
  ASSUME NEW r
  PROVE  RequestStatus(r) \in {TxProcessing, TxUnknown} \cup TerminalStatuses
  BY PaymentStatusType DEF RequestStatus, Statuses, OpenStatuses

LEMMA ApplyType ==
  ASSUME TypeOK, NEW e \in Events, Applicable(e), Apply(e)
  PROVE  /\ txStatus' \in [Calls -> Statuses \cup {Absent}]
         /\ txRef' \in [Calls -> BOOLEAN]
         /\ deferred' \in [Calls -> BOOLEAN]
         /\ attStatus' \in [Calls -> Statuses \cup {Absent}]
         /\ attRef' \in [Calls -> BOOLEAN]
         /\ attDone' \in [Calls -> BOOLEAN]
         /\ processed' \subseteq Events
         /\ outbox' \subseteq Notices
<1>1. e.tx \in Calls /\ e.status \in Statuses
  BY EventFields
<1>2. Exists(e.tx)
  BY <1>1, TransitionExists DEF Applicable
<1>3. /\ SetTransaction(e.tx, e.status) /\ SetAttempt(e.tx, e.status)
      /\ PublishChange(e.tx, e.status)
  BY DEF Apply
<1> QED
  BY <1>1, <1>2, <1>3, SettleType, PublishChangeType DEF Apply, Marked, TypeOK

LEMMA TypeOKStep == TypeOK /\ [Next]_vars => TypeOK'
<1> SUFFICES ASSUME TypeOK, [Next]_vars PROVE TypeOK'
  OBVIOUS
<1> USE DEF requestVars, txVars, attemptVars, eventVars, workerVars, hookVars
<1>1. ASSUME NEW c \in Calls, RequestStep(c) PROVE TypeOK'
  <2>1. CASE FindReplays(c)
    BY <2>1 DEF FindReplays, Replay, ReplayAnswer, TypeOK
  <2>2. CASE FindMisses(c)
    BY <2>2 DEF FindMisses, TypeOK
  <2>3. CASE Refuse(c)
    BY <2>3 DEF Refuse, TypeOK
  <2>4. CASE Insert(c)
    BY <2>4, RankType DEF Insert, TypeOK, Statuses, OpenStatuses, TxProcessing
  <2>5. CASE InsertConflicts(c)
    BY <2>5 DEF InsertConflicts, Replay, ReplayAnswer, TypeOK
  <2>6. CASE ProviderReceives(c)
    BY <2>6 DEF ProviderReceives, TypeOK
  <2>7. CASE ProviderAnswers(c)
    BY <2>7 DEF ProviderAnswers, TruthfulWords, Return, Replies, TypeOK
  <2>8. CASE CallFails(c)
    BY <2>8 DEF CallFails, Failure, Return, Replies, TypeOK
  <2>9. CASE AdapterPanics(c)
    BY <2>9 DEF AdapterPanics, TypeOK
  <2>10. CASE Persist(c)
    <3>1. /\ SetTransaction(c, RequestStatus(reply[c]))
          /\ SetAttempt(c, RequestStatus(reply[c]))
          /\ Publish(c, TxPending, RequestStatus(reply[c]))
      BY <2>10 DEF Persist
    <3>2. RequestStatus(reply[c]) \in Statuses /\ TxPending \in Statuses
      BY RequestStatusType DEF Statuses, OpenStatuses
    <3>3. /\ txStatus' \in [Calls -> Statuses \cup {Absent}]
          /\ deferred' \in [Calls -> BOOLEAN]
          /\ attStatus' \in [Calls -> Statuses \cup {Absent}]
          /\ attDone' \in [Calls -> BOOLEAN]
          /\ outbox' \subseteq Notices
      BY <3>1, <3>2, SettleType, PublishType
    <3>4. reply[c].ref \in BOOLEAN /\ NoReply \in Replies
      BY DEF TypeOK, Replies, NoReply
    <3>5. /\ pc' \in [Calls -> {"new", "insert", "execute", "await", "persist", "done", "lost"}]
          /\ reply' \in [Calls -> Replies]
          /\ answered' \in [Calls -> Calls \cup {NoTx}]
          /\ txRef' \in [Calls -> BOOLEAN] /\ attRef' \in [Calls -> BOOLEAN]
      BY <2>10, <3>4 DEF Persist, TypeOK
    <3> QED
      BY <2>10, <3>3, <3>5 DEF Persist, TypeOK
  <2>11. CASE PersistFails(c)
    BY <2>11 DEF PersistFails, NoReply, Replies, TypeOK
  <2> QED
    BY <1>1, <2>1, <2>2, <2>3, <2>4, <2>5, <2>6, <2>7, <2>8, <2>9, <2>10, <2>11
       DEF RequestStep
<1>2. ASSUME NEW e \in Events, WebhookStep(e) PROVE TypeOK'
  <2>1. receivedAt' \in [Events -> Nat]
    BY <1>2, RankType DEF WebhookStep, HandleStores, HandleApplies, Store, TypeOK
  <2>2. CASE HandleStores(e)
    BY <2>1, <2>2 DEF HandleStores, TypeOK
  <2>3. CASE HandleApplies(e)
    BY <2>1, <2>3, ApplyType DEF HandleApplies, Apply, TypeOK
  <2> QED
    BY <1>2, <2>2, <2>3 DEF WebhookStep
<1>3. CASE WorkerStep
  <2>1. CASE StartPass
    BY <2>1 DEF StartPass, OldestOf, Due, TypeOK
  <2>2. ASSUME NEW t \in Calls, Query(t) PROVE TypeOK'
    BY <2>2 DEF Query, TruthfulWords, TypeOK
  <2>3. ASSUME NEW t \in Calls, Skip(t) PROVE TypeOK'
    BY <2>3 DEF Skip, NextRow, TypeOK
  <2>4. ASSUME NEW t \in Calls, Reconcile(t) PROVE TypeOK'
    <3> DEFINE status == PaymentStatus(wreply)
    <3>1. status \in Statuses
      BY PaymentStatusType
    <3>2. /\ SetTransaction(t, status) /\ SetAttempt(t, status)
          /\ PublishChange(t, status) /\ CanTransition(txStatus[t], status)
          /\ NextRow(t)
      BY <2>4 DEF Reconcile
    <3> HIDE DEF status
    <3>3. Exists(t)
      BY <3>1, <3>2, TransitionExists
    <3>4. /\ txStatus' \in [Calls -> Statuses \cup {Absent}]
          /\ deferred' \in [Calls -> BOOLEAN]
          /\ attStatus' \in [Calls -> Statuses \cup {Absent}]
          /\ attDone' \in [Calls -> BOOLEAN]
          /\ outbox' \subseteq Notices
      BY <3>1, <3>2, <3>3, SettleType, PublishChangeType
    <3> QED
      BY <3>2, <3>4 DEF NextRow, TypeOK
  <2>5. ASSUME NEW t \in Calls, DeferRetry(t) PROVE TypeOK'
    BY <2>5 DEF DeferRetry, SetTransaction, NextRow, TypeOK, Terminal, Statuses,
                OpenStatuses, TxUnknown
  <2>6. CASE LoadPending
    BY <2>6 DEF LoadPending, OldestOf, TypeOK
  <2>7. ASSUME NEW e \in Events, RetryApplies(e) PROVE TypeOK'
    BY <2>7, ApplyType DEF RetryApplies, Apply, TypeOK
  <2>8. ASSUME NEW e \in Events, RetryPasses(e) PROVE TypeOK'
    BY <2>8 DEF RetryPasses, TypeOK
  <2>9. ASSUME NEW e \in Events, RetryRefused(e) PROVE TypeOK'
    BY <2>9 DEF RetryRefused, EndPass, TypeOK
  <2>10. CASE QueueDone
    BY <2>10 DEF QueueDone, EndPass, TypeOK
  <2>11. CASE PassFails
    BY <2>11 DEF PassFails, EndPass, TypeOK
  <2> QED
    BY <1>3, <2>1, <2>2, <2>3, <2>4, <2>5, <2>6, <2>7, <2>8, <2>9, <2>10, <2>11
       DEF WorkerStep
<1>4. ASSUME NEW t \in Calls, ProviderDecides(t) \/ Tick(t) PROVE TypeOK'
  <2>1. CASE ProviderDecides(t)
    <3>1. PICK o \in Outcomes : outcome' = [outcome EXCEPT ![t] = o]
      BY <2>1 DEF ProviderDecides
    <3>2. outcome' \in [Calls -> Outcomes \cup {"none", "processing"}]
      BY <3>1 DEF TypeOK
    <3> QED
      BY <2>1, <3>2 DEF ProviderDecides, TypeOK
  <2>2. CASE Tick(t)
    <3>1. deferred' \in [Calls -> BOOLEAN]
      BY <2>2 DEF Tick, TypeOK
    <3> QED
      BY <2>2, <3>1 DEF Tick, TypeOK
  <2> QED
    BY <1>4, <2>1, <2>2
<1>5. ASSUME NEW n \in outbox, Announce(n) PROVE TypeOK'
  <2>1. n.tx \in Calls
    BY <1>5 DEF TypeOK, Notices
  <2> QED
    BY <1>5, <2>1 DEF Announce, TypeOK
<1>6. CASE Crash
  BY <1>6 DEF Crash, NoReply, Replies, TypeOK
<1>7. CASE UNCHANGED vars
  BY <1>7 DEF vars, TypeOK
<1> QED
  BY <1>1, <1>2, <1>3, <1>4, <1>5, <1>6, <1>7 DEF Next

\* Every variable keeps its type, however many calls, keys and events there are.
THEOREM TypeCorrect == Spec => []TypeOK
  BY InitTypeOK, TypeOKStep, PTL DEF Spec

-------------------------------------------------------------------------------
(* The inductive invariant.                                                *)

LEMMA InitIInv == Init => IInv
<1> SUFFICES ASSUME Init PROVE IInv
  OBVIOUS
<1>1. TypeOK
  BY InitTypeOK
<1>2. \A t \in Calls : ~Exists(t) /\ ~Terminal(txStatus[t])
  BY DEF Init, Exists, Absent, Terminal, TerminalStatuses
<1>3. OneRowPerKey /\ RowsInv /\ RanksInv /\ ProgressInv /\ AnswersInv /\ OwnedByRequest
  BY <1>2 DEF Init, OneRowPerKey, RowsInv, RanksInv, ProgressInv, AnswersInv, OwnedByRequest, Exists
<1>4. WorkerInv /\ EventsInv /\ ProcessedEventsCount
  BY DEF Init, WorkerInv, EventsInv, ProcessedEventsCount, Stored
<1>5. SettledTruthfully /\ SettledTogether /\ AnnouncedOnce
  BY <1>2 DEF Init, SettledTruthfully, SettledTogether, AnnouncedOnce
<1> QED
  BY <1>1, <1>3, <1>4, <1>5 DEF IInv

\* What an action leaves alone: parts of the invariant over unchanged variables.
LEMMA FrameRows ==
  ASSUME OneRowPerKey, RowsInv, AnswersInv, SettledTruthfully, SettledTogether,
         UNCHANGED <<txVars, attemptVars, outcome, answered>>
  PROVE  /\ OneRowPerKey' /\ RowsInv' /\ AnswersInv'
         /\ SettledTruthfully' /\ SettledTogether'
  BY DEF OneRowPerKey, RowsInv, AnswersInv, SettledTruthfully, SettledTogether,
         Exists, txVars, attemptVars

LEMMA FrameRequests ==
  ASSUME ProgressInv, OwnedByRequest, UNCHANGED <<pc, reply, txVars, attemptVars, outcome>>
  PROVE  ProgressInv' /\ OwnedByRequest'
  BY DEF ProgressInv, OwnedByRequest, Exists, TruthfulWords, txVars, attemptVars

LEMMA FrameWorker ==
  ASSUME WorkerInv, UNCHANGED <<workerVars, txRef, createdAt, outcome>>
  PROVE  WorkerInv'
  BY DEF WorkerInv, IsOldest, TruthfulWords, workerVars

LEMMA FrameEvents ==
  ASSUME EventsInv, ProcessedEventsCount,
         UNCHANGED <<eventVars, queue, outcome, txRef, txStatus>>
  PROVE  EventsInv' /\ ProcessedEventsCount'
  BY DEF EventsInv, ProcessedEventsCount, Stored, CanSend, eventVars

LEMMA FrameHooks ==
  ASSUME AnnouncedOnce, UNCHANGED <<hookVars, txStatus>>
  PROVE  AnnouncedOnce'
  BY DEF AnnouncedOnce, hookVars

\* A call that ends, whatever its answer, or moves on without touching a row.
LEMMA ReplayStep ==
  ASSUME IInv, TypeOK', RanksInv', NEW c \in Calls, NEW t \in Calls, pc[c] \in {"new", "insert"},
         Holds(t, KeyOf[c]), Replay(c, t)
  PROVE  IInv'
<1> USE DEF IInv
<1>1. UNCHANGED <<txVars, attemptVars, eventVars, outcome, workerVars, hookVars, reply>>
  BY DEF Replay
<1>2. OneRowPerKey' /\ RowsInv' /\ SettledTruthfully' /\ SettledTogether'
  BY <1>1 DEF OneRowPerKey, RowsInv, SettledTruthfully, SettledTogether,
              Exists, txVars, attemptVars
<1>3. AnswersInv'
  BY <1>1 DEF AnswersInv, Replay, ReplayAnswer, Holds, Exists, TypeOK, txVars
<1>4. ProgressInv' /\ OwnedByRequest'
  BY <1>1 DEF ProgressInv, OwnedByRequest, Replay, Exists, TruthfulWords, TypeOK,
              txVars, attemptVars
<1>5. WorkerInv' /\ EventsInv' /\ ProcessedEventsCount' /\ AnnouncedOnce'
  BY <1>1, FrameWorker, FrameEvents, FrameHooks DEF txVars, workerVars
<1> QED
  BY <1>2, <1>3, <1>4, <1>5

LEMMA QuietStep ==
  ASSUME IInv, TypeOK', RanksInv', NEW c \in Calls,
         FindMisses(c) \/ Refuse(c) \/ ProviderAnswers(c) \/ CallFails(c)
           \/ AdapterPanics(c) \/ PersistFails(c)
  PROVE  IInv'
<1> USE DEF IInv
<1>1. UNCHANGED <<txVars, attemptVars, eventVars, outcome, workerVars, hookVars, answered>>
  BY DEF FindMisses, Refuse, ProviderAnswers, CallFails, AdapterPanics, PersistFails, Return
<1>2. OneRowPerKey' /\ RowsInv' /\ AnswersInv' /\ SettledTruthfully' /\ SettledTogether'
  BY <1>1, FrameRows
<1>3. ProgressInv' /\ OwnedByRequest'
  <2> USE <1>1 DEF ProgressInv, OwnedByRequest, Exists, TruthfulWords, TypeOK,
                   txVars, attemptVars
  <2>1. CASE FindMisses(c)
    BY <2>1 DEF FindMisses, KeyFree, Holds
  <2>2. CASE Refuse(c)
    BY <2>2 DEF Refuse
  <2>3. CASE ProviderAnswers(c)
    BY <2>3 DEF ProviderAnswers, Return
  <2>4. CASE CallFails(c)
    BY <2>4 DEF CallFails, Return
  <2>5. CASE AdapterPanics(c)
    BY <2>5 DEF AdapterPanics
  <2>6. CASE PersistFails(c)
    BY <2>6 DEF PersistFails
  <2> QED
    BY <2>1, <2>2, <2>3, <2>4, <2>5, <2>6
<1>4. WorkerInv' /\ EventsInv' /\ ProcessedEventsCount' /\ AnnouncedOnce'
  BY <1>1, FrameWorker, FrameEvents, FrameHooks DEF txVars, workerVars
<1> QED
  BY <1>2, <1>3, <1>4

\* The unique index keeps the new row alone under its key, and nothing refers to
\* it yet.
LEMMA InsertStep ==
  ASSUME IInv, TypeOK', RanksInv', NEW c \in Calls, Insert(c)
  PROVE  IInv'
<1> USE DEF IInv, Insert
<1>1. ~Exists(c) /\ ~txRef[c] /\ ~attRef[c] /\ outcome[c] = "none"
  BY DEF ProgressInv, RowsInv
<1>2. /\ txStatus' = [txStatus EXCEPT ![c] = TxProcessing]
      /\ \A t \in Calls : Exists(t)' <=> Exists(t) \/ t = c
  BY DEF TypeOK, Exists, Absent, TxProcessing
<1>3. ~Terminal(txStatus[c]) /\ ~Terminal(TxProcessing)
  BY <1>1 DEF Terminal, TerminalStatuses, TxProcessing, Exists, Absent
<1>4. OneRowPerKey'
  BY <1>2 DEF OneRowPerKey, UniqueIndex, KeyFree, Holds
<1>5. RowsInv'
  BY <1>1, <1>2 DEF RowsInv, TypeOK, Absent, TxProcessing
<1>6. ProgressInv'
  BY <1>1, <1>2 DEF ProgressInv, TypeOK, TruthfulWords
<1>7. AnswersInv'
  BY <1>2 DEF AnswersInv, TypeOK
<1>8. OwnedByRequest'
  BY <1>1, <1>3 DEF OwnedByRequest, SettledTogether, TypeOK
<1>9. SettledTruthfully' /\ SettledTogether'
  BY <1>1, <1>3 DEF SettledTruthfully, SettledTogether, TypeOK
<1>10. WorkerInv'
  <2>1. c \notin rows
    BY <1>1 DEF WorkerInv
  <2>2. \A t \in rows : createdAt'[t] = createdAt[t]
    BY <2>1 DEF TypeOK
  <2> QED
    BY <2>2 DEF WorkerInv, IsOldest, TruthfulWords, TypeOK, workerVars
<1>11. EventsInv'
  BY DEF EventsInv, Stored, CanSend, workerVars, eventVars
<1>12. ProcessedEventsCount'
  <2>1. \A e \in processed : e.tx \in Calls /\ txRef[e.tx] /\ e.tx # c
    BY <1>1, EventFields DEF ProcessedEventsCount, TypeOK
  <2> QED
    BY <2>1 DEF ProcessedEventsCount, Stored, TypeOK, eventVars
<1>13. AnnouncedOnce'
  <2>1. \A n \in outbox : n.tx \in Calls /\ Terminal(n.status)
    BY DEF TypeOK, Notices, Terminal
  <2>2. \A n \in outbox : n.tx # c
    BY <2>1, <1>3 DEF AnnouncedOnce
  <2> QED
    BY <2>1, <2>2, <1>3 DEF AnnouncedOnce, TypeOK, hookVars
<1> QED
  BY <1>4, <1>5, <1>6, <1>7, <1>8, <1>9, <1>10, <1>11, <1>12, <1>13

LEMMA ProviderReceivesStep ==
  ASSUME IInv, TypeOK', RanksInv', NEW c \in Calls, ProviderReceives(c)
  PROVE  IInv'
<1> USE DEF IInv, ProviderReceives
<1>1. Exists(c) /\ ~txRef[c] /\ ~Terminal(txStatus[c]) /\ outcome[c] = "none"
  BY DEF OwnedByRequest, ProgressInv, Exists, Absent, Terminal, TerminalStatuses, TxProcessing
<1>2. OneRowPerKey' /\ RowsInv' /\ AnswersInv' /\ SettledTogether' /\ OwnedByRequest'
  BY <1>1 DEF OneRowPerKey, RowsInv, AnswersInv, SettledTogether, OwnedByRequest,
              Exists, TypeOK, txVars, attemptVars
<1>3. SettledTruthfully'
  BY <1>1 DEF SettledTruthfully, TypeOK, txVars
<1>4. ProgressInv'
  BY <1>1 DEF ProgressInv, TypeOK, Exists, TruthfulWords, txVars
<1>5. WorkerInv'
  BY <1>1 DEF WorkerInv, IsOldest, TruthfulWords, TypeOK, txVars, workerVars
<1>6. EventsInv'
  BY <1>1, EventFields DEF EventsInv, Stored, CanSend, TypeOK, workerVars, eventVars
<1>7. ProcessedEventsCount' /\ AnnouncedOnce'
  BY DEF ProcessedEventsCount, Stored, AnnouncedOnce, txVars, eventVars, hookVars
<1> QED
  BY <1>2, <1>3, <1>4, <1>5, <1>6, <1>7

-------------------------------------------------------------------------------
(* The settle paths.                                                       *)

\* A settled row only takes the status it has; a row that has been created stays.
LEMMA TerminalStays ==
  ASSUME NEW s, NEW status \in Statuses, CanTransition(s, status)
  PROVE  Terminal(s) => status = s
  BY DEF CanTransition, Terminal, TerminalStatuses, TxPending, TxProcessing, TxUnknown

LEMMA OpenOrSettled ==
  /\ \A s \in Statuses : s # Absent
  /\ ~Terminal(Absent) /\ ~Terminal(TxProcessing) /\ ~Terminal(TxUnknown)
  BY DEF Statuses, OpenStatuses, TerminalStatuses, Terminal, Absent, TxPending,
         TxProcessing, TxUnknown

\* The first final status of a row: both rows take it, and it is tracked for
\* publication as the only notice of its transaction.
LEMMA SettlesOpen ==
  ASSUME TypeOK, SettledTruthfully, SettledTogether, AnnouncedOnce,
         NEW t \in Calls, NEW prev, NEW status \in Statuses,
         ~Terminal(txStatus[t]), Terminal(status) => outcome[t] = status,
         SetTransaction(t, status), SetAttempt(t, status), Publish(t, prev, status),
         UNCHANGED <<outcome, announced>>
  PROVE  SettledTruthfully' /\ SettledTogether' /\ AnnouncedOnce'
<1>1. /\ txStatus' = [txStatus EXCEPT ![t] = status]
      /\ attStatus' = [attStatus EXCEPT ![t] = status]
      /\ attDone'[t] = (attDone[t] \/ Terminal(status))
      /\ \A u \in Calls \ {t} : attDone'[u] = attDone[u]
  BY DEF SetTransaction, SetAttempt, TypeOK
<1>2. ~attDone[t] /\ announced[t] = 0
  BY DEF SettledTogether, AnnouncedOnce, TypeOK
<1>3. \A n \in outbox : n.tx \in Calls /\ n.tx # t
  BY DEF AnnouncedOnce, TypeOK, Notices, Terminal
<1>4. SettledTruthfully'
  BY <1>1 DEF SettledTruthfully, TypeOK
<1>5. SettledTogether'
  BY <1>1, <1>2 DEF SettledTogether, TypeOK
<1>6. AnnouncedOnce'
  <2>1. ASSUME NEW u \in Calls, announced'[u] > 0
        PROVE  announced'[u] = 1 /\ Terminal(txStatus'[u])
    BY <1>1, <1>2, <2>1 DEF AnnouncedOnce, TypeOK
  <2>2. CASE Terminal(status)
    <3> DEFINE m == [tx |-> t, prev |-> prev, status |-> status]
    <3>1. outbox' = outbox \cup {m} /\ m.tx = t /\ m.status = status
      BY <2>2 DEF Publish
    <3> HIDE DEF m
    <3>2. txStatus'[t] = status /\ \A u \in Calls \ {t} : txStatus'[u] = txStatus[u]
      BY <1>1 DEF TypeOK
    <3> QED
      BY <2>1, <1>2, <1>3, <3>1, <3>2 DEF AnnouncedOnce
  <2>3. CASE ~Terminal(status)
    BY <2>1, <2>3, <1>1, <1>3 DEF Publish, AnnouncedOnce, TypeOK
  <2> QED
    BY <2>2, <2>3
<1> QED
  BY <1>4, <1>5, <1>6

\* A status reported by a webhook or a query: a legal move, or none at all.
LEMMA Settles ==
  ASSUME TypeOK, SettledTruthfully, SettledTogether, AnnouncedOnce,
         NEW t \in Calls, NEW status \in Statuses,
         CanTransition(txStatus[t], status), Terminal(status) => outcome[t] = status,
         SetTransaction(t, status), SetAttempt(t, status), PublishChange(t, status),
         UNCHANGED <<outcome, announced>>
  PROVE  SettledTruthfully' /\ SettledTogether' /\ AnnouncedOnce'
<1>1. CASE ~Terminal(txStatus[t])
  <2>1. Publish(t, txStatus[t], status)
    BY <1>1 DEF PublishChange, Publish
  <2> QED
    BY <1>1, <2>1, SettlesOpen
<1>2. CASE Terminal(txStatus[t])
  <2>1. status = txStatus[t] /\ attStatus[t] = txStatus[t] /\ attDone[t]
    BY <1>2, TerminalStays DEF SettledTogether
  <2>2. txStatus' = txStatus /\ attStatus' = attStatus /\ outbox' = outbox
    BY <2>1 DEF SetTransaction, SetAttempt, PublishChange, TypeOK
  <2>3. attDone' = attDone
    BY <2>1 DEF SetAttempt, TypeOK
  <2> QED
    BY <2>2, <2>3 DEF SettledTruthfully, SettledTogether, AnnouncedOnce
<1> QED
  BY <1>1, <1>2

\* A move of one row that keeps the rows there are.
LEMMA RowKept ==
  ASSUME IInv, NEW t \in Calls, NEW status \in Statuses, Exists(t),
         SetTransaction(t, status)
  PROVE  /\ \A u \in Calls : Exists(u)' <=> Exists(u)
         /\ \A u \in Calls \ {t} : txStatus'[u] = txStatus[u]
         /\ txStatus'[t] = status
         /\ OneRowPerKey'
<1> USE DEF IInv
<1>1. /\ \A u \in Calls \ {t} : txStatus'[u] = txStatus[u]
      /\ txStatus'[t] = status
  BY DEF SetTransaction, TypeOK
<1>2. \A u \in Calls : Exists(u)' <=> Exists(u)
  BY <1>1, OpenOrSettled DEF Exists
<1> QED
  BY <1>1, <1>2 DEF OneRowPerKey

\* A row with a reference is nobody's but the webhooks' and the worker's: requests
\* in flight are not concerned by what happens to it.
LEMMA RequestsKept ==
  ASSUME IInv, NEW t \in Calls, txRef[t],
         \A u \in Calls : Exists(u)' <=> Exists(u),
         \A u \in Calls \ {t} :
           /\ txStatus'[u] = txStatus[u] /\ txRef'[u] = txRef[u]
           /\ attStatus'[u] = attStatus[u] /\ attRef'[u] = attRef[u]
           /\ attDone'[u] = attDone[u],
         UNCHANGED <<requestVars, outcome>>
  PROVE  ProgressInv' /\ OwnedByRequest' /\ AnswersInv'
<1> USE DEF IInv, requestVars
<1>1. pc[t] \notin {"execute", "await", "persist"}
  BY DEF OwnedByRequest
<1>2. ProgressInv'
  BY DEF ProgressInv, TruthfulWords
<1>3. OwnedByRequest'
  BY <1>1 DEF OwnedByRequest
<1>4. AnswersInv'
  BY DEF AnswersInv, TypeOK
<1> QED
  BY <1>2, <1>3, <1>4

\* persist overwrites rows it does not look at: nothing else has touched them,
\* because they have no reference.
LEMMA PersistStep ==
  ASSUME IInv, TypeOK', RanksInv', NEW c \in Calls, Persist(c)
  PROVE  IInv'
<1> DEFINE status == RequestStatus(reply[c])
<1> USE DEF IInv
<1>1. /\ txStatus[c] = TxProcessing /\ attStatus[c] = TxProcessing
      /\ ~txRef[c] /\ ~attRef[c] /\ pc[c] = "persist"
  BY DEF OwnedByRequest, Persist
<1>2. status \in Statuses
  BY RequestStatusType DEF Statuses, OpenStatuses
<1>3. Exists(c) /\ ~Terminal(txStatus[c])
  BY <1>1, OpenOrSettled DEF Exists, TxProcessing, Absent
<1>4. Terminal(status) => outcome[c] = status
  <2>1. CASE reply[c] = Failure
    BY <2>1, OpenOrSettled DEF RequestStatus
  <2>2. CASE reply[c] # Failure
    BY <2>2, <1>1 DEF ProgressInv, TruthfulWords, RequestStatus
  <2> QED
    BY <2>1, <2>2
<1>5. /\ SetTransaction(c, status) /\ SetAttempt(c, status)
      /\ Publish(c, TxPending, status)
      /\ UNCHANGED <<createdAt, eventVars, outcome, workerVars, announced, crashes>>
  BY DEF Persist
<1>6. /\ pc' = [pc EXCEPT ![c] = "done"]
      /\ reply' = [reply EXCEPT ![c] = NoReply]
      /\ answered' = [answered EXCEPT ![c] = c]
      /\ txRef'[c] = attRef'[c]
      /\ \A u \in Calls \ {c} : txRef'[u] = txRef[u] /\ attRef'[u] = attRef[u]
  BY <1>1 DEF Persist, TypeOK
<1> HIDE DEF status
<1>7. /\ \A u \in Calls : Exists(u)' <=> Exists(u)
      /\ \A u \in Calls \ {c} : txStatus'[u] = txStatus[u]
      /\ txStatus'[c] = status
      /\ OneRowPerKey'
  BY <1>2, <1>3, <1>5, RowKept
<1>8. SettledTruthfully' /\ SettledTogether' /\ AnnouncedOnce'
  BY <1>2, <1>3, <1>4, <1>5, SettlesOpen
<1>9. /\ \A u \in Calls \ {c} : attStatus'[u] = attStatus[u] /\ attDone'[u] = attDone[u]
      /\ attStatus'[c] = status
  BY <1>5 DEF SetAttempt, TypeOK
<1>10. RowsInv'
  BY <1>2, <1>3, <1>5, <1>6, <1>7, <1>9, OpenOrSettled DEF RowsInv
<1>11. ProgressInv'
  BY <1>5, <1>6, <1>7 DEF ProgressInv, TruthfulWords, TypeOK
<1>12. AnswersInv'
  BY <1>3, <1>6, <1>7 DEF AnswersInv, TypeOK
<1>13. OwnedByRequest'
  BY <1>6, <1>7, <1>9 DEF OwnedByRequest, TypeOK
<1>14. WorkerInv'
  BY <1>1, <1>5, <1>6 DEF WorkerInv, IsOldest, TruthfulWords, TypeOK, workerVars
<1>15. EventsInv'
  BY <1>5 DEF EventsInv, Stored, CanSend, workerVars, eventVars
<1>16. ProcessedEventsCount'
  <2>1. \A e \in processed : e.tx \in Calls /\ e.tx # c
    BY <1>1, EventFields DEF ProcessedEventsCount, TypeOK
  <2> QED
    BY <2>1, <1>5, <1>6, <1>7 DEF ProcessedEventsCount, Stored, eventVars
<1> QED
  BY <1>7, <1>8, <1>10, <1>11, <1>12, <1>13, <1>14, <1>15, <1>16

\* apply finds a row with a reference and a status the event may follow; the event
\* that takes effect is the one that is marked.
LEMMA ApplyStep ==
  ASSUME IInv, NEW e \in Events, CanSend(e), Stored(e)', Applicable(e), Apply(e),
         \A f \in processed : Stored(f) => Stored(f)',
         UNCHANGED <<requestVars, outcome>>
  PROVE  /\ OneRowPerKey' /\ RowsInv' /\ ProgressInv' /\ AnswersInv'
         /\ OwnedByRequest' /\ SettledTruthfully' /\ SettledTogether'
         /\ ProcessedEventsCount' /\ AnnouncedOnce'
         /\ UNCHANGED <<txRef, createdAt>>
<1> DEFINE t == e.tx
           status == e.status
<1> USE DEF IInv
<1>1. t \in Calls /\ status \in Statuses
  BY EventFields
<1>2. /\ CanTransition(txStatus[t], status) /\ e.fit = "fits"
      /\ Terminal(status) => outcome[t] = status
  BY DEF Applicable, CanSend
<1>3. attRef[t] /\ txRef[t]
  BY <1>1 DEF Applicable, Matched, RowsInv
<1>4. Exists(t)
  BY <1>1, <1>2, TransitionExists
<1>5. /\ SetTransaction(t, status) /\ SetAttempt(t, status) /\ PublishChange(t, status)
      /\ processed' = processed \cup {e}
      /\ UNCHANGED <<createdAt, announced>>
  BY DEF Apply, Marked
<1>6. txRef' = txRef /\ attRef' = attRef
  BY <1>1, <1>3 DEF Apply, TypeOK
<1> HIDE DEF t, status
<1>7. /\ \A u \in Calls : Exists(u)' <=> Exists(u)
      /\ \A u \in Calls \ {t} : txStatus'[u] = txStatus[u]
      /\ txStatus'[t] = status
      /\ OneRowPerKey'
  BY <1>1, <1>4, <1>5, RowKept
<1>8. SettledTruthfully' /\ SettledTogether' /\ AnnouncedOnce'
  BY <1>1, <1>2, <1>5, Settles
<1>9. /\ \A u \in Calls \ {t} : attStatus'[u] = attStatus[u] /\ attDone'[u] = attDone[u]
      /\ attStatus'[t] = status
  BY <1>1, <1>5 DEF SetAttempt, TypeOK
<1>10. RowsInv'
  BY <1>1, <1>4, <1>6, <1>7, <1>9, OpenOrSettled DEF RowsInv
<1>11. ProgressInv' /\ OwnedByRequest' /\ AnswersInv'
  BY <1>1, <1>3, <1>6, <1>7, <1>9, RequestsKept
<1>12. ProcessedEventsCount'
  <2>1. Stored(e)' /\ e.fit = "fits" /\ txRef'[e.tx] /\ txStatus'[e.tx] = e.status
    BY <1>2, <1>3, <1>6, <1>7 DEF t, status
  <2>2. ASSUME NEW f \in processed
        PROVE  /\ Stored(f)' /\ f.fit = "fits" /\ txRef'[f.tx]
               /\ Terminal(f.status) => txStatus'[f.tx] = f.status
    <3>1. f.tx \in Calls
      BY EventFields DEF TypeOK
    <3>2. Terminal(txStatus[t]) => txStatus'[t] = txStatus[t]
      BY <1>1, <1>2, <1>7, TerminalStays
    <3> QED
      BY <3>1, <3>2, <1>6, <1>7 DEF ProcessedEventsCount
  <2> QED
    BY <2>1, <2>2, <1>5 DEF ProcessedEventsCount
<1> QED
  BY <1>5, <1>6, <1>7, <1>8, <1>10, <1>11, <1>12

\* Storing an event gives it a rank and leaves the others theirs.
LEMMA StoreKeeps ==
  ASSUME TypeOK, NEW e \in Events, Store(e)
  PROVE  /\ Stored(e)'
         /\ \A f \in Events : Stored(f)' <=> Stored(f) \/ f = e
  BY RankType DEF Store, Stored, TypeOK

LEMMA WebhookStepIInv ==
  ASSUME IInv, TypeOK', RanksInv', NEW e \in Events, WebhookStep(e)
  PROVE  IInv'
<1> USE DEF IInv
<1>1. CanSend(e) /\ Store(e) /\ UNCHANGED <<requestVars, outcome, workerVars, crashes>>
  BY DEF WebhookStep, HandleStores, HandleApplies
<1>2. Stored(e)' /\ \A f \in Events : Stored(f)' <=> Stored(f) \/ f = e
  BY <1>1, StoreKeeps
<1>3. EventsInv'
  BY <1>1, <1>2 DEF EventsInv, CanSend, TypeOK, workerVars
<1>4. CASE HandleStores(e)
  <2>1. UNCHANGED <<txVars, attemptVars, outcome, answered, pc, reply, processed, hookVars>>
    BY <1>4 DEF HandleStores, requestVars
  <2>2. /\ OneRowPerKey' /\ RowsInv' /\ AnswersInv' /\ SettledTruthfully'
        /\ SettledTogether' /\ ProgressInv' /\ OwnedByRequest'
    BY <2>1, FrameRows, FrameRequests
  <2>3. WorkerInv' /\ AnnouncedOnce'
    BY <1>1, <2>1, FrameWorker, FrameHooks DEF txVars
  <2>4. ProcessedEventsCount'
    BY <1>2, <2>1 DEF ProcessedEventsCount, TypeOK, txVars
  <2> QED
    BY <1>3, <2>2, <2>3, <2>4
<1>5. CASE HandleApplies(e)
  <2>1. Applicable(e) /\ Apply(e)
    BY <1>5 DEF HandleApplies
  <2>2. \A f \in processed : Stored(f) => Stored(f)'
    BY <1>2 DEF TypeOK
  <2>3. /\ OneRowPerKey' /\ RowsInv' /\ ProgressInv' /\ AnswersInv'
        /\ OwnedByRequest' /\ SettledTruthfully' /\ SettledTogether'
        /\ ProcessedEventsCount' /\ AnnouncedOnce'
        /\ UNCHANGED <<txRef, createdAt>>
    BY <1>1, <1>2, <2>1, <2>2, ApplyStep
  <2>4. WorkerInv'
    BY <1>1, <2>3, FrameWorker
  <2> QED
    BY <1>3, <2>3, <2>4
<1> QED
  BY <1>4, <1>5 DEF WebhookStep

\* The provider decides once: what it said before is still true.
LEMMA ProviderDecidesStep ==
  ASSUME IInv, TypeOK', RanksInv', NEW t \in Calls, ProviderDecides(t)
  PROVE  IInv'
<1> USE DEF IInv, ProviderDecides
<1>1. /\ outcome[t] = "processing" /\ outcome'[t] \in TerminalStatuses
      /\ \A u \in Calls \ {t} : outcome'[u] = outcome[u]
  BY ProviderAssumption DEF TypeOK
<1>2. \A u \in Calls : \A s : Terminal(s) /\ outcome[u] = s => outcome'[u] = s
  BY <1>1 DEF Terminal, TerminalStatuses
<1>3. \A u \in Calls : /\ outcome[u] = "none" <=> outcome'[u] = "none"
                       /\ TruthfulWords(u) \subseteq TruthfulWords(u)'
  BY <1>1, <1>2 DEF TruthfulWords, TerminalStatuses
<1>4. OneRowPerKey' /\ RowsInv' /\ AnswersInv' /\ SettledTogether' /\ OwnedByRequest'
  BY <1>3 DEF OneRowPerKey, RowsInv, AnswersInv, SettledTogether, OwnedByRequest, Exists,
              requestVars, txVars, attemptVars
<1>5. SettledTruthfully'
  BY <1>2 DEF SettledTruthfully, txVars
<1>6. ProgressInv'
  BY <1>3 DEF ProgressInv, Exists, requestVars, txVars
<1>7. WorkerInv'
  BY <1>3 DEF WorkerInv, IsOldest, TypeOK, txVars, workerVars
<1>8. EventsInv'
  <2>1. ASSUME NEW e \in Events, CanSend(e) PROVE CanSend(e)'
    BY <2>1, <1>2, <1>3, EventFields DEF CanSend
  <2> QED
    BY <2>1 DEF EventsInv, Stored, workerVars, eventVars
<1>9. ProcessedEventsCount' /\ AnnouncedOnce'
  BY DEF ProcessedEventsCount, Stored, AnnouncedOnce, txVars, eventVars, hookVars
<1> QED
  BY <1>4, <1>5, <1>6, <1>7, <1>8, <1>9

LEMMA TickStep ==
  ASSUME IInv, TypeOK', RanksInv', NEW t \in Calls, Tick(t)
  PROVE  IInv'
<1> USE DEF IInv, Tick
<1>1. OneRowPerKey' /\ RowsInv' /\ AnswersInv' /\ SettledTogether' /\ OwnedByRequest'
      /\ SettledTruthfully' /\ ProgressInv'
  BY DEF OneRowPerKey, RowsInv, AnswersInv, SettledTogether, OwnedByRequest,
         SettledTruthfully, ProgressInv, TruthfulWords, Exists, requestVars, attemptVars
<1>2. WorkerInv' /\ EventsInv' /\ ProcessedEventsCount' /\ AnnouncedOnce'
  BY FrameWorker, FrameEvents, FrameHooks DEF workerVars
<1> QED
  BY <1>1, <1>2

\* A pass that moves on without touching a row.
LEMMA QuietWorkerStep ==
  ASSUME IInv, TypeOK', RanksInv',
         \/ StartPass \/ LoadPending \/ QueueDone \/ PassFails
         \/ \E t \in Calls : Query(t) \/ Skip(t)
         \/ \E e \in Events : RetryPasses(e) \/ RetryRefused(e)
  PROVE  IInv'
<1> USE DEF IInv
<1>1. UNCHANGED <<requestVars, txVars, attemptVars, eventVars, outcome, hookVars>>
  BY DEF StartPass, LoadPending, QueueDone, PassFails, Query, Skip, RetryPasses, RetryRefused,
         EndPass, NextRow, txVars, attemptVars, hookVars
<1>2. /\ OneRowPerKey' /\ RowsInv' /\ AnswersInv' /\ SettledTruthfully'
      /\ SettledTogether' /\ ProgressInv' /\ OwnedByRequest' /\ AnnouncedOnce'
  BY <1>1, FrameRows, FrameRequests, FrameHooks DEF requestVars, txVars
<1>3. ProcessedEventsCount'
  BY <1>1 DEF ProcessedEventsCount, Stored, txVars, eventVars
<1>4. WorkerInv' /\ EventsInv'
  <2> USE <1>1 DEF WorkerInv, EventsInv, Stored, CanSend, TruthfulWords, txVars, eventVars
  <2>1. CASE StartPass
    BY <2>1 DEF StartPass, OldestOf, Due
  <2>2. CASE LoadPending
    BY <2>2 DEF LoadPending, OldestOf, IsOldest
  <2>3. CASE QueueDone \/ PassFails
    BY <2>3 DEF QueueDone, PassFails, EndPass
  <2>4. ASSUME NEW t \in Calls, Query(t) PROVE WorkerInv' /\ EventsInv'
    <3>1. rows' = rows /\ queue' = queue /\ wreply' \in TruthfulWords(t) \cup {"error"}
          /\ IsOldest(t, rows, createdAt) /\ wpc' = "answer"
      BY <2>4 DEF Query
    <3>2. EventsInv'
      BY <3>1
    <3>3. ASSUME NEW u \in Calls, IsOldest(u, rows, createdAt)
          PROVE  u = t
      <4>1. u \in rows /\ t \in rows /\ createdAt[u] = createdAt[t]
        BY <3>1, <3>3 DEF IsOldest, TypeOK
      <4>2. Exists(u) /\ Exists(t)
        BY <4>1 DEF RowsInv
      <4> QED
        BY <4>1, <4>2 DEF RanksInv
    <3> QED
      BY <3>1, <3>2, <3>3 DEF IsOldest
  <2>5. ASSUME NEW t \in Calls, Skip(t) PROVE WorkerInv' /\ EventsInv'
    BY <2>5 DEF Skip, NextRow
  <2>6. ASSUME NEW e \in Events, RetryPasses(e) PROVE WorkerInv' /\ EventsInv'
    BY <2>6 DEF RetryPasses, Retrying
  <2>7. ASSUME NEW e \in Events, RetryRefused(e) PROVE WorkerInv' /\ EventsInv'
    BY <2>7 DEF RetryRefused, EndPass
  <2> QED
    BY <2>1, <2>2, <2>3, <2>4, <2>5, <2>6, <2>7
<1> QED
  BY <1>2, <1>3, <1>4

\* A pass uses an answer given before it locked the row: it is still true, and a
\* row that was settled meanwhile is left alone.
LEMMA ReconcileStep ==
  ASSUME IInv, TypeOK', RanksInv', NEW t \in Calls, Reconcile(t)
  PROVE  IInv'
<1> DEFINE status == PaymentStatus(wreply)
<1> USE DEF IInv
<1>1. status \in Statuses
  BY PaymentStatusType
<1>2. /\ txRef[t] /\ ~Terminal(txStatus[t]) /\ CanTransition(txStatus[t], status)
      /\ wreply \in TruthfulWords(t)
  BY DEF Reconcile, Answered, WorkerInv, IsOldest
<1>3. Terminal(status) => outcome[t] = status
  BY <1>2 DEF TruthfulWords
<1>4. /\ SetTransaction(t, status) /\ SetAttempt(t, status) /\ PublishChange(t, status)
      /\ NextRow(t)
  BY DEF Reconcile
<1> HIDE DEF status
<1>5. /\ UNCHANGED <<requestVars, txRef, createdAt, attRef, eventVars, outcome, queue,
                     announced>>
      /\ wpc' = "rows" /\ rows' \subseteq rows
  BY <1>4 DEF NextRow
<1>6. Exists(t)
  BY <1>1, <1>2, TransitionExists
<1>7. /\ \A u \in Calls : Exists(u)' <=> Exists(u)
      /\ \A u \in Calls \ {t} : txStatus'[u] = txStatus[u]
      /\ txStatus'[t] = status
      /\ OneRowPerKey'
  BY <1>1, <1>4, <1>6, RowKept
<1>8. SettledTruthfully' /\ SettledTogether' /\ AnnouncedOnce'
  BY <1>1, <1>2, <1>3, <1>4, <1>5, Settles
<1>9. /\ \A u \in Calls \ {t} : attStatus'[u] = attStatus[u] /\ attDone'[u] = attDone[u]
      /\ attStatus'[t] = status
  BY <1>4 DEF SetAttempt, TypeOK
<1>10. RowsInv'
  BY <1>1, <1>5, <1>6, <1>7, <1>9, OpenOrSettled DEF RowsInv
<1>11. ProgressInv' /\ OwnedByRequest' /\ AnswersInv'
  BY <1>2, <1>5, <1>7, <1>9, RequestsKept
<1>12. WorkerInv' /\ EventsInv'
  BY <1>5 DEF WorkerInv, EventsInv, Stored, CanSend, eventVars
<1>13. ProcessedEventsCount'
  <2>1. \A e \in processed : e.tx \in Calls /\ (Terminal(txStatus[e.tx]) => e.tx # t)
    BY <1>2, EventFields DEF TypeOK
  <2> QED
    BY <2>1, <1>5, <1>7 DEF ProcessedEventsCount, Stored, eventVars
<1> QED
  BY <1>7, <1>8, <1>10, <1>11, <1>12, <1>13

\* A failed query only moves an open transaction to unknown.
LEMMA DeferRetryStep ==
  ASSUME IInv, TypeOK', RanksInv', NEW t \in Calls, DeferRetry(t)
  PROVE  IInv'
<1> USE DEF IInv
<1>1. txRef[t] /\ ~Terminal(txStatus[t]) /\ CanTransition(txStatus[t], TxUnknown)
  BY DEF DeferRetry, Answered, WorkerInv, IsOldest
<1>2. TxUnknown \in Statuses /\ ~Terminal(TxUnknown)
  BY OpenOrSettled DEF Statuses, OpenStatuses
<1>3. /\ UNCHANGED <<requestVars, txRef, createdAt, attemptVars, eventVars, outcome, queue,
                     hookVars>>
      /\ wpc' = "rows" /\ rows' \subseteq rows
      /\ SetTransaction(t, TxUnknown)
  BY DEF DeferRetry, NextRow, attemptVars, hookVars
<1>4. Exists(t)
  BY <1>1, <1>2, TransitionExists
<1>5. /\ \A u \in Calls : Exists(u)' <=> Exists(u)
      /\ \A u \in Calls \ {t} : txStatus'[u] = txStatus[u]
      /\ txStatus'[t] = TxUnknown
      /\ OneRowPerKey'
  BY <1>2, <1>3, <1>4, RowKept
<1>6. SettledTruthfully' /\ SettledTogether' /\ RowsInv'
  BY <1>1, <1>2, <1>3, <1>5 DEF SettledTruthfully, SettledTogether, RowsInv, attemptVars
<1>7. ProgressInv' /\ OwnedByRequest' /\ AnswersInv'
  BY <1>1, <1>3, <1>5, RequestsKept DEF attemptVars
<1>8. WorkerInv' /\ EventsInv'
  BY <1>3 DEF WorkerInv, EventsInv, Stored, CanSend, eventVars
<1>9. ProcessedEventsCount'
  <2>1. \A e \in processed : e.tx \in Calls /\ (Terminal(txStatus[e.tx]) => e.tx # t)
    BY <1>1, EventFields DEF TypeOK
  <2> QED
    BY <2>1, <1>3, <1>5 DEF ProcessedEventsCount, Stored, eventVars
<1>10. AnnouncedOnce'
  <2>1. \A n \in outbox : n.tx \in Calls /\ n.tx # t
    BY <1>1 DEF AnnouncedOnce, TypeOK, Notices, Terminal
  <2> QED
    BY <2>1, <1>1, <1>3, <1>5 DEF AnnouncedOnce, TypeOK, hookVars
<1> QED
  BY <1>5, <1>6, <1>7, <1>8, <1>9, <1>10

LEMMA RetryAppliesStep ==
  ASSUME IInv, TypeOK', RanksInv', NEW e \in Events, RetryApplies(e)
  PROVE  IInv'
<1> USE DEF IInv
<1>1. /\ UNCHANGED <<requestVars, receivedAt, outcome, wpc, rows, wreply>>
      /\ queue' \subseteq queue /\ e \in queue /\ Applicable(e) /\ Apply(e)
  BY DEF RetryApplies, Retrying, IsOldest
<1>2. Stored(e) /\ CanSend(e) /\ \A f \in Events : Stored(f)' <=> Stored(f)
  BY <1>1 DEF EventsInv, Stored
<1>3. /\ OneRowPerKey' /\ RowsInv' /\ ProgressInv' /\ AnswersInv'
      /\ OwnedByRequest' /\ SettledTruthfully' /\ SettledTogether'
      /\ ProcessedEventsCount' /\ AnnouncedOnce'
      /\ UNCHANGED <<txRef, createdAt>>
  <2>1. \A f \in processed : Stored(f) => Stored(f)'
    BY <1>2 DEF TypeOK
  <2> QED
    BY <1>1, <1>2, <2>1, ApplyStep
<1>4. WorkerInv'
  BY <1>1, <1>3 DEF WorkerInv, IsOldest, TruthfulWords
<1>5. EventsInv'
  BY <1>1, <1>2 DEF EventsInv, CanSend, TypeOK
<1> QED
  BY <1>3, <1>4, <1>5

LEMMA AnnounceStep ==
  ASSUME IInv, TypeOK', RanksInv', NEW n \in outbox, Announce(n)
  PROVE  IInv'
<1> USE DEF IInv
<1>1. UNCHANGED <<requestVars, txVars, attemptVars, eventVars, outcome, workerVars>>
  BY DEF Announce
<1>2. /\ OneRowPerKey' /\ RowsInv' /\ AnswersInv' /\ SettledTruthfully'
      /\ SettledTogether' /\ ProgressInv' /\ OwnedByRequest'
  BY <1>1, FrameRows, FrameRequests DEF requestVars
<1>3. WorkerInv' /\ EventsInv' /\ ProcessedEventsCount'
  BY <1>1, FrameWorker, FrameEvents DEF txVars, workerVars
<1>4. AnnouncedOnce'
  <2>1. /\ n.tx \in Calls /\ Terminal(txStatus[n.tx]) /\ announced[n.tx] = 0
        /\ \A m \in outbox : m.tx = n.tx => m = n
    BY DEF AnnouncedOnce, TypeOK, Notices, Terminal
  <2>2. /\ outbox' = outbox \ {n} /\ announced'[n.tx] = 1
        /\ \A u \in Calls \ {n.tx} : announced'[u] = announced[u]
    BY <2>1 DEF Announce, TypeOK
  <2>3. \A m \in outbox' : m.tx \in Calls /\ m.tx # n.tx
    BY <2>1, <2>2 DEF TypeOK, Notices
  <2> QED
    BY <2>1, <2>2, <2>3, <1>1 DEF AnnouncedOnce, txVars
<1> QED
  BY <1>2, <1>3, <1>4

\* A restart forgets what was in flight; the tables are consistent at every
\* instant.
LEMMA CrashStep ==
  ASSUME IInv, TypeOK', RanksInv', Crash
  PROVE  IInv'
<1> USE DEF IInv, Crash
<1>1. OneRowPerKey' /\ RowsInv' /\ AnswersInv' /\ SettledTruthfully' /\ SettledTogether'
  BY FrameRows
<1>2. ProgressInv' /\ OwnedByRequest'
  BY DEF ProgressInv, OwnedByRequest, Exists, txVars
<1>3. WorkerInv' /\ EventsInv' /\ ProcessedEventsCount' /\ AnnouncedOnce'
  BY DEF WorkerInv, EventsInv, ProcessedEventsCount, AnnouncedOnce, Stored, CanSend,
         txVars, eventVars
<1> QED
  BY <1>1, <1>2, <1>3

-------------------------------------------------------------------------------
(* What a step may do to the statuses, and the invariant of every step.    *)

Inserts == \E c \in Calls : Insert(c)
Moves   == \E t \in Calls, status \in Statuses :
             /\ CanTransition(txStatus[t], status)
             /\ txStatus' = [txStatus EXCEPT ![t] = status]
             /\ UNCHANGED createdAt

LEMMA ApplyMoves ==
  ASSUME NEW e \in Events, Applicable(e), Apply(e)
  PROVE  Moves
<1>1. e.tx \in Calls /\ e.status \in Statuses
  BY EventFields
<1> QED
  BY <1>1 DEF Moves, Applicable, Apply, SetTransaction

\* Every step inserts one row, moves one row along the graph, or moves none.
LEMMA StatusSteps ==
  ASSUME IInv, [Next]_vars
  PROVE  Inserts \/ Moves \/ UNCHANGED <<txStatus, createdAt>>
<1> USE DEF txVars
<1>1. ASSUME NEW c \in Calls, RequestStep(c)
      PROVE  Inserts \/ Moves \/ UNCHANGED <<txStatus, createdAt>>
  <2>1. CASE Insert(c)
    BY <2>1 DEF Inserts
  <2>2. CASE Persist(c)
    <3>1. txStatus[c] = TxProcessing
      BY <2>2 DEF IInv, OwnedByRequest, Persist
    <3>2. /\ RequestStatus(reply[c]) \in Statuses
          /\ CanTransition(TxProcessing, RequestStatus(reply[c]))
      BY RequestStatusType DEF Statuses, OpenStatuses, CanTransition, Terminal
    <3> QED
      BY <2>2, <3>1, <3>2 DEF Moves, Persist, SetTransaction
  <2>3. CASE ~Insert(c) /\ ~Persist(c)
    BY <1>1, <2>3 DEF RequestStep, FindReplays, FindMisses, Refuse, InsertConflicts, Replay,
         ProviderReceives, ProviderAnswers, CallFails, Return, AdapterPanics, PersistFails
  <2> QED
    BY <2>1, <2>2, <2>3
<1>2. ASSUME NEW e \in Events, WebhookStep(e)
      PROVE  Moves \/ UNCHANGED <<txStatus, createdAt>>
  BY <1>2, ApplyMoves DEF WebhookStep, HandleStores, HandleApplies
<1>3. ASSUME WorkerStep
      PROVE  Moves \/ UNCHANGED <<txStatus, createdAt>>
  <2>1. ASSUME NEW t \in Calls, Reconcile(t) PROVE Moves
    BY <2>1, PaymentStatusType DEF Moves, Reconcile, SetTransaction, NextRow
  <2>2. ASSUME NEW t \in Calls, DeferRetry(t) PROVE Moves
    <3>1. TxUnknown \in Statuses
      BY DEF Statuses, OpenStatuses
    <3> QED
      BY <2>2, <3>1 DEF Moves, DeferRetry, SetTransaction, NextRow
  <2>3. ASSUME NEW t \in Calls, Query(t) \/ Skip(t) PROVE UNCHANGED <<txStatus, createdAt>>
    BY <2>3 DEF Query, Skip, NextRow
  <2>4. ASSUME NEW e \in Events, RetryApplies(e) PROVE Moves
    BY <2>4, ApplyMoves DEF RetryApplies
  <2>5. ASSUME NEW e \in Events, RetryPasses(e) \/ RetryRefused(e)
        PROVE  UNCHANGED <<txStatus, createdAt>>
    BY <2>5 DEF RetryPasses, RetryRefused, EndPass
  <2>6. ASSUME StartPass \/ LoadPending \/ QueueDone \/ PassFails
        PROVE  UNCHANGED <<txStatus, createdAt>>
    BY <2>6 DEF StartPass, LoadPending, QueueDone, PassFails, EndPass
  <2> QED
    BY <1>3, <2>1, <2>2, <2>3, <2>4, <2>5, <2>6 DEF WorkerStep
<1>4. ASSUME NEW t \in Calls, ProviderDecides(t) \/ Tick(t)
      PROVE  UNCHANGED <<txStatus, createdAt>>
  BY <1>4 DEF ProviderDecides, Tick
<1>5. ASSUME NEW n \in outbox, Announce(n) PROVE UNCHANGED <<txStatus, createdAt>>
  BY <1>5 DEF Announce
<1>6. ASSUME Crash \/ UNCHANGED vars PROVE UNCHANGED <<txStatus, createdAt>>
  BY <1>6 DEF Crash, vars
<1> QED
  BY <1>1, <1>2, <1>3, <1>4, <1>5, <1>6 DEF Next

\* Rows are numbered in the order of their creation.
LEMMA RanksStep == IInv /\ [Next]_vars => RanksInv'
<1> SUFFICES ASSUME IInv, [Next]_vars PROVE RanksInv'
  OBVIOUS
<1> DEFINE There == {t \in Calls : Exists(t)}
<1>1. IsFiniteSet(There) /\ Cardinality(There) \in Nat
  BY FS_Subset, FS_CardinalityType, RequestAssumption
<1>2. ASSUME NEW c \in Calls, Insert(c) PROVE RanksInv'
  <2>1. c \notin There
    BY <1>2 DEF IInv, ProgressInv, Insert
  <2>2. \A t \in Calls : Exists(t)' <=> Exists(t) \/ t = c
    BY <1>2 DEF IInv, TypeOK, Insert, Exists, Absent, TxProcessing
  <2>3. There' = There \cup {c}
    BY <2>2
  <2>4. Cardinality(There') = Cardinality(There) + 1
    BY <1>1, <2>1, <2>3, FS_AddElement
  <2>5. /\ createdAt'[c] = Cardinality(There) + 1
        /\ \A t \in Calls \ {c} : createdAt'[t] = createdAt[t]
    BY <1>2 DEF IInv, TypeOK, Insert
  <2>6. \A t \in There : createdAt[t] <= Cardinality(There) /\ createdAt[t] \in Nat
    BY DEF IInv, RanksInv, TypeOK
  <2>7. ASSUME NEW t \in Calls, NEW u \in Calls, Exists(t)'
        PROVE  /\ createdAt'[t] <= Cardinality(There')
               /\ Exists(u)' /\ createdAt'[t] = createdAt'[u] => t = u
    <3>1. t \in There \/ t = c
      BY <2>2, <2>7
    <3>2. createdAt'[t] <= Cardinality(There')
      <4> HIDE DEF There
      <4> QED
        BY <3>1, <2>1, <2>4, <2>5, <2>6, <1>1
    <3>3. ASSUME Exists(u)', createdAt'[t] = createdAt'[u] PROVE t = u
      <4>1. u \in There \/ u = c
        BY <2>2, <3>3
      <4>2. t \in There /\ u \in There => t = u
        BY <2>1, <2>5, <3>3 DEF IInv, RanksInv
      <4> HIDE DEF There
      <4> QED
        BY <3>1, <3>3, <4>1, <4>2, <2>1, <2>5, <2>6, <1>1
    <3> QED
      BY <3>2, <3>3
  <2> QED
    BY <2>7 DEF RanksInv
<1>3. ASSUME UNCHANGED createdAt, \A t \in Calls : Exists(t)' <=> Exists(t)
      PROVE  RanksInv'
  <2>1. There' = There
    BY <1>3
  <2> QED
    BY <1>3, <2>1 DEF IInv, RanksInv
<1>4. CASE Moves
  <2>1. PICK t \in Calls, status \in Statuses :
          /\ CanTransition(txStatus[t], status)
          /\ txStatus' = [txStatus EXCEPT ![t] = status]
          /\ UNCHANGED createdAt
    BY <1>4 DEF Moves
  <2>2. Exists(t)
    BY <2>1, TransitionExists
  <2>3. \A u \in Calls : Exists(u)' <=> Exists(u)
    BY <2>1, <2>2, OpenOrSettled DEF IInv, TypeOK, Exists
  <2> QED
    BY <2>1, <2>3, <1>3
<1>5. CASE UNCHANGED <<txStatus, createdAt>>
  BY <1>5, <1>3 DEF Exists
<1> QED
  BY <1>2, <1>4, <1>5, StatusSteps DEF Inserts

LEMMA IInvStep == IInv /\ [Next]_vars => IInv'
<1> SUFFICES ASSUME IInv, [Next]_vars PROVE IInv'
  OBVIOUS
<1>1. TypeOK' /\ RanksInv'
  BY TypeOKStep, RanksStep DEF IInv
<1>2. ASSUME NEW c \in Calls, RequestStep(c) PROVE IInv'
  <2>1. CASE FindReplays(c)
    BY <2>1, <1>1, ReplayStep DEF FindReplays
  <2>2. CASE InsertConflicts(c)
    BY <2>2, <1>1, ReplayStep DEF InsertConflicts
  <2>3. CASE FindMisses(c) \/ Refuse(c) \/ ProviderAnswers(c) \/ CallFails(c)
             \/ AdapterPanics(c) \/ PersistFails(c)
    BY <2>3, <1>1, QuietStep
  <2>4. CASE Insert(c)
    BY <2>4, <1>1, InsertStep
  <2>5. CASE ProviderReceives(c)
    BY <2>5, <1>1, ProviderReceivesStep
  <2>6. CASE Persist(c)
    BY <2>6, <1>1, PersistStep
  <2> QED
    BY <1>2, <2>1, <2>2, <2>3, <2>4, <2>5, <2>6 DEF RequestStep
<1>3. ASSUME NEW e \in Events, WebhookStep(e) PROVE IInv'
  BY <1>1, <1>3, WebhookStepIInv
<1>4. ASSUME WorkerStep PROVE IInv'
  <2>1. ASSUME NEW t \in Calls, Reconcile(t) PROVE IInv'
    BY <1>1, <2>1, ReconcileStep
  <2>2. ASSUME NEW t \in Calls, DeferRetry(t) PROVE IInv'
    BY <1>1, <2>2, DeferRetryStep
  <2>3. ASSUME NEW e \in Events, RetryApplies(e) PROVE IInv'
    BY <1>1, <2>3, RetryAppliesStep
  <2>4. ASSUME \/ StartPass \/ LoadPending \/ QueueDone \/ PassFails
               \/ \E t \in Calls : Query(t) \/ Skip(t)
               \/ \E e \in Events : RetryPasses(e) \/ RetryRefused(e)
        PROVE  IInv'
    BY <1>1, <2>4, QuietWorkerStep
  <2> QED
    BY <1>4, <2>1, <2>2, <2>3, <2>4 DEF WorkerStep
<1>5. ASSUME NEW t \in Calls, ProviderDecides(t) \/ Tick(t) PROVE IInv'
  BY <1>1, <1>5, ProviderDecidesStep, TickStep
<1>6. ASSUME NEW n \in outbox, Announce(n) PROVE IInv'
  BY <1>1, <1>6, AnnounceStep
<1>7. CASE Crash
  BY <1>1, <1>7, CrashStep
<1>8. CASE UNCHANGED vars
  <2>1. UNCHANGED <<txVars, attemptVars, eventVars, outcome, workerVars, hookVars,
                    requestVars, pc, reply, answered, txRef, createdAt, queue, txStatus>>
    BY <1>8 DEF vars, requestVars, txVars, workerVars
  <2> QED
    BY <1>1, <2>1, FrameRows, FrameRequests, FrameWorker, FrameEvents, FrameHooks DEF IInv
<1> QED
  BY <1>2, <1>3, <1>4, <1>5, <1>6, <1>7, <1>8 DEF Next

\* Every reachable state satisfies the invariant.
THEOREM Invariance == Spec => []IInv
  BY InitIInv, IInvStep, PTL DEF Spec

\* However the calls of a key race, are retried or cut off by a restart, the
\* provider receives at most one payment for it (Create and its unique index).
THEOREM PaidOnce == Spec => []PaidOncePerKey
<1>1. IInv => PaidOncePerKey
  BY DEF IInv, OneRowPerKey, RowsInv, PaidOncePerKey
<1> QED
  BY <1>1, Invariance, PTL

\* All answered calls of a key name one transaction, of their own request (replay).
THEOREM SameAnswer == Spec => []RepliesAgree
<1>1. IInv => RepliesAgree
  BY DEF IInv, AnswersInv, OneRowPerKey, TypeOK, RepliesAgree
<1> QED
  BY <1>1, Invariance, PTL

\* Nothing but its request touches a row before the request persists, which is why
\* persist may write without a lock or a look.
THEOREM RequestOwnsRow == Spec => []OwnedByRequest
  BY Invariance, PTL DEF IInv

\* A final status is the provider's outcome, whichever path recorded it.
THEOREM BooksAreTrue == Spec => []SettledTruthfully
  BY Invariance, PTL DEF IInv

\* A transaction and its attempt never disagree about a settlement.
THEOREM RowsSettleTogether == Spec => []SettledTogether
  BY Invariance, PTL DEF IInv

\* An event marked processed has had its effect, which no later write undoes.
THEOREM MarkedEventsCount == Spec => []ProcessedEventsCount
  BY Invariance, PTL DEF IInv

\* No settlement is published twice, or before it is committed.
THEOREM PublishedOnce == Spec => []AnnouncedOnce
  BY Invariance, PTL DEF IInv

\* No path, persist's unconditional update included, leaves a final status or
\* takes a move that Transition would refuse.
THEOREM GraphFollowed == Spec => StatusFollowsGraph
<1>1. IInv /\ [Next]_vars =>
        [\A t \in Calls : Exists(t) => CanTransition(txStatus[t], txStatus'[t])]_txStatus
  <2> SUFFICES ASSUME IInv, [Next]_vars, NEW t \in Calls, Exists(t)
               PROVE  CanTransition(txStatus[t], txStatus'[t])
    OBVIOUS
  <2>1. CASE Inserts
    <3>1. PICK c \in Calls : Insert(c)
      BY <2>1 DEF Inserts
    <3>2. t # c /\ txStatus'[t] = txStatus[t]
      BY <3>1 DEF IInv, ProgressInv, TypeOK, Insert
    <3> QED
      BY <3>2 DEF CanTransition
  <2>2. CASE Moves
    BY <2>2 DEF Moves, CanTransition, IInv, TypeOK
  <2>3. CASE UNCHANGED <<txStatus, createdAt>>
    BY <2>3 DEF CanTransition
  <2> QED
    BY <2>1, <2>2, <2>3, StatusSteps
<1> QED
  BY <1>1, Invariance, PTL DEF Spec, StatusFollowsGraph

-------------------------------------------------------------------------------
(* The refinement.                                                         *)

\* The steps that are not only a move of a row or invisible.
LEMMA OutsideSteps ==
  ASSUME IInv, [Next]_vars
  PROVE  \/ Inserts
         \/ \E c \in Calls : ProviderReceives(c) \/ ProviderDecides(c)
         \/ \E n \in outbox : Announce(n)
         \/ UNCHANGED <<outcome, announced>>
<1>1. ASSUME NEW c \in Calls, RequestStep(c)
      PROVE  Insert(c) \/ ProviderReceives(c) \/ UNCHANGED <<outcome, announced>>
  BY <1>1 DEF RequestStep, FindReplays, FindMisses, Refuse, InsertConflicts, Replay,
       ProviderAnswers, CallFails, Return, AdapterPanics, Persist, PersistFails, hookVars
<1>2. ASSUME NEW e \in Events, WebhookStep(e) PROVE UNCHANGED <<outcome, announced>>
  BY <1>2 DEF WebhookStep, HandleStores, HandleApplies, Apply, hookVars
<1>3. ASSUME WorkerStep PROVE UNCHANGED <<outcome, announced>>
  BY <1>3 DEF WorkerStep, StartPass, Query, Skip, Reconcile, DeferRetry, NextRow, LoadPending,
       RetryApplies, RetryPasses, RetryRefused, QueueDone, PassFails, EndPass, Apply, hookVars
<1>4. ASSUME NEW t \in Calls, Tick(t) PROVE UNCHANGED <<outcome, announced>>
  BY <1>4 DEF Tick, hookVars
<1>5. ASSUME Crash \/ UNCHANGED vars PROVE UNCHANGED <<outcome, announced>>
  BY <1>5 DEF Crash, vars, hookVars
<1> QED
  BY <1>1, <1>2, <1>3, <1>4, <1>5 DEF Next, Inserts

LEMMA RefinesInit == Init => PO!Init
  BY DEF Init, PO!Init, Book, Absent

LEMMA RefinesStep == IInv /\ IInv' /\ [Next]_vars => [PO!Next]_(PO!vars)
<1> SUFFICES ASSUME IInv, IInv', [Next]_vars PROVE [PO!Next]_(PO!vars)
  OBVIOUS
<1> USE DEF PO!vars
<1>1. \A t \in Calls : /\ ~Exists(t) <=> Book[t] = "none"
                       /\ Terminal(txStatus[t]) => Book[t] = txStatus[t]
                       /\ Exists(t) /\ ~Terminal(txStatus[t]) => Book[t] = "open"
  BY DEF Book, Exists, Absent, Terminal, TerminalStatuses
<1>2. ASSUME NEW c \in Calls, Insert(c) PROVE PO!Next
  <2>1. \A q \in Calls : KeyOf[q] = KeyOf[c] => Book[q] = "none"
    BY <1>1, <1>2 DEF Insert, UniqueIndex, KeyFree, Holds
  <2>2. Book' = [Book EXCEPT ![c] = "open"]
    BY <1>2 DEF Insert, Book, IInv, TypeOK, Absent, TxProcessing, Terminal, TerminalStatuses
  <2>3. UNCHANGED <<outcome, announced>>
    BY <1>2 DEF Insert, hookVars
  <2> QED
    BY <2>1, <2>2, <2>3 DEF PO!Next, PO!Open
<1>3. ASSUME NEW c \in Calls, ProviderReceives(c) PROVE PO!Next
  <2>1. Book[c] = "open" /\ outcome[c] = "none"
    BY <1>1, <1>3, OpenOrSettled DEF ProviderReceives, IInv, OwnedByRequest, ProgressInv, Exists,
         Absent, TxProcessing
  <2>2. Book' = Book /\ UNCHANGED announced
    BY <1>3 DEF ProviderReceives, Book, txVars, hookVars
  <2> QED
    BY <1>3, <2>1, <2>2 DEF PO!Next, PO!Pay, ProviderReceives
<1>4. ASSUME NEW t \in Calls, ProviderDecides(t) PROVE PO!Next
  <2>1. Book' = Book /\ UNCHANGED announced
    BY <1>4 DEF ProviderDecides, Book, txVars, hookVars
  <2> QED
    BY <1>4, <2>1 DEF PO!Next, PO!Decide, ProviderDecides
<1>5. ASSUME NEW n \in outbox, Announce(n) PROVE PO!Next
  <2>1. n.tx \in Calls /\ Terminal(txStatus[n.tx]) /\ announced[n.tx] = 0
    BY <1>5 DEF IInv, AnnouncedOnce, TypeOK, Notices, Terminal
  <2>2. Book[n.tx] \in Outcomes
    BY <2>1, <1>1, OpenOrSettled DEF IInv, SettledTruthfully, TypeOK, Terminal, TerminalStatuses
  <2>3. Book' = Book /\ UNCHANGED outcome /\ announced' = [announced EXCEPT ![n.tx] = 1]
    BY <1>5, <2>1 DEF Announce, Book, txVars, IInv, TypeOK
  <2> QED
    BY <2>1, <2>2, <2>3 DEF PO!Next, PO!Publish
<1>6. ASSUME Moves, UNCHANGED <<outcome, announced>> PROVE [PO!Next]_(PO!vars)
  <2>1. PICK t \in Calls, status \in Statuses :
          /\ CanTransition(txStatus[t], status)
          /\ txStatus' = [txStatus EXCEPT ![t] = status]
    BY <1>6 DEF Moves
  <2>2. Exists(t) /\ status # Absent
    BY <2>1, TransitionExists, OpenOrSettled
  <2>3. txStatus'[t] = status /\ \A u \in Calls \ {t} : txStatus'[u] = txStatus[u]
    BY <2>1 DEF IInv, TypeOK
  <2>4. CASE Terminal(txStatus[t]) \/ ~Terminal(status)
    <3>1. \A u \in Calls : Book'[u] = Book[u]
      BY <2>1, <2>2, <2>3, <2>4, TerminalStays DEF Book, Exists
    <3>2. Book' = Book
      BY <3>1 DEF Book
    <3> QED
      BY <3>2, <1>6
  <2>5. CASE ~Terminal(txStatus[t]) /\ Terminal(status)
    <3>1. Book[t] = "open" /\ outcome[t] = status /\ status \in Outcomes
      BY <1>1, <1>6, <2>2, <2>3, <2>5 DEF IInv, SettledTruthfully, TypeOK, Terminal, TerminalStatuses
    <3>2. /\ Book'[t] = outcome[t]
          /\ \A u \in Calls \ {t} : Book'[u] = Book[u]
      BY <2>2, <2>3, <2>5, <3>1 DEF Book
    <3>3. Book' = [Book EXCEPT ![t] = outcome[t]]
      BY <3>2 DEF Book
    <3> QED
      BY <3>1, <3>3, <1>6 DEF PO!Next, PO!Settle
  <2> QED
    BY <2>4, <2>5
<1>7. ASSUME UNCHANGED <<txStatus, outcome, announced>> PROVE UNCHANGED PO!vars
  BY <1>7 DEF Book
<1> QED
  BY <1>2, <1>3, <1>4, <1>5, <1>6, <1>7, StatusSteps, OutsideSteps DEF Inserts

\* Request path, webhooks and worker together implement one book in which every
\* payment is opened, paid, settled and published at most once.
THEOREM Implementation == Spec => ImplementsPaymentOutcome
  BY RefinesInit, RefinesStep, Invariance, PTL DEF Spec, PO!Spec, ImplementsPaymentOutcome

==============================================================================
