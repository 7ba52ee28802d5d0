---------------------------- MODULE ProviderHealth ----------------------------
(***************************************************************************)
(* The health worker's probes of one loaded account and the snapshot they  *)
(* leave in provider_health_snapshots (HealthService of service/provider/  *)
(* health.go), over the account's circuit (CircuitBreaker).  Routing reads *)
(* both (candidate in service/routing/engine.go), and so does a process    *)
(* that starts again: the snapshot stays, the circuit does not.            *)
(***************************************************************************)
EXTENDS CircuitBreaker

CONSTANTS
  None,        \* no snapshot
  MaxRestarts  \* bound: how many times the process starts again

ASSUME HealthAssumption == MaxRestarts \in Nat

\* failures: ConsecutiveFailures up to 3, beyond which nothing tells them apart.
Snapshots == [status : {"healthy", "degraded", "down"}, failures : 0 .. 3,
              circuit : {"closed", "open", "half_open"}]

VARIABLES
  snap,     \* the account's snapshot
  probe,    \* the worker: idle, calling, or with a result it has not saved
  restarts  \* restarts so far

healthVars == <<snap, probe, restarts>>
allVars    == <<vars, healthVars>>

-------------------------------------------------------------------------------
(* Executor.Health, by the worker: through the circuit like any call.      *)

Probe ==
  /\ probe = "idle"
  /\ Start(HealthWorker) \/ Try(HealthWorker)
  /\ probe' = "calling"
  /\ UNCHANGED <<snap, restarts>>

\* before refuses it.
ProbeRefused ==
  /\ probe = "idle" /\ call[HealthWorker] = "idle"
  /\ opened # "zero" /\ ~MayTry
  /\ probe' = "failed"
  /\ UNCHANGED <<vars, snap, restarts>>

\* An answer, one of a circuit that was replaced meanwhile included.  The worker's call
\* is cancelled only when its process ends.
ProbeEnds ==
  /\ probe = "calling"
  /\ \/ Succeed(HealthWorker) /\ probe' = "ok"
     \/ Fail(HealthWorker) /\ probe' = "failed"
     \/ EndDetached(HealthWorker) /\ probe' = IF up THEN "ok" ELSE "failed"
  /\ UNCHANGED <<snap, restarts>>

-------------------------------------------------------------------------------
(* save: the snapshot is read and written back whole; the worker is the    *)
(* only writer, so its two queries are one step.                           *)

CountsFromNone == IF snap = None THEN 0 - 1 ELSE snap.failures   \* (bug) no snapshot, no count
Failed == IF snap = None THEN 1 ELSE IF snap.failures < 3 THEN snap.failures + 1 ELSE 3

KeepsOpen ==   \* (bug) a success leaves the column of the circuit as it was
  [status |-> "healthy", failures |-> 0,
   circuit |-> IF snap = None THEN State ELSE snap.circuit]
Healthy == [status |-> "healthy", failures |-> 0, circuit |-> State]

Unhealthy ==
  [status |-> IF Failed >= 3 \/ State = "open" THEN "down" ELSE "degraded",
   failures |-> Failed, circuit |-> State]

Save ==
  /\ probe \in {"ok", "failed"}
  /\ snap' = IF probe = "ok" THEN Healthy ELSE Unhealthy
  /\ probe' = "idle"
  /\ UNCHANGED <<vars, restarts>>

\* The database refuses, or CheckAll ends with its context.
SaveFails ==
  /\ probe \in {"ok", "failed"}
  /\ probe' = "idle"
  /\ UNCHANGED <<vars, snap, restarts>>

-------------------------------------------------------------------------------

\* The process ends and starts again, with a new circuit.
Restart ==
  /\ restarts < MaxRestarts
  /\ restarts' = restarts + 1
  /\ failures' = 0 /\ opened' = "zero" /\ probing' = FALSE
  /\ call' = [c \in Callers |-> "idle"]
  /\ straggled' = FALSE /\ panics' = 0
  /\ probe' = "idle"
  /\ UNCHANGED <<up, snap>>

Payments ==
  /\ \/ \E c \in Callers \ {HealthWorker} : Start(c) \/ Try(c) \/ End(c)
     \/ Cool \/ Reload \/ ProviderTurns
  /\ UNCHANGED healthVars

HealthInit == Init /\ snap = None /\ probe = "idle" /\ restarts = 0

HealthNext ==
  Probe \/ ProbeRefused \/ ProbeEnds \/ Save \/ SaveFails \/ Restart \/ Payments

\* Calls end, time passes and the worker goes on; a save that is tried again and
\* again is not refused for ever.
HealthFairness ==
  /\ \A c \in Callers \ {HealthWorker} : WF_allVars(End(c) /\ UNCHANGED healthVars)
  /\ WF_allVars(Cool /\ UNCHANGED healthVars)
  /\ WF_allVars(Probe \/ ProbeRefused) /\ WF_allVars(ProbeEnds)
  /\ SF_allVars(Save)

HealthSpec == HealthInit /\ [][HealthNext]_allVars /\ HealthFairness

-------------------------------------------------------------------------------

\* Every variable has its type.
HealthTypeOK ==
  /\ TypeOK
  /\ snap \in Snapshots \cup {None}
  /\ probe \in {"idle", "calling", "ok", "failed"}
  /\ restarts \in Nat

\* candidate, in as much as it is about health: the circuit is not open, and the
\* snapshot, if there is one, neither down nor of an open circuit.
Eligible ==
  /\ State # "open"
  /\ snap # None => snap.status # "down" /\ snap.circuit # "open"

\* "CircuitHalfOpen allows a trial request after an open-circuit timeout"
\* (constants.go:53): a half-open circuit gets its trial, be the provider up or not,
\* unless an adapter panicked.
HalfOpenServed == State = "half_open" ~> State # "half_open" \/ Trials # {} \/ panics # 0

\* A provider that works from some time on closes its circuit for good, unless an
\* adapter panicked, and payments are routed to it again, for good: no snapshot of its
\* bad times, or of the process before, keeps it out.
RoutedAgain == <>[](up /\ panics = 0) => <>[](State = "closed" /\ Eligible)
===============================================================================
