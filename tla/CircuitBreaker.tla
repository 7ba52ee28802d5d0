---------------------------- MODULE CircuitBreaker ----------------------------
(***************************************************************************)
(* The circuit breaker of one loaded provider account (circuit in          *)
(* service/provider/runtime.go) and the goroutines that call the provider  *)
(* through it (execute in executor.go): payments, status queries, balance  *)
(* queries and the health worker.                                          *)
(*                                                                         *)
(* before and after hold the breaker's mutex and are one step each; the    *)
(* provider call between them takes as long as it takes.  The 30 seconds   *)
(* an open circuit stays open are one step, Cool, so a call, which may run *)
(* for 45, can outlive them.  The adapter has a health check, so that the  *)
(* worker's calls go through the circuit (Executor.Health, 141-149).       *)
(***************************************************************************)
EXTENDS Naturals

CONSTANTS
  Callers,       \* goroutines; one makes any number of calls, in turn
  HealthWorker,  \* the one that calls for ever (HealthService.CheckAll)
  FailureLimit,  \* failures in a row that open the circuit (3)
  MaxPanics      \* bound: how many calls end in a panic of the adapter

ASSUME CircuitAssumption ==
  /\ HealthWorker \in Callers
  /\ FailureLimit \in Nat \ {0}
  /\ MaxPanics \in Nat

VARIABLES
  failures,  \* outcomes that failed since the last that did not, up to the limit
  opened,    \* "zero", or the time it opened: "cooling", then "cooled"
  probing,   \* a trial is thought to be in flight
  call,      \* what each goroutine is doing
  up,        \* whether the provider works
  straggled, \* history: a call ended while the trial of another was in flight
  panics     \* calls that panicked

circuit == <<failures, opened, probing>>
vars == <<circuit, call, up, straggled, panics>>

\* circuit.state.
State == CASE opened = "zero"    -> "closed"
           [] opened = "cooling" -> "open"
           [] opened = "cooled"  -> "half_open"

\* A running call was let in by the closed circuit, a trial by the half-open one;
\* the circuit of a detached one has been replaced by a reload.
Trials   == {c \in Callers : call[c] = "trial"}
InFlight == {c \in Callers : call[c] \in {"running", "trial"}}

-------------------------------------------------------------------------------
(* before: an open circuit, and a half-open one with its trial out, refuse *)
(* the call, which changes nothing.                                        *)

Start(c) ==
  /\ call[c] = "idle"
  /\ opened = "zero"
  /\ call' = [call EXCEPT ![c] = "running"]
  /\ UNCHANGED <<circuit, up, straggled, panics>>

EveryCaller == opened = "cooled"   \* (bug) trials are not counted
MayTry      == opened = "cooled" /\ ~probing

Try(c) ==
  /\ call[c] = "idle"
  /\ MayTry
  /\ probing' = TRUE
  /\ call' = [call EXCEPT ![c] = "trial"]
  /\ UNCHANGED <<failures, opened, up, straggled, panics>>

-------------------------------------------------------------------------------
(* after.                                                                  *)

\* The goroutine is done with its call, which may not be the trial in flight.
Leave(c) ==
  /\ c \in InFlight
  /\ call' = [call EXCEPT ![c] = "idle"]
  /\ straggled' = (straggled \/ Trials \ {c} # {})

\* No error, or one of a cancelled caller, which is not held against the provider.
KeepProbing(c)  == failures' = 0 /\ opened' = "zero" /\ UNCHANGED probing   \* (bug)
Closes(c)       == failures' = 0 /\ opened' = "zero" /\ probing' = FALSE

\* A failure, a timeout included.  The counter is only compared with the limit.
ForgetTrial(c) ==   \* (bug) only a success takes the trial back
  /\ failures' = IF failures < FailureLimit THEN failures + 1 ELSE failures
  /\ opened'   = IF failures' = FailureLimit THEN "cooling" ELSE opened
  /\ UNCHANGED probing
OpensLate(c) ==   \* (bug) > for >=
  /\ failures' = IF failures < FailureLimit THEN failures + 1 ELSE failures
  /\ opened'   = IF failures = FailureLimit THEN "cooling" ELSE opened
  /\ probing'  = FALSE
CountsFailure(c) ==
  /\ failures' = IF failures < FailureLimit THEN failures + 1 ELSE failures
  /\ opened'   = IF failures' = FailureLimit THEN "cooling" ELSE opened
  /\ probing'  = FALSE

Succeed(c) ==
  /\ up
  /\ Leave(c)
  /\ Closes(c)
  /\ UNCHANGED <<up, panics>>

Cancel(c) ==
  /\ Leave(c)
  /\ Closes(c)
  /\ UNCHANGED <<up, panics>>

Fail(c) ==
  /\ ~up
  /\ Leave(c)
  /\ CountsFailure(c)
  /\ UNCHANGED <<up, panics>>

\* The adapter panics past execute, which does not defer after.  The HTTP server
\* recovers; the workers do not, and the process ends with its circuits.
Panic(c) ==
  /\ c # HealthWorker
  /\ panics < MaxPanics
  /\ Leave(c)
  /\ panics' = panics + 1
  /\ UNCHANGED <<circuit, up>>

\* A call of a replaced circuit ends.
EndDetached(c) ==
  /\ call[c] = "detached"
  /\ call' = [call EXCEPT ![c] = "idle"]
  /\ UNCHANGED <<circuit, up, straggled, panics>>

-------------------------------------------------------------------------------

\* 30 seconds pass.
Cool ==
  /\ opened = "cooling"
  /\ opened' = "cooled"
  /\ UNCHANGED <<failures, probing, call, up, straggled, panics>>

\* RuntimeManager.Reload installs a runtime with a fresh circuit; calls in flight
\* keep the old one.
Reload ==
  /\ failures' = 0 /\ opened' = "zero" /\ probing' = FALSE
  /\ call' = [c \in Callers |-> IF c \in InFlight THEN "detached" ELSE call[c]]
  /\ straggled' = FALSE /\ panics' = 0
  /\ UNCHANGED up

ProviderTurns == up' = ~up /\ UNCHANGED <<circuit, call, straggled, panics>>

Init ==
  /\ failures = 0 /\ opened = "zero" /\ probing = FALSE
  /\ call = [c \in Callers |-> "idle"]
  /\ up = TRUE
  /\ straggled = FALSE /\ panics = 0

End(c)  == Succeed(c) \/ Cancel(c) \/ Fail(c) \/ Panic(c) \/ EndDetached(c)
Next ==
  \/ \E c \in Callers : Start(c) \/ Try(c) \/ End(c)
  \/ Cool
  \/ Reload
  \/ ProviderTurns

Spec == Init /\ [][Next]_vars

-------------------------------------------------------------------------------

\* Every variable has its type.
TypeOK ==
  /\ failures \in 0..FailureLimit
  /\ opened \in {"zero", "cooling", "cooled"}
  /\ probing \in BOOLEAN
  /\ call \in [Callers -> {"idle", "running", "trial", "detached"}]
  /\ up \in BOOLEAN
  /\ straggled \in BOOLEAN
  /\ panics \in Nat

\* The circuit is closed as long as the failures in a row are below the limit, and
\* only then, whatever outcomes arrive while it is open (after 49-60).
OpenAtLimit == opened # "zero" <=> failures = FailureLimit

\* A half-open circuit lets one trial through at a time, unless a call that it did
\* not count ended meanwhile and took the trial's mark with it (after 52).
TrialsOverlapOnlyAfterStraggler ==
  ~straggled => \A c, d \in Trials : c = d

\* The mark that turns callers away belongs to a trial that will end: unless an
\* adapter panicked, a circuit cannot refuse calls on behalf of nobody.
RefusesForATrial == probing /\ panics = 0 => Trials # {}
===============================================================================
