------------------------- MODULE CircuitBreaker_proofs -------------------------
(***************************************************************************)
(* What the run of ProviderHealth checks of the circuit on a few callers   *)
(* and one limit, proved for every set of callers, every limit and any     *)
(* number of restarts: first of the circuit as it is (CircuitBreaker),     *)
(* then with the health worker's snapshot beside it (ProviderHealth).      *)
(***************************************************************************)
EXTENDS ProviderHealth, TLAPS

\* A mark is only ever set by a trial, and every outcome clears it: it is there only
\* while the circuit is half-open, and it is there as long as a trial is, unless some
\* other call ended since.
MarksTrials ==
  /\ probing => opened = "cooled"
  /\ ~straggled => (Trials # {} => probing)

\* The inductive invariant.
CInv ==
  /\ TypeOK
  /\ OpenAtLimit
  /\ MarksTrials
  /\ TrialsOverlapOnlyAfterStraggler
  /\ RefusesForATrial

\* A caller that takes up a call is the only one whose state changes.
LEMMA Departure ==
  ASSUME TypeOK, NEW c \in Callers, call' = [call EXCEPT ![c] = "idle"]
  PROVE  /\ call' \in [Callers -> {"idle", "running", "trial", "detached"}]
         /\ Trials' = Trials \ {c}
  BY DEF TypeOK, Trials

\* When no trial is thought of and none was lost sight of, there is none.
LEMMA NoneToOverlap ==
  ASSUME CInv, ~straggled, ~probing
  PROVE  Trials = {}
  BY DEF CInv, MarksTrials

\* The outcome of a call that reports to the circuit.
LEMMA Outcome ==
  ASSUME CInv, NEW c \in Callers, Leave(c), Closes(c) \/ CountsFailure(c),
         up' = up, panics' = panics
  PROVE  CInv'
<1> USE CircuitAssumption
<1>1. /\ call' \in [Callers -> {"idle", "running", "trial", "detached"}]
      /\ Trials' = Trials \ {c}
  BY Departure DEF Leave, CInv
<1>2. TypeOK'
  <2>1. failures' \in 0..FailureLimit /\ opened' \in {"zero", "cooling", "cooled"}
    BY DEF CInv, TypeOK, Closes, CountsFailure
  <2>2. probing' = FALSE
    BY DEF Closes, CountsFailure
  <2>3. straggled' \in BOOLEAN
    BY Zenon DEF CInv, TypeOK, Leave
  <2> QED
    BY <1>1, <2>1, <2>2, <2>3 DEF CInv, TypeOK
<1>3. OpenAtLimit'
  BY DEF CInv, TypeOK, OpenAtLimit, Closes, CountsFailure
<1>4. MarksTrials'
  <2>1. ~probing'
    BY DEF Closes, CountsFailure
  <2>2. ~straggled' => Trials' = {}
    BY <1>1 DEF Leave
  <2> QED
    BY <2>1, <2>2 DEF MarksTrials
<1>5. TrialsOverlapOnlyAfterStraggler'
  BY <1>1 DEF Leave, TrialsOverlapOnlyAfterStraggler
<1>6. RefusesForATrial'
  BY DEF Closes, CountsFailure, RefusesForATrial
<1> QED
  BY <1>2, <1>3, <1>4, <1>5, <1>6 DEF CInv

LEMMA CInit == Init => CInv
<1> SUFFICES ASSUME Init PROVE CInv
  OBVIOUS
<1> USE CircuitAssumption
<1>1. failures \in 0..FailureLimit /\ panics \in Nat
  BY DEF Init
<1>2. up \in BOOLEAN /\ straggled \in BOOLEAN /\ probing \in BOOLEAN
  BY Zenon DEF Init
<1>3. call \in [Callers -> {"idle", "running", "trial", "detached"}] /\ Trials = {}
  BY DEF Init, Trials
<1>4. TypeOK
  BY <1>1, <1>2, <1>3 DEF Init, TypeOK
<1> QED
  BY <1>3, <1>4 DEF Init, CInv, OpenAtLimit, MarksTrials, TrialsOverlapOnlyAfterStraggler,
              RefusesForATrial

LEMMA CNext == CInv /\ [Next]_vars => CInv'
<1> SUFFICES ASSUME CInv, [Next]_vars PROVE CInv'
  OBVIOUS
<1> USE CircuitAssumption
<1>1. CASE \E c \in Callers : Start(c)
  <2> PICK c \in Callers : Start(c)
    BY <1>1
  <2>1. TypeOK'
    BY DEF Start, circuit, CInv, TypeOK
  <2>2. Trials' = Trials
    BY DEF Start, CInv, TypeOK, Trials
  <2> QED
    BY <2>1, <2>2 DEF Start, circuit, CInv, OpenAtLimit, MarksTrials,
                      TrialsOverlapOnlyAfterStraggler, RefusesForATrial
<1>2. CASE \E c \in Callers : Try(c)
  <2> PICK c \in Callers : Try(c)
    BY <1>2
  <2>1. TypeOK'
    BY DEF Try, CInv, TypeOK
  <2>2. Trials' = Trials \cup {c}
    BY DEF Try, CInv, TypeOK, Trials
  <2>3. ~straggled' => Trials' = {c}
    BY <2>2, NoneToOverlap DEF Try, MayTry
  <2> QED
    BY <2>1, <2>2, <2>3 DEF Try, MayTry, CInv, OpenAtLimit, MarksTrials,
                            TrialsOverlapOnlyAfterStraggler, RefusesForATrial
<1>3. CASE \E c \in Callers : Succeed(c) \/ Cancel(c) \/ Fail(c)
  BY <1>3, Outcome DEF Succeed, Cancel, Fail
<1>4. CASE \E c \in Callers : Panic(c)
  <2> PICK c \in Callers : Panic(c)
    BY <1>4
  <2>1. /\ call' \in [Callers -> {"idle", "running", "trial", "detached"}]
        /\ Trials' = Trials \ {c}
    BY Departure DEF Panic, Leave, CInv
  <2>2. TypeOK'
    <3>1. straggled' \in BOOLEAN
      BY Zenon DEF Panic, Leave, CInv, TypeOK
    <3> QED
      BY <2>1, <3>1 DEF Panic, circuit, CInv, TypeOK
  <2>3. panics' # 0
    BY DEF Panic, CInv, TypeOK
  <2>4. ~straggled' => Trials' = {}
    BY <2>1 DEF Panic, Leave
  <2> QED
    BY <2>2, <2>3, <2>4 DEF Panic, circuit, CInv, OpenAtLimit, MarksTrials,
                            TrialsOverlapOnlyAfterStraggler, RefusesForATrial
<1>5. CASE \E c \in Callers : EndDetached(c)
  <2> PICK c \in Callers : EndDetached(c)
    BY <1>5
  <2>1. /\ call' \in [Callers -> {"idle", "running", "trial", "detached"}]
        /\ Trials' = Trials
    BY Departure DEF EndDetached, CInv, Trials
  <2>2. TypeOK'
    BY <2>1 DEF EndDetached, circuit, CInv, TypeOK
  <2> QED
    BY <2>1, <2>2 DEF EndDetached, circuit, CInv, OpenAtLimit, MarksTrials,
                      TrialsOverlapOnlyAfterStraggler, RefusesForATrial
<1>6. CASE Cool
  <2>1. TypeOK'
    BY <1>6 DEF Cool, CInv, TypeOK
  <2>2. Trials' = Trials
    BY <1>6 DEF Cool, Trials
  <2> QED
    BY <1>6, <2>1, <2>2 DEF Cool, CInv, OpenAtLimit, MarksTrials,
                            TrialsOverlapOnlyAfterStraggler, RefusesForATrial
<1>7. CASE Reload
  <2>1. TypeOK'
    <3>1. call' \in [Callers -> {"idle", "running", "trial", "detached"}]
      BY <1>7 DEF Reload, CInv, TypeOK
    <3>2. up' \in BOOLEAN /\ straggled' \in BOOLEAN /\ probing' \in BOOLEAN
      BY <1>7, Zenon DEF Reload, CInv, TypeOK
    <3> QED
      BY <1>7, <3>1, <3>2 DEF Reload, TypeOK
  <2>2. Trials' = {}
    BY <1>7 DEF Reload, CInv, TypeOK, Trials, InFlight
  <2> QED
    BY <1>7, <2>1, <2>2 DEF Reload, CInv, OpenAtLimit, MarksTrials,
                            TrialsOverlapOnlyAfterStraggler, RefusesForATrial
<1>8. CASE ProviderTurns
  <2>1. TypeOK'
    BY <1>8 DEF ProviderTurns, circuit, CInv, TypeOK
  <2> QED
    BY <1>8, <2>1 DEF ProviderTurns, circuit, CInv, OpenAtLimit, MarksTrials, Trials,
                      TrialsOverlapOnlyAfterStraggler, RefusesForATrial
<1>9. CASE UNCHANGED vars
  BY <1>9 DEF vars, circuit, CInv, TypeOK, OpenAtLimit, MarksTrials, Trials,
              TrialsOverlapOnlyAfterStraggler, RefusesForATrial
<1> QED
  BY <1>1, <1>2, <1>3, <1>4, <1>5, <1>6, <1>7, <1>8, <1>9 DEF Next, End

LEMMA CircuitInvariance == Spec => []CInv
  BY CInit, CNext, PTL DEF Spec

\* Every variable of the breaker keeps its type: in particular the counter of
\* failures never passes the limit it is compared with.
THEOREM CircuitTypeCorrect == Spec => []TypeOK
<1>1. CInv => TypeOK
  BY DEF CInv
<1> QED
  BY <1>1, CircuitInvariance, PTL

\* The circuit is open or half-open exactly when the failures in a row have reached
\* the limit, whatever calls end while it is.
THEOREM OpenExactlyAtLimit == Spec => []OpenAtLimit
<1>1. CInv => OpenAtLimit
  BY DEF CInv
<1> QED
  BY <1>1, CircuitInvariance, PTL

\* before lets one trial through at a time unless an outcome of another call, which
\* after cannot tell from the trial's, arrived while the trial was out.
THEOREM OneTrialUnlessStraggler == Spec => []TrialsOverlapOnlyAfterStraggler
<1>1. CInv => TrialsOverlapOnlyAfterStraggler
  BY DEF CInv
<1> QED
  BY <1>1, CircuitInvariance, PTL

\* As long as no adapter panics, a mark that refuses callers belongs to a trial that
\* is under way, so the circuit cannot be wedged.
THEOREM MarkHasATrial == Spec => []RefusesForATrial
<1>1. CInv => RefusesForATrial
  BY DEF CInv
<1> QED
  BY <1>1, CircuitInvariance, PTL
-------------------------------------------------------------------------------
(* The circuit with the health worker's probes and snapshot, and restarts  *)
(* of the process.                                                         *)

\* The invariant of the circuit does not mind who calls: what the worker and the
\* payments do to it are its own steps, and a restart begins it anew.
HInv == CInv /\ HealthTypeOK

LEMMA HealthInitInv == HealthInit => HInv
  BY CInit, HealthAssumption DEF HealthInit, HInv, HealthTypeOK, CInv

\* Every step but a restart is one of the circuit's, or leaves the circuit alone.
LEMMA ProbesAreCalls ==
  ASSUME [HealthNext]_allVars, ~Restart
  PROVE  [Next]_vars
<1> USE CircuitAssumption
<1>1. CASE Probe
  BY <1>1 DEF Probe, Next
<1>2. CASE ProbeRefused
  BY <1>2 DEF ProbeRefused
<1>3. CASE ProbeEnds
  BY <1>3 DEF ProbeEnds, Next, End
<1>4. CASE Save
  BY <1>4 DEF Save
<1>5. CASE SaveFails
  BY <1>5 DEF SaveFails
<1>6. CASE Payments
  BY <1>6 DEF Payments, Next
<1>7. CASE UNCHANGED allVars
  BY <1>7 DEF allVars
<1> QED
  BY <1>1, <1>2, <1>3, <1>4, <1>5, <1>6, <1>7 DEF HealthNext

LEMMA RestartBegins == ASSUME CInv, Restart PROVE CInv'
<1> USE CircuitAssumption
<1>1. TypeOK'
  <2>1. call' \in [Callers -> {"idle", "running", "trial", "detached"}]
    BY DEF Restart
  <2>2. up' \in BOOLEAN /\ straggled' \in BOOLEAN /\ probing' \in BOOLEAN
    BY Zenon DEF Restart, CInv, TypeOK
  <2> QED
    BY <2>1, <2>2 DEF Restart, TypeOK
<1>2. Trials' = {}
  BY DEF Restart, Trials
<1> QED
  BY <1>1, <1>2 DEF Restart, CInv, OpenAtLimit, MarksTrials,
                    TrialsOverlapOnlyAfterStraggler, RefusesForATrial

\* The count of the snapshot never leaves its range, nor does the circuit it records.
LEMMA SnapshotType ==
  ASSUME HInv
  PROVE  Healthy \in Snapshots /\ Unhealthy \in Snapshots
<1>1. State \in {"closed", "open", "half_open"}
  BY DEF HInv, CInv, TypeOK, State
<1>2. Failed \in 0 .. 3
  <2>1. CASE snap = None
    BY <2>1 DEF Failed
  <2>2. CASE snap # None
    <3>1. snap.failures \in 0 .. 3
      BY <2>2 DEF HInv, HealthTypeOK, Snapshots
    <3> QED
      BY <2>2, <3>1 DEF Failed
  <2> QED
    BY <2>1, <2>2
<1>3. Healthy \in Snapshots
  BY <1>1 DEF Healthy, Snapshots
<1>4. Unhealthy \in Snapshots
  BY <1>1, <1>2 DEF Unhealthy, Snapshots
<1> QED
  BY <1>3, <1>4

LEMMA HealthNextInv == HInv /\ [HealthNext]_allVars => HInv'
<1> SUFFICES ASSUME HInv, [HealthNext]_allVars PROVE HInv'
  OBVIOUS
<1>1. CInv'
  BY CNext, ProbesAreCalls, RestartBegins DEF HInv
<1>2. snap' \in Snapshots \cup {None}
  <2>1. CASE Save
    BY <2>1, SnapshotType DEF Save
  <2>2. CASE ~Save
    BY <2>2 DEF HealthNext, Probe, ProbeRefused, ProbeEnds, SaveFails, Restart, Payments,
                healthVars, allVars, HInv, HealthTypeOK
  <2> QED
    BY <2>1, <2>2
<1>3. probe' \in {"idle", "calling", "ok", "failed"}
  BY DEF HealthNext, Probe, ProbeRefused, ProbeEnds, Save, SaveFails, Restart, Payments,
         healthVars, allVars, HInv, HealthTypeOK
<1>4. restarts' \in Nat
  BY DEF HealthNext, Probe, ProbeRefused, ProbeEnds, Save, SaveFails, Restart, Payments,
         healthVars, allVars, HInv, HealthTypeOK
<1> QED
  BY <1>1, <1>2, <1>3, <1>4 DEF HInv, HealthTypeOK, CInv

LEMMA HealthInvariance == HealthSpec => []HInv
  BY HealthInitInv, HealthNextInv, PTL DEF HealthSpec

\* Every variable of the worker, of its snapshot and of the circuit keeps its type,
\* however often the process starts again.
THEOREM HealthTypeCorrect == HealthSpec => []HealthTypeOK
<1>1. HInv => HealthTypeOK
  BY DEF HInv
<1> QED
  BY <1>1, HealthInvariance, PTL

\* The circuit opens at the limit, and only there, with the worker's calls among the
\* others and over any number of restarts.
THEOREM WorkerOpensAtLimit == HealthSpec => []OpenAtLimit
<1>1. HInv => OpenAtLimit
  BY DEF HInv, CInv
<1> QED
  BY <1>1, HealthInvariance, PTL

\* The worker's probe of a half-open circuit is a trial like any other: it overlaps with
\* a payment's only after a straggler.
THEOREM WorkerSharesTheTrial == HealthSpec => []TrialsOverlapOnlyAfterStraggler
<1>1. HInv => TrialsOverlapOnlyAfterStraggler
  BY DEF HInv, CInv
<1> QED
  BY <1>1, HealthInvariance, PTL

\* A circuit turns the worker and the payments away only for a trial that is under way,
\* unless an adapter panicked: a process that ends takes the mark with it.
THEOREM WorkerNeverWedged == HealthSpec => []RefusesForATrial
<1>1. HInv => RefusesForATrial
  BY DEF HInv, CInv
<1> QED
  BY <1>1, HealthInvariance, PTL
===============================================================================
