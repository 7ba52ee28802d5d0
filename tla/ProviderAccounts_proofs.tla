------------------------ MODULE ProviderAccounts_proofs ------------------------
(***************************************************************************)
(* What the run of ProviderAccounts checks for two administrators, proved  *)
(* for every set of administrators, configurations and settings.           *)
(***************************************************************************)
EXTENDS ProviderAccounts, TLAPS

Steps == {"write", "fetch", "build", "disable", "undo"}

-------------------------------------------------------------------------------
(* The inductive invariant.                                                *)

\* What was taken from a row is older than row r, or agrees with it.
Dated(s, r) ==
  /\ s.version <= r.version
  /\ s.version = r.version => s.config = r.config

\* Without rollbacks versions only grow, so what was read under a version is known.
VersionsInv ==
  ~undone =>
    /\ runtime # NotLoaded => Dated(runtime, row)
    /\ \A a \in Admins : At(a, "build") => Dated(op[a].fetched, row)

\* The row is as operation a found it, but for what it has written.
Written(a) ==
  \/ /\ op[a].kind = "config" /\ op[a].account.active
     /\ row = [op[a].account EXCEPT !.config = op[a].edit.config, !.version = @ + 1]
  \/ /\ op[a].kind = "settings" /\ op[a].account.active
     /\ row = [op[a].account EXCEPT !.place = op[a].edit.place]
  \/ /\ op[a].kind = "activate"
     /\ row = [op[a].account EXCEPT !.active = TRUE]

\* How far the only operation under way has taken the row ahead of the runtime.
InHand(a) ==
  /\ op[a].next = "write" => op[a].account = row /\ runtime = Wanted(row)
  /\ op[a].next \in {"fetch", "build", "undo"} =>
       Written(a) /\ runtime = Wanted(op[a].account)
  /\ op[a].next = "build" => op[a].fetched = row
  /\ op[a].next = "disable" => ~row.active

SerialInv ==
  /\ ~running => Busy = {}
  /\ running /\ ~disturbed =>
       /\ \A a, b \in Busy : a = b
       /\ \A a \in Busy : InHand(a)
       /\ Busy = {} => runtime = Wanted(row)

\* A deactivation reloads nothing, and has nothing to undo.
NeverUndone ==
  \A a \in Admins : op[a] # Idle /\ op[a].kind = "deactivate" =>
    op[a].next \in {"write", "disable"}

AInv == TypeOK /\ VersionsInv /\ SerialInv /\ NeverUndone

-------------------------------------------------------------------------------
(* Steps of one operation.                                                 *)

LEMMA IdleIsNoOp == Idle \notin Ops
  BY DEF Idle, Ops, Kinds

LEMMA UnderWay ==
  ASSUME TypeOK, NEW a \in Admins, op[a] # Idle
  PROVE  op[a] \in Ops
  BY DEF TypeOK

\* An operation goes on to its next step.
LEMMA Continues ==
  ASSUME TypeOK, NEW a \in Admins, op[a] # Idle, NEW s \in Steps, Continue(a, s)
  PROVE  /\ op' \in [Admins -> Ops \cup {Idle}]
         /\ op'[a] = [op[a] EXCEPT !.next = s] /\ op'[a] \in Ops
         /\ \A b \in Admins : b # a => op'[b] = op[b]
         /\ Busy' = Busy
<1>1. op[a] \in Ops
  BY UnderWay
<1>2. [op[a] EXCEPT !.next = s] \in Ops
  BY <1>1 DEF Ops, Steps
<1>3. op' = [op EXCEPT ![a] = [op[a] EXCEPT !.next = s]]
  BY DEF Continue
<1> QED
  BY <1>2, <1>3, IdleIsNoOp DEF TypeOK, Busy

\* An operation ends.
\* A step forward changes nothing of an operation but what it does next.
LEMMA ContinuesFields ==
  ASSUME TypeOK, NEW a \in Admins, op[a] # Idle, NEW s \in Steps, Continue(a, s)
  PROVE  op'[a].kind = op[a].kind /\ op'[a].next = s
<1>1. op[a] \in Ops
  BY UnderWay
<1>2. op'[a] = [op[a] EXCEPT !.next = s]
  BY Continues
<1> QED
  BY <1>1, <1>2 DEF Ops

LEMMA Ends ==
  ASSUME TypeOK, NEW a \in Admins, op[a] # Idle, End(a)
  PROVE  /\ op' \in [Admins -> Ops \cup {Idle}]
         /\ op'[a] = Idle
         /\ \A b \in Admins : b # a => op'[b] = op[b]
         /\ Busy' = Busy \ {a}
  BY DEF TypeOK, End, Busy

\* Every step of an operation past its beginning continues or ends it.
ContinuesOrEnds(a) == (\E s \in Steps : Continue(a, s)) \/ End(a)

-------------------------------------------------------------------------------
(* Types.                                                                  *)

LEMMA TypeInit == Init => TypeOK
<1> SUFFICES ASSUME Init PROVE TypeOK
  OBVIOUS
<1>1. row \in Rows
  BY DEF Init, Rows, Versions
<1>2. /\ running \in BOOLEAN /\ undone \in BOOLEAN /\ disturbed \in BOOLEAN
      /\ runtime \in Runtimes \cup {NotLoaded}
  BY Zenon DEF Init
<1>3. op \in [Admins -> Ops \cup {Idle}] /\ crashes \in Nat
  BY DEF Init
<1> QED
  BY <1>1, <1>2, <1>3 DEF TypeOK

LEMMA TypeBegin ==
  ASSUME TypeOK, NEW a \in Admins, BeginConfig(a) \/ BeginSettings(a) \/ BeginSwitch(a)
  PROVE  TypeOK'
<1>1. PICK k \in Kinds, e \in Runtimes : Begin(a, k, e)
  <2>1. row \in Rows /\ row.active \in BOOLEAN
    BY DEF TypeOK, Rows
  <2>2. /\ View(row) \in Runtimes
        /\ \A c \in Configs : [View(row) EXCEPT !.config = c] \in Runtimes
        /\ \A p \in Places : [View(row) EXCEPT !.place = p] \in Runtimes
    BY <2>1 DEF View, Runtimes, Rows
  <2> QED
    BY <2>2 DEF BeginConfig, BeginSettings, BeginSwitch, Kinds
<1>2. [kind |-> k, edit |-> e, account |-> row, fetched |-> row, next |-> "write"] \in Ops
  BY DEF TypeOK, Ops
<1>3. op' \in [Admins -> Ops \cup {Idle}]
  BY <1>1, <1>2 DEF TypeOK, Begin
<1>4. disturbed' \in BOOLEAN
  BY <1>1, Zenon DEF Begin, TypeOK
<1> QED
  BY <1>1, <1>3, <1>4 DEF Begin, TypeOK

LEMMA TypeWrites ==
  ASSUME TypeOK, NEW a \in Admins,
         UpdateConfig(a) \/ UpdateSettings(a) \/ Activate(a) \/ Deactivate(a)
  PROVE  TypeOK'
<1>1. op[a] \in Ops
  BY UnderWay DEF UpdateConfig, UpdateSettings, Activate, Deactivate, At
<1>2. ContinuesOrEnds(a) /\ op[a] # Idle
  BY DEF UpdateConfig, UpdateSettings, Activate, Deactivate, At, Steps, ContinuesOrEnds
<1>3. op' \in [Admins -> Ops \cup {Idle}]
  BY <1>2, Continues, Ends DEF ContinuesOrEnds
<1>4. row' \in Rows
  <2>1. row \in Rows /\ op[a].edit.config \in Configs /\ op[a].edit.place \in Places
    BY <1>1 DEF TypeOK, Ops, Runtimes
  <2>2. CASE UpdateConfig(a)
    <3>1. row.version + 1 \in Versions
      BY <2>1 DEF Rows, Versions
    <3> QED
      BY <2>1, <2>2, <3>1 DEF UpdateConfig, WithConfig, Rows
  <2>3. CASE UpdateSettings(a)
    BY <2>1, <2>3 DEF UpdateSettings, Rows
  <2>4. CASE Activate(a) \/ Deactivate(a)
    BY <2>1, <2>4 DEF Activate, Deactivate, Rows
  <2> QED
    BY <2>2, <2>3, <2>4
<1>5. UNCHANGED <<runtime, running, undone, disturbed, crashes>>
  BY DEF UpdateConfig, UpdateSettings, Activate, Deactivate
<1> QED
  BY <1>3, <1>4, <1>5 DEF TypeOK

LEMMA TypeReload ==
  ASSUME TypeOK, NEW a \in Admins,
         WriteFails(a) \/ Fetch(a) \/ Install(a) \/ Disable(a) \/ ReloadFails(a)
  PROVE  TypeOK'
<1>1. op[a] \in Ops /\ op[a] # Idle
  BY UnderWay DEF WriteFails, Fetch, Install, Disable, ReloadFails, At
<1>2. op' \in [Admins -> Ops \cup {Idle}]
  <2>1. CASE Fetch(a)
    <3> DEFINE new == [op[a] EXCEPT !.fetched = row,
                                    !.next = IF row.active THEN "build" ELSE "disable"]
    <3>1. new \in Ops
      BY <1>1 DEF TypeOK, Ops
    <3>2. op' = [op EXCEPT ![a] = new]
      BY <2>1 DEF Fetch
    <3> QED
      BY <3>1, <3>2 DEF TypeOK
  <2>2. CASE ReloadFails(a)
    BY <1>1, <2>2, Continues DEF ReloadFails, Steps
  <2>3. CASE WriteFails(a) \/ Install(a) \/ Disable(a)
    BY <1>1, <2>3, Ends DEF WriteFails, Install, Disable
  <2> QED
    BY <2>1, <2>2, <2>3
<1>3. runtime' \in Runtimes \cup {NotLoaded}
  BY <1>1 DEF TypeOK, WriteFails, Fetch, Install, Disable, ReloadFails, Ops, Rows, View,
              Runtimes
<1>4. UNCHANGED <<row, running, undone, disturbed, crashes>>
  BY DEF WriteFails, Fetch, Install, Disable, ReloadFails
<1> QED
  BY <1>2, <1>3, <1>4 DEF TypeOK

LEMMA TypeUndo ==
  ASSUME TypeOK, NEW a \in Admins, op[a].kind # "deactivate", Undo(a) \/ UndoFails(a)
  PROVE  TypeOK'
<1>1. op[a] \in Ops /\ op[a] # Idle
  BY UnderWay DEF Undo, UndoFails, At
<1>2. op' \in [Admins -> Ops \cup {Idle}]
  BY <1>1, Ends DEF Undo, UndoFails
<1>3. row' \in Rows
  <2>1. row \in Rows /\ op[a].account \in Rows
    BY <1>1 DEF TypeOK, Ops
  <2>2. CASE Undo(a) /\ op[a].kind = "config"
    BY <2>1, <2>2 DEF Undo, Restored, OldConfig, Rows
  <2>3. CASE Undo(a) /\ op[a].kind = "settings"
    BY <2>1, <2>3 DEF Undo, Restored, Rows
  <2>4. CASE Undo(a) /\ op[a].kind = "activate"
    BY <2>1, <2>4 DEF Undo, Restored, Rows
  <2>5. CASE UndoFails(a)
    BY <2>1, <2>5 DEF UndoFails
  <2> QED
    BY <1>1, <2>2, <2>3, <2>4, <2>5 DEF Ops, Kinds
<1>4. undone' \in BOOLEAN /\ disturbed' \in BOOLEAN
  BY Zenon DEF Undo, UndoFails, TypeOK
<1> QED
  BY <1>2, <1>3, <1>4 DEF Undo, UndoFails, TypeOK

LEMMA TypeProcess ==
  ASSUME TypeOK, Crash \/ LoadActive
  PROVE  TypeOK'
<1>1. CASE Crash
  <2>1. crashes' \in Nat /\ op' \in [Admins -> Ops \cup {Idle}]
    BY <1>1 DEF Crash, TypeOK
  <2> QED
    BY <1>1, <2>1 DEF Crash, TypeOK
<1>2. CASE LoadActive
  <2>1. View(row) \in Runtimes
    BY DEF TypeOK, Rows, View, Runtimes
  <2>2. runtime' \in Runtimes \cup {NotLoaded}
    BY <1>2, <2>1 DEF LoadActive
  <2> QED
    BY <1>2, <2>2 DEF LoadActive, TypeOK
<1> QED
  BY <1>1, <1>2

LEMMA TypeNext ==
  ASSUME TypeOK, NeverUndone, [Next]_vars
  PROVE  TypeOK'
<1>1. ASSUME NEW a \in Admins, Operation(a)
      PROVE  TypeOK'
  <2>1. CASE Undo(a) \/ UndoFails(a)
    <3>1. op[a].kind # "deactivate"
      BY <2>1 DEF Undo, UndoFails, At, NeverUndone
    <3> QED
      BY <2>1, <3>1, TypeUndo
  <2> QED
    BY <1>1, <2>1, TypeBegin, TypeWrites, TypeReload DEF Operation
<1>2. CASE UNCHANGED vars
  BY <1>2 DEF vars, TypeOK
<1> QED
  BY <1>1, <1>2, TypeProcess DEF Next

-------------------------------------------------------------------------------
(* Deactivations.                                                          *)

LEMMA NeverUndoneNext ==
  ASSUME TypeOK, NeverUndone, [Next]_vars
  PROVE  NeverUndone'
<1>1. ASSUME NEW a \in Admins, BeginConfig(a) \/ BeginSettings(a) \/ BeginSwitch(a)
      PROVE  NeverUndone'
  <2>1. PICK k, e : Begin(a, k, e)
    BY <1>1 DEF BeginConfig, BeginSettings, BeginSwitch
  <2> QED
    BY <2>1 DEF Begin, TypeOK, NeverUndone
<1>2. ASSUME NEW a \in Admins,
             \/ UpdateConfig(a) \/ UpdateSettings(a) \/ Activate(a) \/ Deactivate(a)
             \/ WriteFails(a) \/ Install(a) \/ Disable(a) \/ Undo(a) \/ UndoFails(a)
             \/ ReloadFails(a)
      PROVE  NeverUndone'
  <2>1. op[a] # Idle /\ ContinuesOrEnds(a)
    BY <1>2 DEF UpdateConfig, UpdateSettings, Activate, Deactivate, WriteFails, Install,
                Disable, Undo, UndoFails, ReloadFails, At, ContinuesOrEnds, Steps
  <2>2. CASE End(a)
    BY <2>1, <2>2, Ends DEF NeverUndone
  <2>3. CASE Deactivate(a)
    <3>1. Continue(a, "disable") /\ "disable" \in Steps
      BY <2>3 DEF Deactivate, Steps
    <3>2. /\ op'[a].next = "disable"
          /\ \A b \in Admins : b # a => op'[b] = op[b]
      BY <2>1, <3>1, Continues, ContinuesFields
    <3> QED
      BY <3>2 DEF NeverUndone
  <2>4. CASE op[a].kind # "deactivate" /\ \E s \in Steps : Continue(a, s)
    <3>1. PICK s \in Steps : Continue(a, s)
      BY <2>4
    <3>2. /\ op'[a].kind = op[a].kind
          /\ \A b \in Admins : b # a => op'[b] = op[b]
      BY <2>1, <3>1, Continues, ContinuesFields
    <3> QED
      BY <2>4, <3>2 DEF NeverUndone
  <2>5. CASE ReloadFails(a)
    BY <2>4, <2>5 DEF ReloadFails, NeverUndone, At, Steps
  <2> QED
    BY <1>2, <2>1, <2>2, <2>3, <2>4, <2>5
       DEF UpdateConfig, UpdateSettings, Activate, WriteFails, Install, Disable, Undo,
           UndoFails, ContinuesOrEnds
<1>3. ASSUME NEW a \in Admins, Fetch(a)
      PROVE  NeverUndone'
  <2>1. op[a] \in Ops /\ op[a].kind # "deactivate"
    BY <1>3, UnderWay DEF Fetch, At, NeverUndone
  <2>2. op'[a].kind # "deactivate" /\ \A b \in Admins : b # a => op'[b] = op[b]
    BY <1>3, <2>1 DEF Fetch, TypeOK, Ops
  <2> QED
    BY <2>2 DEF NeverUndone
<1>4. CASE Crash \/ LoadActive \/ UNCHANGED vars
  BY <1>4 DEF Crash, LoadActive, vars, NeverUndone
<1> QED
  BY <1>1, <1>2, <1>3, <1>4 DEF Next, Operation

-------------------------------------------------------------------------------
(* Versions.                                                               *)

\* A row that gets a new version leaves what was taken from it behind.
LEMMA DatedLater ==
  ASSUME NEW s, s.version \in Nat, NEW r \in Rows, NEW t \in Rows, Dated(s, r),
         t.version = r.version + 1 \/ (t.version = r.version /\ t.config = r.config)
  PROVE  Dated(s, t)
<1>1. r.version \in Nat /\ t.version \in Nat
  BY DEF Rows, Versions
<1> QED
  BY <1>1 DEF Dated

\* A step that rolls no configuration back keeps the version or takes the next.
LEMMA RowGrows ==
  ASSUME TypeOK, NeverUndone, [Next]_vars, ~undone'
  PROVE  \/ row'.version = row.version + 1
         \/ row'.version = row.version /\ row'.config = row.config
<1>1. row \in Rows
  BY DEF TypeOK
<1>2. ASSUME NEW a \in Admins, UpdateConfig(a) PROVE row'.version = row.version + 1
  BY <1>1, <1>2 DEF UpdateConfig, WithConfig, Rows
<1>3. ASSUME NEW a \in Admins, UpdateSettings(a) \/ Activate(a) \/ Deactivate(a)
      PROVE  row'.version = row.version /\ row'.config = row.config
  BY <1>1, <1>3 DEF UpdateSettings, Activate, Deactivate, Rows
<1>4. ASSUME NEW a \in Admins, Undo(a)
      PROVE  row'.version = row.version /\ row'.config = row.config
  <2>1. op[a].kind \in {"settings", "activate"}
    <3>1. op[a] # Idle /\ op[a].next = "undo" /\ op[a].kind # "config"
      BY <1>4 DEF Undo, At
    <3>2. op[a].kind \in Kinds /\ op[a].kind # "deactivate"
      BY <3>1, UnderWay DEF Ops, NeverUndone
    <3> QED
      BY <3>1, <3>2 DEF Kinds
  <2>2. CASE op[a].kind = "settings"
    BY <1>1, <1>4, <2>2 DEF Undo, Restored, Rows
  <2>3. CASE op[a].kind = "activate"
    BY <1>1, <1>4, <2>3 DEF Undo, Restored, Rows
  <2> QED
    BY <2>1, <2>2, <2>3
<1>5. ASSUME NEW a \in Admins, Operation(a),
             ~UpdateConfig(a), ~UpdateSettings(a), ~Activate(a), ~Deactivate(a), ~Undo(a)
      PROVE  row' = row
  BY <1>5 DEF Operation, BeginConfig, BeginSettings, BeginSwitch, Begin, WriteFails, Fetch,
              Install, Disable, ReloadFails, UndoFails
<1>6. CASE Crash \/ LoadActive \/ UNCHANGED vars
  BY <1>6 DEF Crash, LoadActive, vars
<1> QED
  BY <1>2, <1>3, <1>4, <1>5, <1>6 DEF Next

LEMMA VersionsNext ==
  ASSUME TypeOK, TypeOK', NeverUndone, VersionsInv, [Next]_vars
  PROVE  VersionsInv'
<1> SUFFICES ASSUME ~undone'
             PROVE  /\ runtime' # NotLoaded => Dated(runtime', row')
                    /\ \A a \in Admins : At(a, "build")' => Dated(op'[a].fetched, row')
  BY DEF VersionsInv
<1>1. ~undone
  <2>1. ASSUME NEW a \in Admins, Operation(a), undone PROVE FALSE
    BY <2>1 DEF Operation, BeginConfig, BeginSettings, BeginSwitch, Begin, UpdateConfig,
                UpdateSettings, Activate, Deactivate, WriteFails, Fetch, Install, Disable,
                ReloadFails, Undo, UndoFails
  <2> QED
    BY <2>1 DEF Next, Crash, LoadActive, vars
<1>2. ASSUME NEW s, s.version \in Nat, Dated(s, row)
      PROVE  Dated(s, row')
  BY <1>2, RowGrows, DatedLater DEF TypeOK
<1>3. row \in Rows /\ row'= row => Dated(row, row') /\ Dated(View(row), row')
  BY DEF Dated, View, Rows, Versions
<1>4. ASSUME runtime' # NotLoaded
      PROVE  Dated(runtime', row')
  <2>1. CASE runtime' = runtime
    <3>1. runtime.version \in Nat
      BY <1>4, <2>1 DEF TypeOK, Runtimes, Versions
    <3> QED
      BY <1>1, <1>2, <1>4, <2>1, <3>1 DEF VersionsInv
  <2>2. ASSUME NEW a \in Admins, Install(a)
        PROVE  Dated(runtime', row')
    <3>1. Dated(op[a].fetched, row) /\ row' = row /\ runtime' = View(op[a].fetched)
      BY <1>1, <2>2 DEF Install, VersionsInv
    <3> QED
      BY <3>1 DEF Dated, View
  <2>3. CASE LoadActive
    BY <1>3, <1>4, <2>3 DEF LoadActive, TypeOK
  <2>4. ASSUME NEW a \in Admins, Operation(a), ~Install(a)
        PROVE  runtime' = runtime
    BY <1>4, <2>4
       DEF Operation, BeginConfig, BeginSettings, BeginSwitch, Begin, UpdateConfig,
           UpdateSettings, Activate, Deactivate, WriteFails, Fetch, Disable, ReloadFails,
           Undo, UndoFails
  <2> QED
    BY <1>4, <2>1, <2>2, <2>3, <2>4 DEF Next, Crash, vars
<1>5. ASSUME NEW b \in Admins, At(b, "build")'
      PROVE  Dated(op'[b].fetched, row')
  <2>1. CASE At(b, "build") /\ op'[b] = op[b]
    <3>1. op[b].fetched.version \in Nat
      BY <2>1, UnderWay DEF At, Ops, Rows, Versions
    <3> QED
      BY <1>1, <1>2, <2>1, <3>1 DEF VersionsInv
  <2>2. CASE op'[b] = op[b]
    BY <1>5, <2>1, <2>2 DEF At
  <2>3. CASE Fetch(b)
    <3>1. op'[b].fetched = row /\ row' = row
      BY <2>3, UnderWay DEF Fetch, At, TypeOK, Ops
    <3> QED
      BY <1>3, <3>1 DEF TypeOK
  <2>4. ASSUME NEW a \in Admins, Fetch(a), a # b
        PROVE  op'[b] = op[b]
    BY <2>4 DEF Fetch, TypeOK
  <2>5. ASSUME NEW a \in Admins, BeginConfig(a) \/ BeginSettings(a) \/ BeginSwitch(a)
        PROVE  op'[b] = op[b]
    <3>1. PICK k, e : Begin(a, k, e)
      BY <2>5 DEF BeginConfig, BeginSettings, BeginSwitch
    <3> QED
      BY <1>5, <3>1 DEF Begin, TypeOK, At
  <2>6. ASSUME NEW a \in Admins,
               \/ UpdateConfig(a) \/ UpdateSettings(a) \/ Activate(a) \/ Deactivate(a)
               \/ WriteFails(a) \/ Install(a) \/ Disable(a) \/ Undo(a) \/ UndoFails(a)
               \/ ReloadFails(a)
        PROVE  op'[b] = op[b]
    <3>1. /\ op[a] # Idle
          /\ End(a) \/ \E s \in Steps \ {"build"} : Continue(a, s)
      BY <2>6 DEF UpdateConfig, UpdateSettings, Activate, Deactivate, WriteFails, Install,
                  Disable, Undo, UndoFails, ReloadFails, At, Steps
    <3>2. CASE End(a)
      BY <1>5, <3>1, <3>2, Ends DEF At
    <3>3. ASSUME NEW s \in Steps \ {"build"}, Continue(a, s)
          PROVE  op'[b] = op[b]
      <4>1. op[a] \in Ops
        BY <3>1, UnderWay
      <4>2. /\ op'[a] = [op[a] EXCEPT !.next = s]
            /\ \A c \in Admins : c # a => op'[c] = op[c]
        BY <3>1, <3>3, Continues
      <4>3. op'[a].next # "build"
        BY <4>1, <4>2, <3>3 DEF Ops
      <4> QED
        BY <1>5, <4>2, <4>3 DEF At
    <3> QED
      BY <3>1, <3>2, <3>3
  <2>7. CASE Crash \/ LoadActive \/ UNCHANGED vars
    BY <1>5, <2>2, <2>7 DEF Crash, LoadActive, vars, At
  <2> QED
    BY <2>2, <2>3, <2>4, <2>5, <2>6, <2>7 DEF Next, Operation
<1> QED
  BY <1>4, <1>5

-------------------------------------------------------------------------------
(* One operation at a time.                                                *)

\* The only operation goes on, or begins.
LEMMA OneUnderWay ==
  ASSUME NEW a \in Admins, running',
         \A b \in Admins : b # a => op'[b] = Idle,
         op'[a] # Idle, InHand(a)'
  PROVE  SerialInv'
BY DEF SerialInv, Busy

\* The only operation ends.
LEMMA LastEnds ==
  ASSUME TypeOK, NEW a \in Admins, op[a] # Idle, End(a), running',
         \A b \in Admins : b # a => op[b] = Idle,
         runtime' = Wanted(row')
  PROVE  SerialInv'
<1>1. Busy' = {}
  BY Ends DEF Busy
<1>2. Wanted(row)' = Wanted(row')
  BY DEF Wanted, View
<1> QED
  BY <1>1, <1>2 DEF SerialInv

\* Where the operation of a stands alone, in order.
Alone(a) ==
  /\ op[a] \in Ops /\ op[a] # Idle /\ InHand(a)
  /\ \A b \in Admins : b # a => op[b] = Idle

LEMMA BeginSerial ==
  ASSUME TypeOK, SerialInv, NEW a \in Admins, ~disturbed',
         BeginConfig(a) \/ BeginSettings(a) \/ BeginSwitch(a)
  PROVE  SerialInv'
<1>1. PICK k, e : Begin(a, k, e)
  BY DEF BeginConfig, BeginSettings, BeginSwitch
<1>2. Busy = {} /\ ~disturbed /\ running
  BY <1>1 DEF Begin
<1>3. runtime = Wanted(row)
  BY <1>2 DEF SerialInv
<1>4. op'[a] = [kind |-> k, edit |-> e, account |-> row, fetched |-> row, next |-> "write"]
  BY <1>1 DEF Begin, TypeOK
<1>5. op'[a] # Idle
  BY <1>4 DEF Idle
<1>6. \A b \in Admins : b # a => op'[b] = Idle
  BY <1>1, <1>2 DEF Begin, TypeOK, Busy
<1>7. row' = row /\ runtime' = runtime /\ running'
  BY <1>1 DEF Begin
<1>8. InHand(a)'
  BY <1>3, <1>4, <1>7 DEF InHand, Wanted, View
<1> QED
  BY <1>5, <1>6, <1>7, <1>8, OneUnderWay

LEMMA WriteSerial ==
  ASSUME TypeOK, NEW a \in Admins, Alone(a), running',
         \/ UpdateConfig(a) \/ UpdateSettings(a) \/ Activate(a) \/ Deactivate(a)
         \/ WriteFails(a)
  PROVE  SerialInv'
<1>1. /\ op[a] \in Ops /\ op[a] # Idle /\ op[a].next = "write"
      /\ op[a].account = row /\ runtime = Wanted(row) /\ runtime' = runtime
      /\ row \in Rows
  BY DEF Alone, InHand, UpdateConfig, UpdateSettings, Activate, Deactivate, WriteFails, At,
         TypeOK
<1>2. CASE UpdateConfig(a) \/ UpdateSettings(a) \/ Activate(a)
  <2>1. CASE Continue(a, "fetch")
    <3>1. op'[a] = [op[a] EXCEPT !.next = "fetch"] /\ op'[a] \in Ops
      BY <1>1, <2>1, Continues DEF Steps
    <3>2. op'[a].account = row /\ op'[a].next = "fetch" /\ op'[a].edit = op[a].edit
          /\ op'[a].kind = op[a].kind
      BY <1>1, <3>1 DEF Ops
    <3>3. Written(a)'
      <4>1. CASE UpdateConfig(a)
        <5>1. row.active
          <6> SUFFICES ASSUME ~row.active PROVE FALSE
            OBVIOUS
          <6>1. End(a)
            BY <1>1, <4>1 DEF UpdateConfig
          <6> QED
            BY <1>1, <3>1, <6>1, Ends, IdleIsNoOp
        <5> QED
          BY <1>1, <3>2, <4>1, <5>1 DEF UpdateConfig, WithConfig, Written
      <4>2. CASE UpdateSettings(a)
        <5>1. row.active
          <6> SUFFICES ASSUME ~row.active PROVE FALSE
            OBVIOUS
          <6>1. End(a)
            BY <1>1, <4>2 DEF UpdateSettings
          <6> QED
            BY <1>1, <3>1, <6>1, Ends, IdleIsNoOp
        <5> QED
          BY <1>1, <3>2, <4>2, <5>1 DEF UpdateSettings, Written
      <4>3. CASE Activate(a)
        BY <1>1, <3>2, <4>3 DEF Activate, Written
      <4> QED
        BY <1>2, <4>1, <4>2, <4>3
    <3>4. Wanted(op[a].account)' = Wanted(row)
      BY <3>2 DEF Wanted, View
    <3>5. InHand(a)'
      BY <1>1, <3>2, <3>3, <3>4 DEF InHand
    <3>6. \A b \in Admins : b # a => op'[b] = Idle
      BY <2>1 DEF Continue, TypeOK, Alone
    <3> QED
      BY <1>1, <3>1, <3>5, <3>6, IdleIsNoOp, OneUnderWay
  <2>2. CASE End(a)
    <3>1. ~row.active
      <4> SUFFICES ASSUME row.active PROVE FALSE
        OBVIOUS
      <4>1. Continue(a, "fetch")
        BY <1>1, <1>2 DEF UpdateConfig, UpdateSettings, Activate
      <4> QED
        BY <1>1, <2>2, <4>1, Ends, Continues, IdleIsNoOp DEF Steps
    <3>2. ~Activate(a)
      <4> SUFFICES ASSUME Activate(a) PROVE FALSE
        OBVIOUS
      <4>1. Continue(a, "fetch")
        BY DEF Activate
      <4> QED
        BY <1>1, <2>2, <4>1, Ends, Continues, IdleIsNoOp DEF Steps
    <3>3. row'.active = row.active
      BY <1>1, <1>2, <3>2 DEF UpdateConfig, WithConfig, UpdateSettings, Rows
    <3>4. runtime' = Wanted(row')
      BY <1>1, <3>1, <3>3 DEF Wanted
    <3> QED
      BY <1>1, <2>2, <3>4, LastEnds DEF Alone
  <2> QED
    BY <1>2, <2>1, <2>2 DEF UpdateConfig, UpdateSettings, Activate
<1>3. CASE Deactivate(a)
  <2>1. /\ op'[a] = [op[a] EXCEPT !.next = "disable"] /\ op'[a] \in Ops
        /\ \A b \in Admins : b # a => op'[b] = op[b]
    BY <1>1, <1>3, Continues DEF Deactivate, Steps
  <2>2. op'[a].next = "disable" /\ row'.active = FALSE
    BY <1>1, <1>3, <2>1 DEF Deactivate, Ops, Rows
  <2>3. InHand(a)'
    BY <2>2 DEF InHand
  <2> QED
    BY <2>1, <2>3, IdleIsNoOp, OneUnderWay DEF Alone
<1>4. CASE WriteFails(a)
  <2>1. runtime' = Wanted(row')
    BY <1>1, <1>4 DEF WriteFails, Wanted, View
  <2> QED
    BY <1>1, <1>4, <2>1, LastEnds DEF WriteFails, Alone
<1> QED
  BY <1>2, <1>3, <1>4

LEMMA ReloadSerial ==
  ASSUME TypeOK, NEW a \in Admins, Alone(a), running',
         Fetch(a) \/ Install(a) \/ Disable(a) \/ ReloadFails(a)
  PROVE  SerialInv'
<1>1. op[a] \in Ops /\ op[a] # Idle /\ row \in Rows /\ row' = row
  BY DEF Alone, TypeOK, Fetch, Install, Disable, ReloadFails
<1>2. Written(a) => row.active
  BY <1>1 DEF Written, Ops, Rows
<1>3. CASE Fetch(a)
  <2>1. Written(a) /\ runtime = Wanted(op[a].account) /\ row.active
    BY <1>2, <1>3 DEF Fetch, At, Alone, InHand
  <2>2. op'[a] = [op[a] EXCEPT !.fetched = row, !.next = "build"]
    BY <1>3, <2>1 DEF Fetch, TypeOK
  <2>3. /\ op'[a] \in Ops /\ op'[a].account = op[a].account /\ op'[a].kind = op[a].kind
        /\ op'[a].edit = op[a].edit /\ op'[a].fetched = row /\ op'[a].next = "build"
    BY <1>1, <2>2 DEF Ops
  <2>4. Written(a)' /\ runtime' = runtime
    BY <1>1, <1>3, <2>1, <2>3 DEF Written, Fetch
  <2>5. Wanted(op[a].account)' = Wanted(op[a].account)
    BY <2>3 DEF Wanted, View
  <2>6. InHand(a)'
    BY <1>1, <2>1, <2>3, <2>4, <2>5 DEF InHand
  <2>7. \A b \in Admins : b # a => op'[b] = Idle
    BY <1>3 DEF Fetch, TypeOK, Alone
  <2> QED
    BY <2>3, <2>6, <2>7, IdleIsNoOp, OneUnderWay
<1>4. CASE ReloadFails(a)
  <2>1. Written(a) /\ runtime = Wanted(op[a].account)
    BY <1>4 DEF ReloadFails, At, Alone, InHand
  <2>2. /\ op'[a] = [op[a] EXCEPT !.next = "undo"] /\ op'[a] \in Ops
        /\ \A b \in Admins : b # a => op'[b] = op[b]
    BY <1>1, <1>4, Continues DEF ReloadFails, Steps
  <2>3. /\ op'[a].account = op[a].account /\ op'[a].kind = op[a].kind
        /\ op'[a].edit = op[a].edit /\ op'[a].next = "undo"
    BY <1>1, <2>2 DEF Ops
  <2>4. Written(a)' /\ runtime' = runtime
    BY <1>1, <1>4, <2>1, <2>3 DEF Written, ReloadFails
  <2>5. Wanted(op[a].account)' = Wanted(op[a].account)
    BY <2>3 DEF Wanted, View
  <2>6. InHand(a)'
    BY <2>1, <2>3, <2>4, <2>5 DEF InHand
  <2> QED
    BY <2>2, <2>6, IdleIsNoOp, OneUnderWay DEF Alone
<1>5. CASE Install(a)
  <2>1. op[a].fetched = row /\ Written(a)
    BY <1>5 DEF Install, At, Alone, InHand
  <2>2. runtime' = Wanted(row')
    BY <1>1, <1>2, <1>5, <2>1 DEF Install, Wanted
  <2> QED
    BY <1>1, <1>5, <2>2, LastEnds DEF Install, Alone
<1>6. CASE Disable(a)
  <2>1. runtime' = Wanted(row')
    BY <1>1, <1>6 DEF Disable, At, Alone, InHand, Wanted
  <2> QED
    BY <1>1, <1>6, <2>1, LastEnds DEF Disable, Alone
<1> QED
  BY <1>3, <1>4, <1>5, <1>6

\* A rollback leaves the row it found: nothing else has written.
LEMMA UndoSerial ==
  ASSUME TypeOK, NEW a \in Admins, Alone(a), running', ~disturbed', Undo(a)
  PROVE  SerialInv'
<1>1. /\ op[a] \in Ops /\ op[a] # Idle /\ Written(a)
      /\ runtime' = Wanted(op[a].account) /\ op[a].account \in Rows
  BY DEF Alone, Undo, At, InHand, Ops
<1>2. row' = op[a].account
  <2>1. row' = Restored(a)
    BY DEF Undo
  <2>2. CASE op[a].kind = "config"
    BY <1>1, <2>1, <2>2 DEF Written, Restored, OldConfig, Rows
  <2>3. CASE op[a].kind = "settings"
    BY <1>1, <2>1, <2>3 DEF Written, Restored, Rows
  <2>4. CASE op[a].kind = "activate"
    <3>1. op[a].account.active = FALSE
      BY <1>1, <2>4 DEF Undo, Rows
    <3> QED
      BY <1>1, <2>1, <2>4, <3>1 DEF Written, Restored, Rows
  <2> QED
    BY <1>1, <2>2, <2>3, <2>4 DEF Written
<1>3. runtime' = Wanted(row')
  BY <1>1, <1>2
<1> QED
  BY <1>1, <1>3, LastEnds DEF Undo, Alone

LEMMA SerialNext ==
  ASSUME TypeOK, SerialInv, [Next]_vars
  PROVE  SerialInv'
<1>1. ASSUME NEW a \in Admins, Operation(a)
      PROVE  SerialInv'
  <2>1. running /\ running'
    <3>1. op[a] # Idle => running
      BY DEF SerialInv, Busy
    <3> QED
      BY <1>1, <3>1
         DEF Operation, BeginConfig, BeginSettings, BeginSwitch, Begin, UpdateConfig,
             UpdateSettings, Activate, Deactivate, WriteFails, Fetch, Install, Disable,
             ReloadFails, Undo, UndoFails, At
  <2>2. CASE disturbed'
    BY <2>1, <2>2 DEF SerialInv
  <2>3. CASE ~disturbed'
    <3>1. ~disturbed /\ ~UndoFails(a)
      <4>1. ~UndoFails(a)
        BY <2>3 DEF UndoFails
      <4>2. ASSUME NEW k, NEW e, Begin(a, k, e) PROVE ~disturbed
        <5>1. disturbed' = (disturbed \/ Busy # {})
          BY <4>2 DEF Begin
        <5>2. disturbed \in BOOLEAN
          BY DEF TypeOK
        <5> QED
          BY <2>3, <5>1, <5>2
      <4>3. CASE Undo(a)
        <5>1. disturbed' = (disturbed \/ (op[a].kind = "activate" /\ op[a].account.active))
          BY <4>3 DEF Undo
        <5> QED
          BY <2>3, <4>1, <5>1, Zenon
      <4>4. CASE BeginConfig(a) \/ BeginSettings(a) \/ BeginSwitch(a)
        <5>1. PICK k, e : Begin(a, k, e)
          BY <4>4 DEF BeginConfig, BeginSettings, BeginSwitch
        <5> QED
          BY <4>1, <4>2, <5>1
      <4> QED
        BY <1>1, <2>3, <4>1, <4>3, <4>4
           DEF Operation, UpdateConfig, UpdateSettings, Activate, Deactivate, WriteFails,
               Fetch, Install, Disable, ReloadFails
    <3>2. op[a] # Idle => Alone(a)
      BY <2>1, <3>1, UnderWay DEF SerialInv, Alone, Busy
    <3>3. CASE BeginConfig(a) \/ BeginSettings(a) \/ BeginSwitch(a)
      BY <2>3, <3>3, BeginSerial
    <3>4. CASE \/ UpdateConfig(a) \/ UpdateSettings(a) \/ Activate(a) \/ Deactivate(a)
               \/ WriteFails(a)
      <4>1. Alone(a)
        BY <3>2, <3>4 DEF UpdateConfig, UpdateSettings, Activate, Deactivate, WriteFails, At
      <4> QED
        BY <2>1, <3>4, <4>1, WriteSerial
    <3>5. CASE Fetch(a) \/ Install(a) \/ Disable(a) \/ ReloadFails(a)
      <4>1. Alone(a)
        BY <3>2, <3>5 DEF Fetch, Install, Disable, ReloadFails, At
      <4> QED
        BY <2>1, <3>5, <4>1, ReloadSerial
    <3>6. CASE Undo(a)
      <4>1. Alone(a)
        BY <3>2, <3>6 DEF Undo, At
      <4> QED
        BY <2>1, <2>3, <3>6, <4>1, UndoSerial
    <3> QED
      BY <1>1, <3>1, <3>3, <3>4, <3>5, <3>6 DEF Operation
  <2> QED
    BY <2>2, <2>3
<1>2. CASE Crash
  BY <1>2 DEF Crash, SerialInv, Busy
<1>3. CASE LoadActive
  <2>1. Busy' = {}
    BY <1>3 DEF LoadActive, SerialInv, Busy
  <2>2. Wanted(row)' = IF row.active THEN View(row) ELSE NotLoaded
    BY <1>3 DEF LoadActive, Wanted, View
  <2> QED
    BY <1>3, <2>1, <2>2 DEF LoadActive, SerialInv
<1>4. CASE UNCHANGED vars
  BY <1>4 DEF vars, SerialInv, Busy, InHand, Written, Wanted, View
<1> QED
  BY <1>1, <1>2, <1>3, <1>4 DEF Next

-------------------------------------------------------------------------------
(* What follows for the specification.                                     *)

LEMMA AInit == Init => AInv
<1> SUFFICES ASSUME Init PROVE AInv
  OBVIOUS
<1>1. TypeOK
  BY TypeInit
<1>2. VersionsInv /\ NeverUndone /\ Busy = {}
  BY DEF Init, VersionsInv, NeverUndone, Busy, At
<1>3. runtime = Wanted(row)
  BY DEF Init, Wanted
<1> QED
  BY <1>1, <1>2, <1>3 DEF AInv, SerialInv

LEMMA ANext == AInv /\ [Next]_vars => AInv'
BY TypeNext, VersionsNext, SerialNext, NeverUndoneNext DEF AInv

LEMMA AInductive == Spec => []AInv
BY AInit, ANext, PTL DEF Spec

\* Every variable has its type: no rollback stores a version that was never given
\* (provider/admin.go, the Restore calls).
THEOREM AccountsTypeCorrect == Spec => []TypeOK
<1>1. AInv => TypeOK
  BY DEF AInv
<1> QED
  BY <1>1, AInductive, PTL

\* At rest the runtime is the row's: every change of an account reaches the runtime
\* or is rolled back, for operations one after the other (provider/admin.go).
THEOREM AccountsAgreeAtRest == Spec => []QuietAgrees
<1>1. AInv => QuietAgrees
  BY DEF AInv, SerialInv, QuietAgrees
<1> QED
  BY <1>1, AInductive, PTL

\* Without a rollback, a version names one configuration, whatever races (SetConfig
\* in repositories/payments.go).
THEOREM VersionNamesConfig == Spec => []VersionsDistinguish
<1>1. AInv => VersionsDistinguish
  BY DEF AInv, VersionsInv, VersionsDistinguish, Dated
<1> QED
  BY <1>1, AInductive, PTL


===============================================================================
