---------------------------- MODULE Lifecycle_proofs ----------------------------
(***************************************************************************)
(* What the run of Lifecycle checks for two processes that start three     *)
(* times over two accounts, proved for every set of processes, accounts    *)
(* and any number of starts: first what the processes do to the database   *)
(* (Migrations), then the life of the one that is followed.                *)
(***************************************************************************)
EXTENDS Lifecycle, TLAPS

-------------------------------------------------------------------------------
(* The inductive invariant of Migrations.                                  *)

\* A migration is only recorded when those before it are through.
LedgerInv == \A v, w \in Versions : v < w /\ ledger[w] # "none" => ledger[v] = "clean"

\* What a process that has read the ledger does not plan was through then, and still is.
PlanInv ==
  \A p \in Procs :
    /\ stage[p] \in Applying \cup {"apply", "ready"} =>
         \A v \in Versions \ plan[p] : ledger[v] = "clean"
    /\ stage[p] \in Applying => plan[p] # {}
    /\ stage[p] = "ready" => plan[p] = {}

\* The customers' accounts are in a column there is, of which there is one, and an
\* account's country has been written by the time the countries are dropped.
DataInv ==
  /\ phones = "customer_phone" => "customer_phone" \in columns
  /\ "customer_phone" \in columns => "customer_account" \notin columns
  /\ "countries" \notin columns /\ listed # {} => placed = Accounts

\* What a migration leaves behind once it is through.
VersionInv ==
  /\ ledger[2] = "clean" => "customer_phone" \notin columns
  /\ ledger[3] = "clean" => "countries" \notin columns

\* The third migration's part of the work, and each one's effect when it is done.
Placing == {"country", "currency", "backfill"}

StageInv ==
  \A p \in Procs :
    /\ stage[p] \in Placing \cup {"app"} => Current(p) = 3
    /\ stage[p] \in Placing /\ "countries" \in columns => Accounts \subseteq queue[p] \cup placed
    /\ stage[p] = "app" => "countries" \notin columns
    /\ stage[p] = "done" /\ Current(p) = 2 => "customer_phone" \notin columns
    /\ stage[p] = "done" /\ Current(p) = 3 => "countries" \notin columns
    /\ stage[p] = "ready" => phones = "customer_account" /\ columns = NewColumns

MInv ==
  TypeOK /\ OneMigratesInOrder /\ LedgerInv /\ PlanInv /\ DataInv /\ VersionInv /\ StageInv

-------------------------------------------------------------------------------
(* The inductive invariant of the life that follows.                       *)

\* Who is there while Serve is where: nothing before it starts its goroutines, a
\* listener until it is stopped, and after it only what Shutdown left behind.
ServeInv ==
  /\ served \in {"no", "loading", "loaded"} => task = "none" /\ listener = "none"
  /\ served \in {"select", "stopping"} =>
       listener \in {"starting", "listening", "failed", "ended"}
  /\ served = "draining" => listener = "stopped"
  /\ served \in {"leaving", "done"} =>
       /\ request \/ listener = "ended" => left # "none"
       /\ listener \in {"starting", "listening"} => left = "early"
  /\ served = "done" => task \in {"none", "ended"}
  /\ listener \in {"none", "starting", "failed"} => ~request

\* Close waits for a Serve that was there, and none begins after it.
CloseInv ==
  /\ closing # "no" /\ ~waits => served = "no"
  /\ closing = "closed" /\ waits => served = "done"

LInv == MInv /\ LifeTypeOK /\ ServeInv /\ CloseInv

-------------------------------------------------------------------------------
(* What the planned versions are.                                          *)

\* ordered: a process that plans some version has a first one to apply.
LEMMA CurrentLeast ==
  ASSUME TypeOK, NEW p \in Procs, plan[p] # {}
  PROVE  Current(p) \in plan[p] /\ \A w \in plan[p] : Current(p) <= w
<1> plan[p] \subseteq 1 .. 3
  BY DEF TypeOK, Versions
<1>1. \E v \in plan[p] : \A w \in plan[p] : v <= w
  <2>1. CASE 1 \in plan[p]
    BY <2>1
  <2>2. CASE 1 \notin plan[p] /\ 2 \in plan[p]
    BY <2>2
  <2>3. CASE 1 \notin plan[p] /\ 2 \notin plan[p]
    <3> plan[p] = {3}
      BY <2>3
    <3> QED
      OBVIOUS
  <2> QED
    BY <2>1, <2>2, <2>3
<1> DEFINE P(v) == v \in plan[p] /\ \A w \in plan[p] : v <= w
<1>2. \E v : P(v)
  BY <1>1
<1>3. Current(p) = CHOOSE v : v \in plan[p] /\ \A w \in plan[p] : v <= w
  BY Zenon DEF Current
<1>4. P(CHOOSE v : P(v))
  BY <1>2, Zenon
<1> QED
  BY <1>3, <1>4

LEMMA CurrentVersion ==
  ASSUME TypeOK, NEW p \in Procs, plan[p] # {}
  PROVE  Current(p) \in Versions
  BY CurrentLeast DEF TypeOK

LEMMA CurrentSame ==
  ASSUME NEW p, plan'[p] = plan[p]
  PROVE  Current(p)' = Current(p)
  BY DEF Current

-------------------------------------------------------------------------------
(* Types.                                                                  *)

LEMMA MigrationsTypeInit == Init => TypeOK
<1> SUFFICES ASSUME Init PROVE TypeOK
  OBVIOUS
<1>1. columns \subseteq OldColumns \cup NewColumns
  BY DEF Init, OldColumns, NewColumns
<1>2. phones \in {"none", "customer_phone", "customer_account"}
  <2>1. CASE columns = {}
    BY <2>1 DEF Init
  <2>2. CASE columns = OldColumns
    BY <2>2 DEF Init, OldColumns
  <2>3. CASE columns = {"customer_account", "countries"}
    BY <2>3 DEF Init
  <2> QED
    BY <2>1, <2>2, <2>3 DEF Init
<1> QED
  BY <1>1, <1>2, MigrationsAssumption DEF Init, TypeOK, Stages

LEMMA MigrationsTypeNext == TypeOK /\ [Next]_vars => TypeOK'
<1> SUFFICES ASSUME TypeOK, [Next]_vars PROVE TypeOK'
  OBVIOUS
<1> USE MigrationsAssumption
<1>1. ASSUME NEW p \in Procs, StartUp(p) PROVE TypeOK'
  <2>1. CASE Start(p)
    BY <2>1 DEF Start, Go, schema, TypeOK, Stages
  <2>2. CASE ReadLedger(p)
    BY <2>2 DEF ReadLedger, Fails, ToApply, Pending, Go, schema, TypeOK, Stages
  <2>3. CASE Record(p)
    BY <2>3 DEF Record, Fails, Go, schema, TypeOK, Stages
  <2>4. CASE Baseline(p) \/ AccountLocation(p)
    BY <2>4 DEF Baseline, AccountLocation, Go, schema, TypeOK, Stages
  <2>5. CASE CustomerAccount(p)
    BY <2>5 DEF CustomerAccount, Go, TypeOK, Stages, OldColumns, NewColumns
  <2>6. CASE AddCountry(p) \/ AddCurrency(p)
    BY <2>6 DEF AddCountry, AddCurrency, Adds, Go, TypeOK, Stages, NewColumns
  <2>7. CASE \E a \in Accounts : Backfill(p, a)
    BY <2>7 DEF Backfill, TypeOK
  <2>8. CASE DropCountries(p)
    BY <2>8 DEF DropCountries, Go, TypeOK, Stages
  <2>9. CASE AddAppCurrency(p)
    BY <2>9 DEF AddAppCurrency, Go, TypeOK, Stages, NewColumns
  <2>10. CASE Finish(p)
    BY <2>10 DEF Finish, Go, schema, TypeOK, Stages
  <2>11. CASE Converge(p)
    BY <2>11 DEF Converge, Go, TypeOK, Stages
  <2> QED
    BY <1>1, <2>1, <2>2, <2>3, <2>4, <2>5, <2>6, <2>7, <2>8, <2>9, <2>10, <2>11 DEF StartUp, Up
<1>2. ASSUME NEW p \in Procs, Crash(p) PROVE TypeOK'
  BY <1>2 DEF Crash, Fails, Go, schema, TypeOK, Stages
<1>3. CASE Operator
  BY <1>3 DEF Operator, DeleteRow, NameCountry, schema, TypeOK
<1>4. CASE UNCHANGED vars
  BY <1>4 DEF vars, schema, TypeOK
<1> QED
  BY <1>1, <1>2, <1>3, <1>4 DEF Next

-------------------------------------------------------------------------------
(* The ledger: who applies what, and what is through.                      *)

LedgerPart == OneMigratesInOrder /\ LedgerInv /\ PlanInv

\* Nobody applies anything beside a process that does, nor has anybody converged: the
\* version it applies is dirty, and a process that converged saw none that was.
LEMMA NobodyElse ==
  ASSUME MInv, NEW p \in Procs, stage[p] \in Applying, NEW q \in Procs, q # p
  PROVE  stage[q] \notin Applying \cup {"ready"}
<1>1. Current(p) \in Versions
  BY CurrentVersion DEF MInv, PlanInv
<1>2. ledger[Current(p)] = "dirty"
  BY <1>1 DEF MInv, OneMigratesInOrder, Versions
<1> QED
  BY <1>1, <1>2 DEF MInv, OneMigratesInOrder, PlanInv

\* A step within a stage, or out of it.
LEMMA LedgerKept ==
  ASSUME LedgerPart, ledger' = ledger, plan' = plan,
         NEW p \in Procs, NEW s, stage' = [stage EXCEPT ![p] = s], TypeOK,
         s \in Applying => stage[p] \in Applying,
         s = "apply" => stage[p] = "apply",
         s = "ready" => Applied(p)
  PROVE  LedgerPart'
<1>1. \A q \in Procs : stage'[q] = IF q = p THEN s ELSE stage[q]
  BY DEF TypeOK
<1>2. \A q \in Procs : Current(q)' = Current(q)
  BY CurrentSame
<1>3. \A q \in Procs : stage'[q] \in Applying => stage[q] \in Applying
  BY <1>1
<1>4. OneMigratesInOrder'
  BY <1>2, <1>3 DEF LedgerPart, OneMigratesInOrder
<1>5. LedgerInv'
  BY DEF LedgerPart, LedgerInv
<1>6. PlanInv'
  <2> SUFFICES ASSUME NEW q \in Procs
               PROVE  /\ stage'[q] \in Applying \cup {"apply", "ready"} =>
                           \A v \in Versions \ plan[q] : ledger[v] = "clean"
                      /\ stage'[q] \in Applying => plan[q] # {}
                      /\ stage'[q] = "ready" => plan[q] = {}
    BY DEF PlanInv
  <2>1. CASE q = p
    BY <2>1, <1>1, <1>3 DEF LedgerPart, PlanInv, Applied
  <2>2. CASE q # p
    BY <2>2, <1>1 DEF LedgerPart, PlanInv
  <2> QED
    BY <2>1, <2>2
<1> QED
  BY <1>4, <1>5, <1>6 DEF LedgerPart

\* Without a dirty row what is not planned is clean, and nobody applies anything.
LEMMA LedgerRead ==
  ASSUME TypeOK, LedgerPart, NEW p \in Procs, ReadLedger(p)
  PROVE  LedgerPart'
<1>1. CASE Refused(ledger)
  BY <1>1, LedgerKept DEF ReadLedger, Fails, Go, Applying
<1>2. CASE ~Refused(ledger)
  <2>1. /\ ledger' = ledger
        /\ \A q \in Procs : /\ stage'[q] = IF q = p THEN "apply" ELSE stage[q]
                            /\ plan'[q] = IF q = p THEN Pending(ledger) ELSE plan[q]
    BY <1>2 DEF ReadLedger, Go, ToApply, TypeOK
  <2>2. \A v \in Versions \ Pending(ledger) : ledger[v] = "clean"
    BY <1>2 DEF Refused, Pending, TypeOK
  <2>3. \A q \in Procs : stage'[q] \in Applying => q # p /\ stage[q] \in Applying
    BY <2>1 DEF Applying
  <2>4. \A q \in Procs : q # p => Current(q)' = Current(q)
    BY <2>1, CurrentSame
  <2>5. OneMigratesInOrder'
    BY <2>1, <2>3, <2>4 DEF LedgerPart, OneMigratesInOrder
  <2>6. LedgerInv'
    BY <2>1 DEF LedgerPart, LedgerInv
  <2>7. PlanInv'
    BY <2>1, <2>2 DEF LedgerPart, PlanInv, Applying
  <2> QED
    BY <2>5, <2>6, <2>7 DEF LedgerPart
<1> QED
  BY <1>1, <1>2

\* The first planned version is recorded when it was not: those before it are through,
\* so those after it are not recorded either.
LEMMA LedgerRecorded ==
  ASSUME TypeOK, LedgerPart, NEW p \in Procs, Record(p)
  PROVE  LedgerPart'
<1> DEFINE v == Current(p)
<1>0. v \in Versions /\ v \in plan[p] /\ \A w \in plan[p] : v <= w
  BY CurrentVersion, CurrentLeast DEF Record
<1>1. CASE ledger[v] # "none"
  BY <1>1, LedgerKept DEF Record, Fails, Go, Applying
<1>2. CASE ledger[v] = "none"
  <2> HIDE DEF v
  <2>1. /\ \A w \in Versions : ledger'[w] = IF w = v THEN "dirty" ELSE ledger[w]
        /\ \A q \in Procs : stage'[q] = IF q = p THEN "up" ELSE stage[q]
        /\ plan' = plan
    BY <1>2 DEF Record, Go, TypeOK, v
  <2>2. \A q \in Procs : Current(q)' = Current(q)
    BY <2>1, CurrentSame
  <2>3. \A w \in Versions : w < v => ledger[w] = "clean"
    <3> SUFFICES ASSUME NEW w \in Versions, w < v PROVE w \notin plan[p]
      BY DEF LedgerPart, PlanInv, Record
    <3> QED
      BY <1>0 DEF Versions
  <2>4. \A w \in Versions : v < w => ledger[w] = "none"
    BY <1>0, <1>2 DEF LedgerPart, LedgerInv
  <2>5. \A q \in Procs : stage[q] \notin Applying
    <3> SUFFICES ASSUME NEW q \in Procs, stage[q] \in Applying PROVE FALSE
      OBVIOUS
    <3>1. Current(q) \in Versions /\ ledger[Current(q)] = "dirty"
      BY CurrentVersion DEF LedgerPart, PlanInv, OneMigratesInOrder, Versions
    <3>2. ledger[v] = "clean" \/ Current(q) <= v
      BY <1>0, <3>1 DEF LedgerPart, OneMigratesInOrder, Versions
    <3>3. Current(q) < v
      BY <1>0, <1>2, <3>1, <3>2 DEF Versions
    <3> QED
      BY <2>3, <3>1, <3>3
  <2>6. \A q \in Procs : stage'[q] \in Applying => q = p
    BY <2>1, <2>5
  <2>7. OneMigratesInOrder'
    <3>1. \A w \in Versions : ledger'[w] = IF w < v THEN "clean"
                                           ELSE IF w = v THEN "dirty" ELSE "none"
      BY <1>0, <2>1, <2>3, <2>4 DEF Versions
    <3>2. Current(p)' = v
      BY <2>2 DEF v
    <3> QED
      BY <2>6, <3>1, <3>2 DEF OneMigratesInOrder
  <2>8. LedgerInv'
    BY <1>0, <2>1, <2>3, <2>4 DEF LedgerPart, LedgerInv, Versions
  <2>9. PlanInv'
    <3> SUFFICES ASSUME NEW q \in Procs
                 PROVE  /\ stage'[q] \in Applying \cup {"apply", "ready"} =>
                             \A w \in Versions \ plan[q] : ledger'[w] = "clean"
                        /\ stage'[q] \in Applying => plan[q] # {}
                        /\ stage'[q] = "ready" => plan[q] = {}
      BY <2>1 DEF PlanInv
    <3>1. stage'[q] \in Applying \cup {"apply", "ready"} => stage[q] \in {"apply", "ready"}
      BY <2>1, <2>5, <2>6 DEF Record
    <3>2. ASSUME stage[q] \in {"apply", "ready"}, NEW w \in Versions \ plan[q]
          PROVE  ledger'[w] = "clean"
      BY <1>2, <2>1, <3>2 DEF LedgerPart, PlanInv
    <3>3. stage'[q] \in Applying => plan[q] # {}
      BY <2>6 DEF Record
    <3>4. stage'[q] = "ready" => plan[q] = {}
      BY <2>1 DEF LedgerPart, PlanInv
    <3> QED
      BY <3>1, <3>2, <3>3, <3>4
  <2> QED
    BY <2>7, <2>8, <2>9 DEF LedgerPart
<1> QED
  BY <1>1, <1>2

\* The row of the one that applies is cleared, with all before it.
LEMMA LedgerCleared ==
  ASSUME TypeOK, LedgerPart, NEW p \in Procs, Finish(p)
  PROVE  LedgerPart'
<1> DEFINE v == Current(p)
<1>0. stage[p] \in Applying /\ plan[p] # {}
  BY DEF Finish, Applying, LedgerPart, PlanInv
<1>1. v \in Versions /\ v \in plan[p] /\ \A w \in plan[p] : v <= w
  BY <1>0, CurrentVersion, CurrentLeast
<1>2. \A w \in Versions : ledger[w] = IF w < v THEN "clean" ELSE IF w = v THEN "dirty" ELSE "none"
  BY <1>0 DEF LedgerPart, OneMigratesInOrder
<1> HIDE DEF v
<1>3. /\ \A w \in Versions : ledger'[w] = IF w = v THEN "clean" ELSE ledger[w]
      /\ \A q \in Procs : /\ stage'[q] = IF q = p THEN "apply" ELSE stage[q]
                          /\ plan'[q] = IF q = p THEN plan[q] \ {v} ELSE plan[q]
  BY DEF Finish, Go, TypeOK, v
<1>4. \A q \in Procs : stage'[q] \notin Applying
  BY <1>0, <1>3 DEF LedgerPart, OneMigratesInOrder, Applying
<1>5. OneMigratesInOrder'
  BY <1>4 DEF OneMigratesInOrder
<1>6. LedgerInv'
  BY <1>1, <1>2, <1>3 DEF LedgerInv, Versions
<1>7. PlanInv'
  BY <1>0, <1>3, <1>4 DEF LedgerPart, PlanInv
<1> QED
  BY <1>5, <1>6, <1>7 DEF LedgerPart

\* A row is only deleted while nobody applies its version.
LEMMA LedgerRowDeleted ==
  ASSUME TypeOK, LedgerPart, NEW v \in Versions, DeleteRow(v)
  PROVE  LedgerPart'
<1>1. \A w \in Versions : ledger'[w] = IF w = v THEN "none" ELSE ledger[w]
  BY DEF DeleteRow, TypeOK
<1>2. OneMigratesInOrder'
  BY DEF DeleteRow, OneMigratesInOrder
<1>3. LedgerInv'
  BY <1>1 DEF DeleteRow, LedgerPart, LedgerInv
<1>4. PlanInv'
  BY <1>1 DEF DeleteRow, LedgerPart, PlanInv
<1> QED
  BY <1>2, <1>3, <1>4 DEF LedgerPart

LEMMA LedgerNext ==
  ASSUME TypeOK, LedgerPart, [Next]_vars
  PROVE  LedgerPart'
<1>1. ASSUME NEW p \in Procs, StartUp(p) PROVE LedgerPart'
  <2>1. CASE Start(p)
    BY <2>1, LedgerKept DEF Start, Go, Applying
  <2>2. CASE Baseline(p)
    BY <2>2, LedgerKept DEF Baseline, Go, Applying
  <2>3. CASE CustomerAccount(p)
    BY <2>3, LedgerKept DEF CustomerAccount, Go, Applying
  <2>4. CASE AccountLocation(p)
    BY <2>4, LedgerKept DEF AccountLocation, Go, Applying
  <2>5. CASE AddCountry(p) \/ AddCurrency(p)
    BY <2>5, LedgerKept DEF AddCountry, AddCurrency, Adds, Go, Applying
  <2>6. CASE \E a \in Accounts : Backfill(p, a)
    BY <2>6 DEF Backfill, LedgerPart, OneMigratesInOrder, LedgerInv, PlanInv, Current
  <2>7. CASE DropCountries(p)
    BY <2>7, LedgerKept DEF DropCountries, Go, Applying
  <2>8. CASE AddAppCurrency(p)
    BY <2>8, LedgerKept DEF AddAppCurrency, Go, Applying
  <2>9. CASE Converge(p)
    BY <2>9, LedgerKept DEF Converge, Go, Applying
  <2> QED
    BY <1>1, <2>1, <2>2, <2>3, <2>4, <2>5, <2>6, <2>7, <2>8, <2>9,
       LedgerRead, LedgerRecorded, LedgerCleared DEF StartUp, Up
<1>2. ASSUME NEW p \in Procs, Crash(p) PROVE LedgerPart'
  BY <1>2, LedgerKept DEF Crash, Fails, Go, Applying
<1>3. ASSUME NEW a \in Accounts, NameCountry(a) PROVE LedgerPart'
  BY <1>3 DEF NameCountry, LedgerPart, OneMigratesInOrder, LedgerInv, PlanInv, Current
<1>4. CASE UNCHANGED vars
  BY <1>4 DEF vars, LedgerPart, OneMigratesInOrder, LedgerInv, PlanInv, Current
<1> QED
  BY <1>1, <1>2, <1>3, <1>4, LedgerRowDeleted DEF Next, Operator

-------------------------------------------------------------------------------
(* The schema: what is where after each step.                              *)

SchemaPart == DataInv /\ VersionInv /\ StageInv

\* What one process's stage and plan promise of the columns.
Promise(p) ==
  /\ stage[p] \in Placing \cup {"app"} => Current(p) = 3
  /\ stage[p] \in Placing /\ "countries" \in columns => Accounts \subseteq queue[p] \cup placed
  /\ stage[p] = "app" => "countries" \notin columns
  /\ stage[p] = "done" /\ Current(p) = 2 => "customer_phone" \notin columns
  /\ stage[p] = "done" /\ Current(p) = 3 => "countries" \notin columns
  /\ stage[p] = "ready" => phones = "customer_account" /\ columns = NewColumns

LEMMA Promised == StageInv <=> \A p \in Procs : Promise(p)
  BY Zenon DEF StageInv, Promise

\* Whoever applies a migration need only keep its own promise.
LEMMA OnlyItsOwn ==
  ASSUME MInv, NEW p \in Procs, stage[p] \in Applying, Promise(p)',
         \A q \in Procs : q # p => stage'[q] = stage[q]
  PROVE  StageInv'
<1> SUFFICES ASSUME NEW q \in Procs, q # p PROVE Promise(q)'
  BY Zenon DEF StageInv, Promise
<1>1. stage'[q] \notin Applying \cup {"ready"}
  BY NobodyElse
<1> QED
  BY <1>1 DEF Promise, Applying, Placing

\* A step that leaves the columns alone and changes no plan under way.
LEMMA SchemaKept ==
  ASSUME MInv, UNCHANGED schema,
         \A v \in Versions : ledger'[v] = "clean" => ledger[v] = "clean",
         NEW p \in Procs, \A q \in Procs : q # p =>
           stage'[q] = stage[q] /\ plan'[q] = plan[q] /\ queue'[q] = queue[q],
         stage'[p] \notin (Applying \ {"up"}) \cup {"ready"}
  PROVE  SchemaPart'
<1>1. DataInv'
  BY DEF MInv, DataInv, schema
<1>2. VersionInv'
  BY DEF MInv, VersionInv, schema, Versions
<1>3. ASSUME NEW q \in Procs PROVE Promise(q)'
  <2>1. CASE q = p
    BY <2>1 DEF Promise, Applying, Placing
  <2>2. CASE q # p
    <3>1. Promise(q)
      BY Promised DEF MInv
    <3>2. Current(q)' = Current(q)
      BY <2>2, CurrentSame
    <3> QED
      BY <2>2, <3>1, <3>2 DEF Promise, schema
  <2> QED
    BY <2>1, <2>2
<1>4. StageInv'
  BY <1>3, Zenon DEF StageInv, Promise
<1> QED
  BY <1>1, <1>2, <1>4 DEF SchemaPart

LEMMA SchemaFinish ==
  ASSUME MInv, NEW p \in Procs, Finish(p)
  PROVE  SchemaPart'
<1>0. stage[p] \in Applying /\ Current(p) \in Versions
  BY CurrentVersion DEF Finish, Applying, MInv, PlanInv
<1>1. \A v \in Versions : ledger'[v] = IF v = Current(p) THEN "clean" ELSE ledger[v]
  BY DEF Finish, MInv, TypeOK
<1>2. stage'[p] = "apply" /\ \A q \in Procs : q # p => stage'[q] = stage[q]
  BY DEF Finish, Go, MInv, TypeOK
<1>3. DataInv'
  BY DEF Finish, MInv, DataInv, schema
<1>4. VersionInv'
  BY <1>0, <1>1 DEF Finish, MInv, VersionInv, StageInv, schema, Versions
<1>5. Promise(p)'
  BY <1>2 DEF Promise, Placing
<1>6. StageInv'
  BY <1>0, <1>2, <1>5, OnlyItsOwn
<1> QED
  BY <1>3, <1>4, <1>6 DEF SchemaPart

\* The rename: after it there is no old column, nor two new ones.
LEMMA SchemaRenamed ==
  ASSUME MInv, NEW p \in Procs, Baseline(p) \/ CustomerAccount(p)
  PROVE  SchemaPart'
<1>0. stage[p] \in Applying
  BY DEF Baseline, CustomerAccount, Applying
<1>1. stage'[p] = "done" /\ \A q \in Procs : q # p => stage'[q] = stage[q]
  BY DEF Baseline, CustomerAccount, Go, MInv, TypeOK
<1>2. Current(p)' = Current(p)
  BY CurrentSame DEF Baseline, CustomerAccount
<1>3. ledger' = ledger /\ listed' = listed /\ placed' = placed
  BY DEF Baseline, CustomerAccount, schema
<1>4. Current(p) \in {1, 2}
  BY DEF Baseline, CustomerAccount
<1>5. CASE UNCHANGED <<columns, phones>>
  <2>1. Current(p) = 2 => "customer_phone" \notin columns
    BY <1>5 DEF Baseline, CustomerAccount, Has, MInv, DataInv
  <2>2. Promise(p)'
    BY <1>1, <1>2, <1>4, <1>5, <2>1 DEF Promise, Placing
  <2>3. DataInv' /\ VersionInv'
    BY <1>3, <1>5 DEF MInv, DataInv, VersionInv
  <2> QED
    BY <1>0, <1>1, <2>2, <2>3, OnlyItsOwn DEF SchemaPart
<1>6. CASE ~UNCHANGED <<columns, phones>>
  <2>1. /\ columns' = (columns \ {"customer_phone"}) \cup {"customer_account"}
        /\ phones' = "customer_account"
    BY <1>6 DEF Baseline, CustomerAccount, schema
  <2>2. Promise(p)'
    BY <1>1, <1>2, <1>4, <2>1 DEF Promise, Placing
  <2>3. DataInv' /\ VersionInv'
    BY <1>3, <2>1 DEF MInv, DataInv, VersionInv
  <2> QED
    BY <1>0, <1>1, <2>2, <2>3, OnlyItsOwn DEF SchemaPart
<1> QED
  BY <1>5, <1>6

\* The accounts whose countries there are to move are read before the first statement.
LEMMA SchemaLocated ==
  ASSUME MInv, NEW p \in Procs, AccountLocation(p)
  PROVE  SchemaPart'
<1>0. stage[p] \in Applying /\ Current(p) = 3
  BY DEF AccountLocation, Applying
<1>1. \A q \in Procs : q # p => stage'[q] = stage[q]
  BY DEF AccountLocation, Go, MInv, TypeOK
<1>2. Current(p)' = 3
  BY <1>0, CurrentSame DEF AccountLocation
<1>3. DataInv' /\ VersionInv'
  BY DEF AccountLocation, MInv, DataInv, VersionInv, schema
<1>4. Promise(p)'
  <2>1. CASE ~Has({"countries", "country"})
    <3> stage'[p] = "app" /\ "countries" \notin columns
      BY <2>1 DEF AccountLocation, Go, Has, MInv, TypeOK
    <3> QED
      BY <1>2 DEF Promise, Placing, AccountLocation, schema
  <2>2. CASE stage'[p] = "off"
    BY <2>2 DEF Promise, Placing
  <2>3. CASE Has({"countries", "country"}) /\ stage'[p] # "off"
    <3>1. stage'[p] = "country"
      BY <2>3 DEF AccountLocation, Go, MInv, TypeOK
    <3>2. "countries" \in columns => queue'[p] = Accounts
      BY <2>3 DEF AccountLocation, Go, Has, MInv, TypeOK
    <3> QED
      BY <1>2, <3>1, <3>2 DEF Promise, Placing, AccountLocation, schema
  <2> QED
    BY <2>1, <2>2, <2>3
<1> QED
  BY <1>0, <1>1, <1>3, <1>4, OnlyItsOwn DEF SchemaPart

\* One column more of the third migration.
LEMMA SchemaAdds ==
  ASSUME MInv, NEW p \in Procs, AddCountry(p) \/ AddCurrency(p) \/ AddAppCurrency(p)
  PROVE  SchemaPart'
<1>0. stage[p] \in Applying
  BY DEF AddCountry, AddCurrency, AddAppCurrency, Adds, Applying
<1>1. /\ stage'[p] \in {"currency", "backfill", "done"}
      /\ stage[p] \in Placing => stage'[p] \in Placing
      /\ stage[p] = "app" => stage'[p] = "done"
      /\ \A q \in Procs : q # p => stage'[q] = stage[q]
  BY DEF AddCountry, AddCurrency, AddAppCurrency, Adds, Go, MInv, TypeOK, Placing
<1>2. Current(p)' = 3
  <2> Current(p)' = Current(p)
    BY CurrentSame DEF AddCountry, AddCurrency, AddAppCurrency, Adds
  <2> QED
    BY DEF AddCountry, AddCurrency, AddAppCurrency, Adds, MInv, StageInv, Placing
<1>3. \A name \in OldColumns \cup {"customer_account"} : name \in columns' <=> name \in columns
  BY DEF AddCountry, AddCurrency, AddAppCurrency, Adds, OldColumns
<1>4. UNCHANGED <<ledger, phones, listed, placed, queue>>
  BY DEF AddCountry, AddCurrency, AddAppCurrency, Adds
<1>5. DataInv' /\ VersionInv'
  BY <1>3, <1>4 DEF MInv, DataInv, VersionInv, OldColumns
<1>6. Promise(p)'
  <2> Promise(p)
    BY Promised DEF MInv
  <2> QED
    BY <1>1, <1>2, <1>3, <1>4, <1>0 DEF Promise, Placing, Applying, OldColumns,
       AddCountry, AddCurrency, AddAppCurrency, Adds
<1> QED
  BY <1>0, <1>1, <1>5, <1>6, OnlyItsOwn DEF SchemaPart

LEMMA SchemaBackfill ==
  ASSUME MInv, NEW p \in Procs, NEW a \in Accounts, Backfill(p, a)
  PROVE  SchemaPart'
<1>0. stage[p] \in Applying
  BY DEF Backfill, Applying
<1>1. Current(p)' = Current(p)
  BY CurrentSame DEF Backfill
<1>2. queue'[p] = queue[p] \ {a} /\ placed' = placed \cup {a} /\ placed' \subseteq Accounts
  BY DEF Backfill, MInv, TypeOK
<1>3. DataInv' /\ VersionInv'
  BY <1>2 DEF Backfill, MInv, DataInv, VersionInv, TypeOK
<1>4. Promise(p)'
  <2> Promise(p)
    BY Promised DEF MInv
  <2> QED
    BY <1>1, <1>2 DEF Promise, Backfill, Placing
<1> QED
  BY <1>0, <1>3, <1>4, OnlyItsOwn DEF SchemaPart, Backfill

\* The countries are dropped when every account's has been written.
LEMMA SchemaDropped ==
  ASSUME MInv, NEW p \in Procs, DropCountries(p)
  PROVE  SchemaPart'
<1>0. stage[p] \in Applying
  BY DEF DropCountries, Applying
<1>1. stage'[p] = "app" /\ \A q \in Procs : q # p => stage'[q] = stage[q]
  BY DEF DropCountries, Go, MInv, TypeOK
<1>2. Current(p)' = 3
  BY CurrentSame DEF DropCountries, MInv, StageInv, Placing
<1>3. "countries" \in columns => placed = Accounts
  BY DEF DropCountries, BackfillDone, MInv, StageInv, Placing, TypeOK
<1>4. DataInv' /\ VersionInv'
  BY <1>3 DEF DropCountries, MInv, DataInv, VersionInv
<1>5. Promise(p)'
  BY <1>1, <1>2 DEF DropCountries, Promise, Placing
<1> QED
  BY <1>0, <1>1, <1>4, <1>5, OnlyItsOwn DEF SchemaPart

\* Convergence comes when every version is through, which leaves no old column to keep.
LEMMA SchemaConverged ==
  ASSUME MInv, NEW p \in Procs, Converge(p)
  PROVE  SchemaPart'
<1>1. \A v \in Versions : ledger[v] = "clean"
  BY DEF Converge, Applied, MInv, PlanInv
<1>2. columns \cap OldColumns = {}
  BY <1>1 DEF MInv, VersionInv, OldColumns, Versions
<1>3. columns' = NewColumns
  BY <1>2 DEF Converge, MInv, TypeOK
<1>4. phones' = "customer_account"
  BY <1>2 DEF Converge, MInv, TypeOK, DataInv, OldColumns
<1>5. "customer_phone" \notin NewColumns /\ "countries" \notin NewColumns
  BY DEF NewColumns
<1>6. DataInv'
  BY <1>2, <1>3, <1>4, <1>5 DEF Converge, MInv, DataInv, OldColumns
<1>7. VersionInv'
  BY <1>3, <1>5 DEF VersionInv
<1>8. \A q \in Procs : stage'[q] \notin Applying
  <2> SUFFICES ASSUME NEW q \in Procs, stage[q] \in Applying PROVE FALSE
    BY DEF Converge, Go, MInv, TypeOK, Applying
  <2>1. Current(q) \in Versions
    BY CurrentVersion DEF MInv, PlanInv
  <2> QED
    BY <1>1, <2>1 DEF MInv, OneMigratesInOrder, Versions
<1>9. StageInv'
  BY <1>3, <1>4, <1>8 DEF StageInv, Placing, Applying
<1> QED
  BY <1>6, <1>7, <1>9 DEF SchemaPart

LEMMA SchemaNext ==
  ASSUME MInv, [Next]_vars
  PROVE  SchemaPart'
<1>1. ASSUME NEW p \in Procs, StartUp(p) PROVE SchemaPart'
  <2>1. CASE Start(p)
    BY <2>1, SchemaKept DEF Start, Go, MInv, TypeOK, Applying
  <2>2. CASE ReadLedger(p)
    <3>1. stage'[p] \in {"off", "apply"}
      BY <2>2 DEF ReadLedger, Fails, Go, MInv, TypeOK
    <3>2. \A q \in Procs : q # p =>
            stage'[q] = stage[q] /\ plan'[q] = plan[q] /\ queue'[q] = queue[q]
      BY <2>2 DEF ReadLedger, Fails, Go, MInv, TypeOK
    <3> QED
      BY <2>2, <3>1, <3>2, SchemaKept DEF ReadLedger, Fails, Applying
  <2>3. CASE Record(p)
    <3>1. stage'[p] \in {"off", "up"} /\ \A q \in Procs : q # p => stage'[q] = stage[q]
      BY <2>3 DEF Record, Fails, Go, MInv, TypeOK
    <3>2. \A v \in Versions : ledger'[v] = "clean" => ledger[v] = "clean"
      BY <2>3 DEF Record, Fails, MInv, TypeOK
    <3> QED
      BY <2>3, <3>1, <3>2, SchemaKept DEF Record, Fails, Applying
  <2>4. CASE \E a \in Accounts : Backfill(p, a)
    BY <2>4, SchemaBackfill
  <2> QED
    BY <1>1, <2>1, <2>2, <2>3, <2>4, SchemaRenamed, SchemaLocated, SchemaAdds, SchemaDropped,
       SchemaFinish, SchemaConverged DEF StartUp, Up
<1>2. ASSUME NEW p \in Procs, Crash(p) PROVE SchemaPart'
  BY <1>2, SchemaKept DEF Crash, Fails, Go, MInv, TypeOK, Applying
<1>3. ASSUME NEW v \in Versions, DeleteRow(v) PROVE SchemaPart'
  <2>1. \A w \in Versions : ledger'[w] = "clean" => ledger[w] = "clean"
    BY <1>3 DEF DeleteRow, MInv, TypeOK
  <2> QED
    BY <1>3, <2>1 DEF DeleteRow, MInv, SchemaPart, DataInv, VersionInv, StageInv, Current,
                      schema, Versions
<1>4. ASSUME NEW a \in Accounts, NameCountry(a) PROVE SchemaPart'
  BY <1>4 DEF NameCountry, Has, MInv, SchemaPart, DataInv, VersionInv, StageInv, Current
<1>5. CASE UNCHANGED vars
  BY <1>5 DEF vars, schema, MInv, SchemaPart, DataInv, VersionInv, StageInv, Current
<1> QED
  BY <1>1, <1>2, <1>3, <1>4, <1>5 DEF Next, Operator

LEMMA MigrationsInit == Init => MInv
<1> SUFFICES ASSUME Init PROVE MInv
  OBVIOUS
<1>1. TypeOK
  BY MigrationsTypeInit
<1>2. OneMigratesInOrder /\ PlanInv
  BY DEF Init, OneMigratesInOrder, PlanInv, Applying
<1>3. LedgerInv /\ VersionInv
  BY DEF Init, LedgerInv, VersionInv, Versions
<1>4. StageInv
  BY DEF Init, StageInv, Placing
<1>5. DataInv
  <2>1. CASE columns = {}
    BY <2>1 DEF Init, DataInv
  <2>2. CASE columns = OldColumns
    BY <2>2 DEF Init, DataInv, OldColumns
  <2>3. CASE columns = {"customer_account", "countries"}
    BY <2>3 DEF Init, DataInv
  <2> QED
    BY <2>1, <2>2, <2>3 DEF Init
<1> QED
  BY <1>1, <1>2, <1>3, <1>4, <1>5 DEF MInv

LEMMA MigrationsNext == MInv /\ [Next]_vars => MInv'
  BY MigrationsTypeNext, LedgerNext, SchemaNext DEF MInv, LedgerPart, SchemaPart

\* What is left behind when a process has converged: nothing.
LEMMA NothingLeft == MInv => NothingLeftBehind
<1> SUFFICES ASSUME MInv PROVE NothingLeftBehind
  OBVIOUS
<1>1. \A p \in Procs : stage[p] = "ready" => phones = "customer_account" /\ columns = NewColumns
  BY DEF MInv, StageInv
<1>2. "countries" \notin columns /\ listed # {} => placed = Accounts
  BY DEF MInv, DataInv
<1> QED
  BY <1>1, <1>2 DEF NothingLeftBehind

-------------------------------------------------------------------------------
(* The life of the process that is followed.                               *)

\* Its steps leave the database alone, and its end is one of the crashes.
LEMMA LifeMigrates == [LifeNext]_allVars => [Next]_vars
  BY LifecycleAssumption DEF LifeNext, Live, Ends, Others, Next, allVars

LEMMA LifeInitInv == LifeInit => LInv
<1> SUFFICES ASSUME LifeInit PROVE LInv
  OBVIOUS
<1>1. MInv
  BY MigrationsInit DEF LifeInit
<1>2. LifeTypeOK
  <2>1. TypeOK
    BY <1>1 DEF MInv
  <2>2. {cancelled, waits, request} \subseteq BOOLEAN
    BY Zenon DEF LifeInit, Unborn
  <2> QED
    BY <2>1, <2>2 DEF LifeInit, Unborn, LifeTypeOK
<1>3. ServeInv /\ CloseInv
  BY DEF LifeInit, Unborn, ServeInv, CloseInv
<1> QED
  BY <1>1, <1>2, <1>3 DEF LInv

\* The instance's own steps.
Steps ==
  Serve \/ Load \/ StartAll \/ SeesDone \/ SeesListener \/ Shutdown \/ Drained
  \/ ServeEnds \/ Iterate \/ Tick \/ TaskEnds \/ ListenerUp \/ ListenerEnds \/ Request
  \/ Cancel \/ Close \/ CloseDatabase

LEMMA LifeBooleans ==
  ASSUME LifeTypeOK, Steps
  PROVE  {cancelled, waits, request}' \subseteq BOOLEAN
<1> SUFFICES cancelled' \in BOOLEAN /\ waits' \in BOOLEAN /\ request' \in BOOLEAN
  OBVIOUS
<1>1. cancelled \in BOOLEAN /\ waits \in BOOLEAN /\ request \in BOOLEAN
  BY Zenon DEF LifeTypeOK
<1>2. CASE Serve \/ Load \/ StartAll \/ SeesDone \/ SeesListener
  BY <1>1, <1>2, Zenon DEF Serve, Load, StartAll, SeesDone, SeesListener, Leaves
<1>3. CASE Shutdown
  BY <1>1, <1>3, Zenon DEF Shutdown, Leaves
<1>4. CASE Drained \/ ServeEnds
  BY <1>1, <1>4, Zenon DEF Drained, ServeEnds, Leaves
<1>5. CASE Iterate \/ Tick \/ TaskEnds \/ ListenerUp \/ ListenerEnds \/ Request
  BY <1>1, <1>5, Zenon DEF Iterate, Tick, TaskEnds, ListenerUp, ListenerEnds, Request
<1>6. CASE Cancel \/ CloseDatabase
  BY <1>1, <1>6, Zenon DEF Cancel, CloseDatabase
<1>7. CASE Close
  BY <1>1, <1>7, Zenon DEF Close
<1> QED
  BY <1>2, <1>3, <1>4, <1>5, <1>6, <1>7 DEF Steps

LEMMA LifeSteps ==
  ASSUME LInv, Steps, UNCHANGED vars
  PROVE  LifeTypeOK' /\ ServeInv' /\ CloseInv'
<1>1. TypeOK'
  BY MigrationsTypeNext DEF LInv, MInv
<1>2. {cancelled, waits, request}' \subseteq BOOLEAN
  BY LifeBooleans DEF LInv
<1> USE DEF LInv, LifeTypeOK, ServeInv, CloseInv
<1>3. CASE Serve
  BY <1>1, <1>2, <1>3 DEF Serve
<1>4. CASE Load
  BY <1>1, <1>2, <1>4 DEF Load, Leaves
<1>5. CASE StartAll
  BY <1>1, <1>2, <1>5 DEF StartAll
<1>6. CASE SeesDone
  BY <1>1, <1>2, <1>6 DEF SeesDone
<1>7. CASE SeesListener
  BY <1>1, <1>2, <1>7 DEF SeesListener, Leaves, LeftBehind
<1>8. CASE Shutdown
  BY <1>1, <1>2, <1>8 DEF Shutdown, Leaves, LeftBehind
<1>9. CASE Drained
  BY <1>1, <1>2, <1>9 DEF Drained, Leaves
<1>10. CASE ServeEnds
  BY <1>1, <1>2, <1>10 DEF ServeEnds, WorkersEnd
<1>11. CASE Iterate
  BY <1>1, <1>2, <1>11 DEF Iterate
<1>12. CASE Tick
  BY <1>1, <1>2, <1>12 DEF Tick
<1>13. CASE TaskEnds
  BY <1>1, <1>2, <1>13 DEF TaskEnds
<1>14. CASE ListenerUp
  BY <1>1, <1>2, <1>14 DEF ListenerUp
<1>15. CASE Request
  BY <1>1, <1>2, <1>15 DEF Request
<1>16. CASE Cancel
  BY <1>1, <1>2, <1>16 DEF Cancel
<1>17. CASE Close
  BY <1>1, <1>2, <1>17 DEF Close
<1>18. CASE CloseDatabase
  BY <1>1, <1>2, <1>18 DEF CloseDatabase
<1>19. CASE ListenerEnds
  BY <1>1, <1>2, <1>19 DEF ListenerEnds
<1> QED
  BY <1>3, <1>4, <1>5, <1>6, <1>7, <1>8, <1>9, <1>10, <1>11, <1>12, <1>13, <1>14, <1>15,
     <1>16, <1>17, <1>18, <1>19 DEF Steps

LEMMA LifeNextInv == LInv /\ [LifeNext]_allVars => LInv'
<1> SUFFICES ASSUME LInv, [LifeNext]_allVars PROVE LInv'
  OBVIOUS
<1>1. MInv'
  BY MigrationsNext, LifeMigrates DEF LInv
<1>2. CASE Live
  BY <1>1, <1>2, LifeSteps DEF Live, Steps, LInv
<1>3. CASE Ends
  <2>1. {cancelled, waits, request}' \subseteq BOOLEAN
    BY <1>3, Zenon DEF Ends
  <2>2. LifeTypeOK'
    BY <1>1, <1>3, <2>1 DEF Ends, MInv, LifeTypeOK
  <2> QED
    BY <1>1, <1>3, <2>2 DEF Ends, LInv, ServeInv, CloseInv
<1>4. CASE UNCHANGED life
  <2>1. LifeTypeOK'
    BY <1>1, <1>4, Zenon DEF life, LInv, MInv, LifeTypeOK
  <2> QED
    BY <1>1, <1>4, <2>1 DEF life, LInv, ServeInv, CloseInv
<1> QED
  BY <1>2, <1>3, <1>4 DEF LifeNext, Others, allVars

LEMMA LifeInvariance == LifeSpec => []LInv
  BY LifeInitInv, LifeNextInv, PTL DEF LifeSpec

-------------------------------------------------------------------------------

\* Every variable of the migrations and of the instance keeps its type: in particular
\* nothing but a version that exists is ever planned, recorded or applied.
THEOREM LifeTypeCorrect == LifeSpec => []LifeTypeOK
<1>1. LInv => LifeTypeOK
  BY DEF LInv
<1> QED
  BY <1>1, LifeInvariance, PTL

\* However many processes start on a database, and wherever they end, one at a time
\* changes its schema, when all the versions before its own are through.
THEOREM OneAppliesAtATime == LifeSpec => []OneMigratesInOrder
<1>1. LInv => OneMigratesInOrder
  BY DEF LInv, MInv
<1> QED
  BY <1>1, LifeInvariance, PTL

\* However often the migrations were interrupted and begun again, a process that is
\* ready has all data where the models read it, and no account lost its country.
THEOREM NoDataLeftBehind == LifeSpec => []NothingLeftBehind
<1>1. LInv => NothingLeftBehind
  BY NothingLeft DEF LInv
<1> QED
  BY <1>1, LifeInvariance, PTL

\* In whatever order Serve, its cancellation, the listener's end and Close come, Close
\* takes the database away from no task, and from a handler in three cases only: it
\* overran the ten seconds, or its listener came up after Shutdown, or ended by itself.
THEOREM CloseOutlivesWork == LifeSpec => []DatabaseOutlivesWork
<1>1. LInv => DatabaseOutlivesWork
  BY DEF LInv, LifeTypeOK, ServeInv, CloseInv, DatabaseOutlivesWork
<1> QED
  BY <1>1, LifeInvariance, PTL

\* The instance and its processes do to the database what Migrations allows, and nothing
\* else: neither serving, nor a cancellation, nor Close changes the schema or the ledger.
THEOREM LifeFollowsMigrations == LifeSpec => Spec
<1>1. LifeInit => Init
  BY DEF LifeInit
<1> QED
  BY <1>1, LifeMigrates, PTL DEF LifeSpec, Spec
===============================================================================
