------------------------------- MODULE Migrations -------------------------------
(***************************************************************************)
(* The schema of the database at start-up: the versioned migrations, their *)
(* ledger (migrations/runner.go) and the convergence that follows them     *)
(* (bootstrap/migrate.go).                                                 *)
(*                                                                         *)
(* Several processes start on one database, nothing is in a transaction,   *)
(* and a process may end between any two statements.  The ledger is all    *)
(* that keeps them apart: the row of a migration is created dirty before   *)
(* the migration runs and cleared after it.  Processes of an earlier       *)
(* release that still write the old columns are not here.                  *)
(***************************************************************************)
EXTENDS Integers, FiniteSets

CONSTANTS
  Procs,      \* processes that start on the database
  Accounts,   \* rows of provider_accounts that an earlier release left
  MaxStarts   \* bound: how often a process is started

ASSUME MigrationsAssumption == MaxStarts \in Nat

\* All: baseline, customer_account, account_location.
Versions == 1 .. 3

\* The columns the migrations are about.  A database without a table has none.
OldColumns == {"customer_phone", "countries"}
NewColumns == {"customer_account", "country", "currency", "app_currency"}

VARIABLES
  ledger,   \* schema_migrations: versions that are recorded, and how
  columns,  \* columns there are
  phones,   \* the column that holds the customers' accounts
  listed,   \* accounts whose countries name one
  placed,   \* accounts whose country is the first of these
  stage,    \* where each process is
  plan,     \* versions a process has still to apply, by the ledger it read
  queue,    \* accounts whose country a process has still to write
  starts

schema == <<columns, phones, listed, placed>>
vars   == <<ledger, schema, stage, plan, queue, starts>>

Stages == {"off", "ledger", "apply", "up", "country", "currency", "backfill",
           "app", "done", "ready"}

\* Inside Up, or before its row is cleared.
Applying == {"up", "country", "currency", "backfill", "app", "done"}

Go(p, s)   == stage' = [stage EXCEPT ![p] = s]
Fails(p)   == Go(p, "off") /\ UNCHANGED <<ledger, schema, plan, queue, starts>>
Has(names) == names \cap columns # {}

-------------------------------------------------------------------------------
(* NewApp, up to the migrations.                                           *)

Start(p) ==
  /\ stage[p] = "off" /\ starts < MaxStarts
  /\ Go(p, "ledger")
  /\ starts' = starts + 1
  /\ UNCHANGED <<ledger, schema, plan, queue>>

\* ledger: a dirty row stops everything.
PassesOver(rows) == FALSE  \* (bug) a dirty row counts as one applied
Refused(rows)    == \E v \in Versions : rows[v] = "dirty"

Pending(rows)  == {v \in Versions : rows[v] = "none"}
FromZero(rows) == {v - 1 : v \in Pending(rows)}   \* (bug)
ToApply(rows)  == Pending(rows)

\* ordered: of the versions left the least is the one that is applied.
Current(p) == CHOOSE v \in plan[p] : \A w \in plan[p] : v <= w

ReadLedger(p) ==
  /\ stage[p] = "ledger"
  /\ IF Refused(ledger) THEN Fails(p)
     ELSE /\ plan' = [plan EXCEPT ![p] = ToApply(ledger)]
          /\ Go(p, "apply")
          /\ UNCHANGED <<ledger, schema, queue, starts>>

\* apply: the row is created dirty.  Of two processes that come this far with the same
\* version the second has its row refused, and ends.
Record(p) ==
  /\ stage[p] = "apply" /\ plan[p] # {}
  /\ LET v == Current(p) IN
     IF ledger[v] = "none"
     THEN /\ ledger' = [ledger EXCEPT ![v] = "dirty"]
          /\ Go(p, "up")
          /\ UNCHANGED <<schema, plan, queue, starts>>
     ELSE Fails(p)

Finish(p) ==
  /\ stage[p] = "done"
  /\ ledger' = [ledger EXCEPT ![Current(p)] = "clean"]
  /\ plan' = [plan EXCEPT ![p] = @ \ {Current(p)}]
  /\ Go(p, "apply")
  /\ UNCHANGED <<schema, queue, starts>>

-------------------------------------------------------------------------------
(* The migrations.                                                         *)

Baseline(p) ==
  /\ stage[p] = "up" /\ Current(p) = 1
  /\ Go(p, "done")
  /\ UNCHANGED <<ledger, schema, plan, queue, starts>>

\* Renamed, unless the new column is there already or the old one never was.
CustomerAccount(p) ==
  /\ stage[p] = "up" /\ Current(p) = 2
  /\ IF Has({"customer_phone"}) /\ ~Has({"customer_account"})
     THEN /\ columns' = (columns \ {"customer_phone"}) \cup {"customer_account"}
          /\ phones' = "customer_account"
     ELSE UNCHANGED <<columns, phones>>
  /\ Go(p, "done")
  /\ UNCHANGED <<ledger, listed, placed, plan, queue, starts>>

\* What there is to write is read first, and an account without a country stops it all.
AccountLocation(p) ==
  /\ stage[p] = "up" /\ Current(p) = 3
  /\ IF ~Has({"countries", "country"})   \* no table
     THEN Go(p, "app") /\ UNCHANGED queue
     ELSE \/ /\ Has({"countries"}) /\ Accounts # listed
             /\ Go(p, "off") /\ UNCHANGED queue
          \/ /\ Has({"countries"}) => Accounts = listed
             /\ Go(p, "country")
             /\ queue' = [queue EXCEPT ![p] = IF Has({"countries"}) THEN Accounts ELSE {}]
  /\ UNCHANGED <<ledger, schema, plan, starts>>

\* One column more, unless it is there.
Adds(p, s, name, next) ==
  /\ stage[p] = s
  /\ columns' = columns \cup {name}
  /\ Go(p, next)
  /\ UNCHANGED <<ledger, phones, listed, placed, plan, queue, starts>>

AddCountry(p)  == Adds(p, "country", "country", "currency")
AddCurrency(p) == Adds(p, "currency", "currency", "backfill")

Backfill(p, a) ==
  /\ stage[p] = "backfill" /\ a \in queue[p]
  /\ placed' = placed \cup {a}
  /\ queue' = [queue EXCEPT ![p] = @ \ {a}]
  /\ UNCHANGED <<ledger, columns, phones, listed, stage, plan, starts>>

FirstOfThem(p) == queue[p] # Accounts   \* (bug) one account done is enough
BackfillDone(p) == queue[p] = {}

DropCountries(p) ==
  /\ stage[p] = "backfill" /\ BackfillDone(p)
  /\ columns' = columns \ {"countries"}
  /\ Go(p, "app")
  /\ UNCHANGED <<ledger, phones, listed, placed, plan, queue, starts>>

\* apps may have no table, and is then left to AutoMigrate.
AddAppCurrency(p) ==
  /\ stage[p] = "app"
  /\ columns' = IF columns = {} THEN {} ELSE columns \cup {"app_currency"}
  /\ Go(p, "done")
  /\ UNCHANGED <<ledger, phones, listed, placed, plan, queue, starts>>

-------------------------------------------------------------------------------
(* AutoMigrate: whatever the models need is created and nothing renamed or *)
(* dropped.  Migrate converges after the versioned migrations.             *)

Applied(p) == stage[p] = "apply" /\ plan[p] = {}

Converge(p) ==
  /\ Applied(p)
  /\ columns' = columns \cup NewColumns
  /\ phones' = IF phones = "none" THEN "customer_account" ELSE phones
  /\ Go(p, "ready")
  /\ UNCHANGED <<ledger, listed, placed, plan, queue, starts>>

-------------------------------------------------------------------------------
(* What goes wrong, and the operator.                                      *)

\* A process ends, or a statement of its start-up fails: NewApp closes what it opened.
Crash(p) == stage[p] # "off" /\ Fails(p)

\* "verify the schema by hand, then delete its row": of a version nobody is applying.
DeleteRow(v) ==
  /\ ledger[v] = "dirty"
  /\ \A p \in Procs : stage[p] \notin Applying
  /\ ledger' = [ledger EXCEPT ![v] = "none"]
  /\ UNCHANGED <<schema, stage, plan, queue, starts>>

\* "set its countries column to a one-item JSON array before retrying".
NameCountry(a) ==
  /\ Has({"countries"})
  /\ listed' = listed \cup {a}
  /\ UNCHANGED <<ledger, columns, phones, placed, stage, plan, queue, starts>>

-------------------------------------------------------------------------------

\* A database of no release, of one before the ledger, or of the first that renamed.
Init ==
  /\ ledger = [v \in Versions |-> "none"]
  /\ columns \in {{}, OldColumns, {"customer_account", "countries"}}
  /\ phones = IF columns = {} THEN "none"
              ELSE CHOOSE c \in columns : c \in {"customer_phone", "customer_account"}
  /\ listed \in SUBSET Accounts /\ (columns = {} => listed = {})
  /\ placed = {}
  /\ stage = [p \in Procs |-> "off"]
  /\ plan = [p \in Procs |-> {}]
  /\ queue = [p \in Procs |-> {}]
  /\ starts = 0

Up(p) ==
  \/ Baseline(p) \/ CustomerAccount(p) \/ AccountLocation(p)
  \/ AddCountry(p) \/ AddCurrency(p) \/ DropCountries(p) \/ AddAppCurrency(p)
  \/ \E a \in Accounts : Backfill(p, a)

StartUp(p) == Start(p) \/ ReadLedger(p) \/ Record(p) \/ Up(p) \/ Finish(p) \/ Converge(p)

Operator == (\E v \in Versions : DeleteRow(v)) \/ (\E a \in Accounts : NameCountry(a))

Next == (\E p \in Procs : StartUp(p) \/ Crash(p)) \/ Operator

Spec == Init /\ [][Next]_vars

-------------------------------------------------------------------------------

\* Every variable has its type.
TypeOK ==
  /\ ledger \in [Versions -> {"none", "dirty", "clean"}]
  /\ columns \subseteq OldColumns \cup NewColumns
  /\ phones \in {"none", "customer_phone", "customer_account"}
  /\ listed \subseteq Accounts /\ placed \subseteq Accounts
  /\ stage \in [Procs -> Stages]
  /\ plan \in [Procs -> SUBSET Versions]
  /\ queue \in [Procs -> SUBSET Accounts]
  /\ starts \in 0 .. MaxStarts

\* However many processes start at once, and wherever one of them ended, the ledger lets
\* one of them at a time change the schema, and in ascending version order (runner.go:16).
OneMigratesInOrder ==
  /\ \A p, q \in Procs : stage[p] \in Applying /\ stage[q] \in Applying => p = q
  /\ \A p \in Procs : stage[p] \in Applying =>
       \A v \in Versions : ledger[v] = IF v < Current(p) THEN "clean"
                                       ELSE IF v = Current(p) THEN "dirty" ELSE "none"

\* "a rename would silently leave the old column behind holding all the data"
\* (migrations/doc.go:5-6), "the order matters" (bootstrap/migrate.go:17): once a process
\* has converged the schema nothing is left behind in a column no model reads, nor are
\* the countries an earlier release stored ever dropped before they are moved, however
\* often that was interrupted and begun again.
NothingLeftBehind ==
  /\ \A p \in Procs : stage[p] = "ready" => phones = "customer_account" /\ columns = NewColumns
  /\ "country" \in columns /\ "countries" \notin columns /\ listed # {} => placed = Accounts
===============================================================================
