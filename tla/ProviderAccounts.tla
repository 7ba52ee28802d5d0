--------------------------- MODULE ProviderAccounts ---------------------------
(***************************************************************************)
(* One provider account: its row, the runtime loaded from it, and the      *)
(* administrators who change both (AdminService in                         *)
(* service/provider/admin.go, RuntimeManager.Reload in runtime.go).        *)
(*                                                                         *)
(* No operation holds a lock or a transaction from its first query to its  *)
(* last, and Reload builds an adapter, which takes a health check of the   *)
(* provider, between its query and the installation.  Each query and each  *)
(* write of the row or of the runtime map is a step.                       *)
(***************************************************************************)
EXTENDS Naturals

CONSTANTS
  Admins,      \* administrators; each makes any number of changes, in turn
  Configs,     \* provider configurations
  Builds,      \* those an adapter can be built from
  Places,      \* settings: country, currency and charges
  NotLoaded,   \* no runtime in the map
  MaxVersion,  \* bound: a row of this version gets no further change of configuration
  MaxCrashes   \* bound: how often the process dies and restarts

Versions == Nat \ {0}
Rows     == [active : BOOLEAN, config : Configs, version : Versions, place : Places]

\* What Reload takes from the row into the runtime.
Runtimes == [config : Configs, version : Versions, place : Places]
View(r)  == [config |-> r.config, version |-> r.version, place |-> r.place]

ASSUME AccountAssumption ==
  /\ Builds \subseteq Configs
  /\ NotLoaded \notin Runtimes
  /\ MaxVersion \in Nat
  /\ MaxCrashes \in Nat

\* An operation under way: what it is, what it shall store, the row as it read it
\* first (account) and as its Reload read it (fetched), and what it does next.
Kinds == {"config", "settings", "activate", "deactivate"}
Ops   == [kind : Kinds, edit : Runtimes, account : Rows, fetched : Rows,
          next : {"write", "fetch", "build", "disable", "undo"}]
Idle  == [kind |-> "none"]

VARIABLES
  row,       \* the row of provider_accounts
  runtime,   \* its entry in RuntimeManager.items
  op,        \* what each administrator is doing
  running,   \* whether the process runs
  undone,    \* history: a change of configuration was rolled back
  disturbed, \* history: since the start, operations overlapped or one was lost
  crashes    \* restarts so far

vars == <<row, runtime, op, running, undone, disturbed, crashes>>

Busy == {a \in Admins : op[a] # Idle}

At(a, step)       == op[a] # Idle /\ op[a].next = step
Continue(a, step) == op' = [op EXCEPT ![a].next = step]
End(a)            == op' = [op EXCEPT ![a] = Idle]

-------------------------------------------------------------------------------
(* The four operations.                                                    *)

\* An operation that was accepted has read the row, though Activate and Deactivate
\* make no use of what it held.
Begin(a, k, e) ==
  /\ running
  /\ op[a] = Idle
  /\ op' = [op EXCEPT ![a] = [kind |-> k, edit |-> e, account |-> row,
                              fetched |-> row, next |-> "write"]]
  /\ disturbed' = (disturbed \/ Busy # {})
  /\ UNCHANGED <<row, runtime, running, undone, crashes>>

BeginConfig(a) ==
  /\ row.version < MaxVersion
  /\ \E c \in Configs : Begin(a, "config", [View(row) EXCEPT !.config = c])
BeginSettings(a) == \E p \in Places : Begin(a, "settings", [View(row) EXCEPT !.place = p])
BeginSwitch(a)   == \E k \in {"activate", "deactivate"} : Begin(a, k, View(row))

StaleVersion(a) ==   \* (bug) a read-then-write
  [row EXCEPT !.config = op[a].edit.config, !.version = op[a].account.version + 1]
WithConfig(a) ==
  [row EXCEPT !.config = op[a].edit.config, !.version = @ + 1]

\* SetConfig, in UpdateConfig.  An account that was active is reloaded.
UpdateConfig(a) ==
  /\ At(a, "write") /\ op[a].kind = "config"
  /\ row' = WithConfig(a)
  /\ IF op[a].account.active THEN Continue(a, "fetch") ELSE End(a)
  /\ UNCHANGED <<runtime, running, undone, disturbed, crashes>>

UpdateSettings(a) ==
  /\ At(a, "write") /\ op[a].kind = "settings"
  /\ row' = [row EXCEPT !.place = op[a].edit.place]
  /\ IF op[a].account.active THEN Continue(a, "fetch") ELSE End(a)
  /\ UNCHANGED <<runtime, running, undone, disturbed, crashes>>

Activate(a) ==
  /\ At(a, "write") /\ op[a].kind = "activate"
  /\ row' = [row EXCEPT !.active = TRUE]
  /\ Continue(a, "fetch")
  /\ UNCHANGED <<runtime, running, undone, disturbed, crashes>>

Deactivate(a) ==
  /\ At(a, "write") /\ op[a].kind = "deactivate"
  /\ row' = [row EXCEPT !.active = FALSE]
  /\ Continue(a, "disable")
  /\ UNCHANGED <<runtime, running, undone, disturbed, crashes>>

WriteFails(a) ==
  /\ At(a, "write")
  /\ End(a)
  /\ UNCHANGED <<row, runtime, running, undone, disturbed, crashes>>

-------------------------------------------------------------------------------
(* Reload and Disable.                                                     *)

Fetch(a) ==
  /\ At(a, "fetch")
  /\ op' = [op EXCEPT ![a].fetched = row,
                      ![a].next = IF row.active THEN "build" ELSE "disable"]
  /\ UNCHANGED <<row, runtime, running, undone, disturbed, crashes>>

\* The adapter is built from the row that was read, and installed.
Install(a) ==
  /\ At(a, "build")
  /\ op[a].fetched.config \in Builds
  /\ runtime' = View(op[a].fetched)
  /\ End(a)
  /\ UNCHANGED <<row, running, undone, disturbed, crashes>>

Disable(a) ==
  /\ At(a, "disable")
  /\ runtime' = NotLoaded
  /\ End(a)
  /\ UNCHANGED <<row, running, undone, disturbed, crashes>>

\* The query, the decryption, the adapter's Init or its health check fails, which
\* it may do for a configuration it took another time.
ReloadFails(a) ==
  /\ At(a, "fetch") \/ At(a, "build")
  /\ Continue(a, "undo")
  /\ UNCHANGED <<row, runtime, running, undone, disturbed, crashes>>

-------------------------------------------------------------------------------
(* Restore: what the operation wrote goes back to what it had read.        *)

ForgetVersion(a) ==   \* (bug) config_version is left out of the restored columns
  [row EXCEPT !.config = op[a].account.config]
ZeroVersion(a) ==   \* (bug) config_version is restored from an empty account
  [row EXCEPT !.config = op[a].account.config, !.version = 0]
OldConfig(a) ==
  [row EXCEPT !.config = op[a].account.config, !.version = op[a].account.version]

Restored(a) ==
  CASE op[a].kind = "config"   -> OldConfig(a)
    [] op[a].kind = "settings" -> [row EXCEPT !.place = op[a].account.place]
    [] op[a].kind = "activate" -> [row EXCEPT !.active = FALSE]

Undo(a) ==
  /\ At(a, "undo")
  /\ row' = Restored(a)
  /\ End(a)
  /\ undone' = (undone \/ op[a].kind = "config")
  /\ disturbed' = (disturbed \/ (op[a].kind = "activate" /\ op[a].account.active))
  /\ UNCHANGED <<runtime, running, crashes>>

\* The rollback fails, or there is none: the adapter panicked in Init or its health
\* check, and the HTTP server recovered.
UndoFails(a) ==
  /\ At(a, "undo")
  /\ End(a)
  /\ disturbed' = TRUE
  /\ UNCHANGED <<row, runtime, running, undone, crashes>>

-------------------------------------------------------------------------------
(* The process.                                                            *)

Crash ==
  /\ running
  /\ crashes < MaxCrashes
  /\ crashes' = crashes + 1
  /\ running' = FALSE
  /\ op' = [a \in Admins |-> Idle]
  /\ runtime' = NotLoaded
  /\ UNCHANGED <<row, undone, disturbed>>

\* Serve reloads active accounts before it listens, and does not if one fails.
LoadActive ==
  /\ ~running
  /\ row.active => row.config \in Builds
  /\ running' = TRUE
  /\ runtime' = IF row.active THEN View(row) ELSE NotLoaded
  /\ disturbed' = FALSE
  /\ UNCHANGED <<row, op, undone, crashes>>

\* CreateAccount stores an inactive account.
Init ==
  /\ \E c \in Configs, p \in Places :
       row = [active |-> FALSE, config |-> c, version |-> 1, place |-> p]
  /\ runtime = NotLoaded
  /\ op = [a \in Admins |-> Idle]
  /\ running = TRUE
  /\ undone = FALSE /\ disturbed = FALSE
  /\ crashes = 0

Operation(a) ==
  \/ BeginConfig(a) \/ BeginSettings(a) \/ BeginSwitch(a)
  \/ UpdateConfig(a) \/ UpdateSettings(a) \/ Activate(a) \/ Deactivate(a)
  \/ WriteFails(a)
  \/ Fetch(a) \/ Install(a) \/ Disable(a) \/ ReloadFails(a)
  \/ Undo(a) \/ UndoFails(a)

Next == (\E a \in Admins : Operation(a)) \/ Crash \/ LoadActive

Spec == Init /\ [][Next]_vars

-------------------------------------------------------------------------------

\* Every variable has its type.
TypeOK ==
  /\ row \in Rows
  /\ runtime \in Runtimes \cup {NotLoaded}
  /\ op \in [Admins -> Ops \cup {Idle}]
  /\ running \in BOOLEAN
  /\ undone \in BOOLEAN
  /\ disturbed \in BOOLEAN
  /\ crashes \in Nat

\* What the runtime map should hold for row r.
Wanted(r) == IF r.active THEN View(r) ELSE NotLoaded

\* When no operation is under way, the runtime is the one of the row: every change
\* reached it or was rolled back, unless operations overlapped, a rollback failed or
\* an active account was activated again, and failed.  A restart mends even that.
QuietAgrees == running /\ ~disturbed /\ Busy = {} => runtime = Wanted(row)

\* "two changes racing each other still produce two versions" (payments.go:93-94):
\* what was loaded under the stored version is the stored configuration.  A rollback
\* gives a version out again.
VersionsDistinguish ==
  ~undone /\ runtime # NotLoaded /\ runtime.version = row.version
    => runtime.config = row.config

===============================================================================
