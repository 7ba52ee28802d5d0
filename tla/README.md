# Momobase: models and proofs

Momobase is a mobile-money payment server in Go. A client application asks it to
collect or disburse an amount under an idempotency key; it chooses a provider
account, records a transaction and one attempt, calls the provider, and brings both
rows to a final status from whichever of three sources reports first: the answer of
the call, a webhook of the provider, or a query of the reconciliation worker.

The modules here model that in TLA+, check it with TLC on small instances, and prove
the safety results with TLAPS for instances of every size. Paths below are relative
to `src/`.

## The system

| Component | State it keeps | Operations |
|---|---|---|
| Payment orchestrator, `internal/service/payment` | rows of `transactions` and `transaction_attempts` | `Create` (look-up, replay, insert, provider call, `persist`) |
| Webhook service, `internal/service/webhook` | rows of `webhook_events` | `Handle`, `apply`, `ReprocessPending` |
| Reconciliation service, `internal/service/reconciliation` | `next_reconcile_at`, `reconcile_attempts` | `RunOnce`, `reconcile`, `deferRetry` |
| Status graph, `internal/domain`; words, `providers/amount.go` | none | `Transition`, `Terminal`, `PaymentStatus` |
| Hooks, `hooks` | listeners in order of registration | `Bind`, `Trigger`, `NotifyTransactionChanged` |
| Provider runtime, `internal/service/provider` | loaded adapters with their circuits, in memory | `LoadActive`, `Reload`, `Disable`, `Get` |
| Executor, same package | the circuit of each runtime | `Collect`, `Disburse`, `QueryTransaction`, `QueryBalance`, `Health`, `VerifyWebhook` |
| Provider administration, same package | rows of `provider_accounts` | `CreateAccount`, `UpdateSettings`, `UpdateConfig`, `Activate`, `Deactivate` |
| Provider health, same package | rows of `provider_health_snapshots` | `CheckAll`, `save` |
| Routing, `internal/service/routing` | rows of `payment_routes` | `SelectProvider`, `AvailablePaymentMethods`, route administration |
| Administrators, `internal/service/identity` | users, sessions, lockout | login, refresh, logout, password, role and status changes |
| Applications, same package | apps, credentials, sessions | client tokens, refresh, create, revoke and rotate credentials |
| Roles, same package | roles and their permissions | `Seed`, `CreateRole`, `UpdateRole`, `DeleteRole` |
| Migrations, `internal/migrations` | the ledger with its dirty flag | `Run`, `Pending` |
| Charges, `internal/domain/charges.go` | none | `Calculate` |
| Workers and lifecycle, `internal/workers`, `internal/bootstrap` | goroutines, the HTTP server | `Serve`, `Close` |
| HTTP, transfer objects, platform helpers, utilities | none | decoding, checking and rendering |

How they interact:

- Handlers run in goroutines of the HTTP server, the workers in one goroutine each.
  They share the database, and in memory the runtime map and the circuits.
- A change that belongs together is one database transaction (`UnitOfWork.Within`),
  and `apply`, `reconcile` and `deferRetry` re-read the transaction's row under a lock
  in it. No transaction is held over a call of a provider.
- The orchestrator asks routing for an account, the executor for the call, and
  publishes the committed change to the hooks; webhooks and worker do the same.
- `Reload` replaces a runtime, with its circuit, under calls that hold the old one.

Where it is hard, and what is right there:

- **Orchestrator, webhooks, worker.** They race over the same rows; provider answers
  and webhooks are lost, late, repeated and out of order; the process dies between any
  two steps. Right is: paid at most once per key, settled with the provider's
  outcome, both rows together, never taken back, published at most once, and settled
  in the end.
- **Circuit.** Calls outlive the state they were let in under. Right is: open at
  the limit, one trial at a time, never refusing on behalf of nobody, and closed again
  when the provider is back.
- **Runtime and administration.** Reloads take seconds and race each other and the
  writes of the row. Right is: what is loaded is what is stored, once everything is
  quiet, and a rollback restores nothing but its own change.
- **Routing and health.** A snapshot is read while it is being replaced. Right is: no
  payment is routed to an account known to be out, and each recovers.
- **Identity.** Checks and effects of login, refresh and revocation interleave. Right
  is: after a revocation has been answered, no session that it covered is live, a
  refresh token works once, and wrong passwords lock the account in time.
- **Roles.** An assignment races a deletion, and the permission of each route is a text
  next to the catalogue. Right is: no administrator holds a role that does not exist,
  every route is within reach of the roles it is meant for, and somebody may assign.
- **Migrations.** A start is interrupted, or two start at once. Right is: one process
  at a time changes the schema, in order, and no data stay behind in an old column.
- **Lifecycle.** The host, the listener, the workers and `Close` stop each other. Right
  is: the database outlives the work, and what is told to stop does.
- **Charges.** 64-bit arithmetic. Right is: the exact fee, rounded half up, without
  overflow.

`PROJECT.json` lists the hazards line by line, with the properties that watch them.

## Modules

| Module | What it is |
|---|---|
| `TxStatus` | statuses, `Transition`, `Terminal`, `PaymentStatus` |
| `Settlement` | request path, webhooks and worker over their shared tables |
| `PaymentOutcome` | abstract: what the three promise together |
| `CircuitBreaker` | one account's circuit and its callers |
| `ProviderHealth` | extends it by the health worker's probes and snapshots |
| `ProviderAccounts` | one account's row, its runtime and its administrators |
| `Sessions` | abstract: what a table of token sessions promises |
| `AppSessions` | applications, credentials and their sessions |
| `AdminSessions` | administrators' logins, lockout and sessions |
| `Access` | catalogue, roles, administrators and the permission of each route |
| `Charges` | the fee of a payment, in integers of a fixed width |
| `Routing` | extends it by routes, their administration, selection and discovery |
| `Migrations` | the ledger, the migrations and convergence, by several processes |
| `Lifecycle` | extends it by `Serve`, workers, listener and `Close` |
| `Settlement_proofs`, `ProviderAccounts_proofs`, `AppSessions_proofs`, `AdminSessions_proofs`, `Access_proofs` | theorems about the module they are named after |
| `CircuitBreaker_proofs` | theorems about the circuit, alone and in `ProviderHealth` |
| `Routing_proofs` | theorems about `Charges` and `Routing` |
| `Lifecycle_proofs` | theorems about `Migrations` and `Lifecycle` |
| `MC...` | constants and symmetry of the runs |

`ProviderHealth`, `Routing` and `Lifecycle` compose: the worker's probes go through the
circuit of `CircuitBreaker`, whose state and snapshot are what `Eligible` and `Routing`
read; `Routing` takes its fees from `Charges`; an instance serves on the database that
`Migrations` made ready. Elsewhere the models meet in what one of them leaves free.
`Settlement` sees providers and circuits as a call that may fail. `CircuitBreaker` sees
`ProviderAccounts` as a `Reload` that may happen at any time. `Routing` sees accounts,
runtimes, circuits and snapshots as four tables that change at any time, which is more
than `ProviderAccounts` and `ProviderHealth` let them. `AdminSessions` and `Access`
share the account's status, which each changes freely.

In every module a database transaction is one action, what the code does outside one is
an action for each query or statement that matters, and anything may happen between two
actions. `Refuse`-like actions are all errors of a step: a failed query, a failed check,
a caller that went away.

### Settlement

| Code | Actions |
|---|---|
| `Create`, look-up and replay (94-98) | `FindReplays`, `FindMisses` |
| `Create`, every error before a row exists | `Refuse` |
| `Create`, insert and conflict (163-205) | `Insert`, `InsertConflicts` |
| provider call (206-211, `executor.go`) | `ProviderReceives`, `ProviderAnswers`, `CallFails`, `AdapterPanics` |
| `persist` (215-289) | `Persist`, `PersistFails` |
| `Handle` with `apply` (83-177) | `HandleStores`, `HandleApplies` |
| `RunOnce` (52-79) | `StartPass`, `LoadPending` |
| `reconcile` (80-141) | `Query`, `Reconcile`, `Skip` |
| `deferRetry` (142-174) | `DeferRetry` |
| `ReprocessPending` (180-207) | `RetryApplies`, `RetryPasses`, `RetryRefused`, `QueueDone`, `PassFails` |
| post-commit hooks | `Announce` |
| time, the provider, the end of the process | `Tick`, `ProviderDecides`, `Crash` |

What is abstracted:

- A transaction is named by the call that creates it. It has one attempt, as in the
  code: nothing adds a second.
- A reference is present or absent. The provider's references are taken to be unique,
  so that a reference leads to one attempt.
- `next_reconcile_at` lies in the future or does not; the length of the backoff is
  left out, and so `reconcile_attempts`, which only sets it.
- A webhook event carries its transaction, its status, and how far it fits
  (`validateWebhook`): `"differs unhashed"` stands for country and account, which
  `canonicalWebhookHash` leaves out, so such an event has the hash of one that fits.
- The provider is truthful: a final answer or event carries the outcome it decided.
  It need not answer with a reference, may answer with a word `PaymentStatus` does not
  know, may send an early event at any time after it received the payment, and may
  send any event again.
- One process, one worker goroutine, as `bootstrap/app.go` starts them. A restart
  loses requests, the pass and unpublished changes; the tables stay.
- Publication to one listener; a settlement is published in any order with others.

### CircuitBreaker and ProviderHealth

| Code | Actions |
|---|---|
| `before` (37-48) | `Start` in a closed circuit, `Try` in a half-open one |
| `after` (49-61) with `execute` (192-211) | `Succeed`, `Cancel`, `Fail` |
| a panic in `call` (207) | `Panic` |
| `Reload` with calls in flight | `Reload`, `EndDetached` |
| 30 seconds; the provider | `Cool`, `ProviderTurns` |
| `CheckAll` through `Executor.Health` | `Probe`, `ProbeRefused`, `ProbeEnds` |
| `save` | `Save`, `SaveFails` |
| the end of the process and its next start | `Restart` |

A refused call of a request changes nothing and is no action; that of a probe is a
failed one. The counter of failures is cut at the limit, the only value it is compared
with, and that of the snapshot at three. The time the circuit opened is `"zero"`, less
than 30 seconds ago, or more. A worker that panics ends the process and its circuits
with it (`workers/manager.go` does not recover), so only requests panic. The adapter has
a `HealthChecker`; without one `Health` answers without a call. That an administrator
disables the account during a probe is left out: the snapshot of an account that is not
loaded is read by nobody.

### ProviderAccounts

| Code | Actions |
|---|---|
| first query and checks of an operation, `admin.go` | `BeginConfig`, `BeginSettings`, `BeginSwitch` |
| its write of the row | `UpdateConfig`, `UpdateSettings`, `Activate`, `Deactivate`, `WriteFails` |
| `Reload` (`runtime.go:155-189`): its query; its build and installation | `Fetch`; `Install`, `ReloadFails` |
| `Disable` | `Disable` |
| `Restore` (`payments.go:85`) | `Undo`, `UndoFails` |
| `LoadActive`, before the server listens; the end of the process | `LoadActive`, `Crash` |

An operation that is refused before its write changes nothing and is no action. Country,
currency and charges, always written together, are one place, and the encrypted
configuration and its hash one configuration. A configuration builds or does not; one
that builds may fail to, since the provider is asked for its health. A panic of the
adapter ends the operation between its write and its rollback, as a rollback that fails
does (`UndoFails`).

### AppSessions and AdminSessions

| Code | Actions |
|---|---|
| `app_auth.go`, `ValidateClientCredentials`; `fromCredential`; `issue` | `BeginGrant`; `ReadApp`; `Grant` |
| `RefreshToken`: `LiveByRefresh`; `identity`; `Rotate` | `BeginRefresh`; `ReadCredential`, `ReadApp`; `Refresh` |
| `AuthenticateClaims` | `BeginRequest`; `ReadCredential`, `ReadApp` |
| `app_app.go` | `CreateCredential`, `RevokeCredential`, `RotateCredential`, `Suspend`, `Activate` |
| `admin_auth.go`, `IssuePasswordToken` | `BeginLogin` or `BeginWrongLogin`; `RecordLogin` or `RecordFailedLogin`; `CreateSession` |
| `RefreshToken`, `AuthenticateClaims`, `LogoutBearer` | `BeginByToken`; `ReadUser`; `Refresh`, `Logout` |
| `admin_user.go` | `ChangePassword`, `Deactivate`, `Activate` |
| expiry; the clean-up worker | `CredentialPasses`, `SessionPasses`, `LockPasses`; `DeleteExpired` |

The two tokens of an answer are one pair, and a session is named by the pair it was
created with and holds the hashes of the latest. Which secret or password a session was
granted by, and whether its grant was overtaken by a change (`late`), is history that
nothing reads. Hashes and signatures are taken as working: a request presents a pair a
live session has. `ended` is what was issued and is not live, so that a clean-up of
expired rows is, to `Sessions`, an end like any other.

### Access

| Code | Actions |
|---|---|
| `Seed` and `seedRole` (`authz.go`), by every start | `Start`, `SeedPermissions`, `seedRole`, `BootFails` |
| `SeedAdmin` (`momobase.go`) | `SeedAdmin` |
| `activeUser` and `RequirePermission`, then a handler of `router.go` | `Begin`, `Refuse` |
| `CreateRole`; `UpdateRole`; `DeleteRole` | `CreateRole`; `ReadRole`, `UpdateRole`; `ReadRole`, `CountHolders`, `ClearPermissions`, `DeleteRole` |
| `Create`, `ChangeRole`, `ChangeStatus` of administrators | `RoleExists`, `CreateAdminUser`, `ChangeRole`; `ChangeStatus` |

The catalogue, the system roles and the routes with their permissions are the code's,
all of them, those that name no permission (`BearerOnly`) included. Handlers whose effect
is elsewhere appear as routes only.

### Routing and Charges

| Code | Actions |
|---|---|
| `SelectProvider`, `AvailablePaymentMethods`: the query of the routes | `SelectProvider`, `AvailablePaymentMethods` |
| `candidate`, for a route of either; what follows | `ReadAccount`, `ReadRuntime`, `ReadHealth`, `ReadFails`; `EndWalk` |
| route administration, `admin.go` | `CreateRoute`, `UpdateRoute` |
| the account's row, runtime, circuit and snapshot | `AccountEdited`, `RuntimeChanges`, `CircuitMoves`, `SnapshotMoves` |
| `charges.go` | `Normalize`, `Valid`, `Portion`, `Calculate`, `calculateCharge` |

A walk changes nothing, so one at a time stands for any number. A lane is a service with
a payment method; country and currency are part of whether an account fits. Selection
and discovery are the same walk over different listings: what passes answers for its
lane, of which a selection has one, and the others of that lane are not read. They order
their routes differently: the query of discovery names no order among equal priorities
(`payments.go:160`), so there it is any. Which routes could have served all the while
(`steady`) and which could at all (`could`) is history that no action reads.

### Migrations and Lifecycle

| Code | Actions |
|---|---|
| `run`, `ledger`, `apply` (`runner.go`) | `ReadLedger`, `Record`, `Finish` |
| migrations 1, 2, 3, statement by statement | `Baseline`; `CustomerAccount`; `AccountLocation`, `AddCountry`, `AddCurrency`, `Backfill`, `DropCountries`, `AddAppCurrency` |
| `bootstrap/migrate.go` | `Converge` |
| `NewApp`; its end anywhere | `Start`; `Crash` |
| what the errors tell the operator to do | `DeleteRow`, `NameCountry` |
| `Serve` | `Serve`, `Load`, `StartAll`, `SeesDone`, `SeesListener`, `Shutdown`, `Drained`, `ServeEnds` |
| a task of `workers/manager.go`; the listener; its handlers | `Iterate`, `Tick`, `TaskEnds`; `ListenerUp`, `ListenerEnds`; `Request` |
| the host; `Close` | `Cancel`; `Close`, `CloseDatabase` |

A database begins as that of no release, of one before the ledger, or of the first that
renamed. One worker and one handler stand for all of theirs, since none waits for
another.

## Runs

| Run | Question | Bounds |
|---|---|---|
| `SettlementRaces` | Is each key paid once and answered alike, and may request, webhooks and worker disagree about it? | three calls of one key, two of them alike; events of four statuses, fitting and not; two outcomes, one restart |
| `SettlementOutcome` | Is the inductive invariant one? Do the paths implement `PaymentOutcome`? | two payments, two statuses of events, passes of one row and one event |
| `SettlementLiveness` | Does a payment settle, and does an early webhook count? | two payments one after the other, an event of each that may be overtaken, passes of two, one restart |
| `SettlementUnresolved` | does a timed-out payment settle? **violated** | one payment |
| `ProviderHealth` | Does the circuit open at the limit, let one trial through, and close again, and is the account routed to again? | health worker and three requests, limit 3, one panic, one restart |
| `AccountsAgree` | Is what is loaded what is stored? Does a version name one configuration? | two administrators, two configurations of which one builds, two places, one restart |
| `AppSessions` | Does a revocation hold against every grant, refresh and request under way? Is a pair exchanged once? | two requests, one credential of two secrets, three pairs, one expiry |
| `AdminSessions` | The same of logins, and are wrong passwords bounded? | two requests, one administrator of two passwords, three pairs, one expiry |
| `AdminOldPassword` | is a changed password the end of every session of the old one? **violated** | as before |
| `Access` | Do routes, catalogue and roles fit, does a held role exist, does somebody remain who may assign? | two requests, two administrators, one custom role created up to twice |
| `Routing` | Is the best of the routes that serve chosen? Are the methods that are listed those that serve? Are fees exact? | two lanes of one service, two accounts, two routes of the three these allow; 8-bit amounts, all rates |
| `Lifecycle` | Does one process at a time migrate, in order, losing nothing? Does an instance stop when told, its database last? | two processes, three starts, two accounts, three earlier releases |

Why the bounds are enough to meet the interesting cases:

- *Settlement.* A race over a key needs two calls, and the third lets one be a retry
  after the restart while another asks for something else. Rows of different payments
  meet only in the worker's pass and in the event table, so that two payments, with
  passes shorter than the backlog, show what they can do to each other, and one payment
  with all kinds of events shows the rest. One restart at every point loses everything
  that is in memory once; a second finds nothing new in the tables. `SettlementLiveness` lets the
  second payment be asked for when the request of the first is over (`TurnSpec`): what
  races there are webhooks, worker and restart. Its one event of each payment can be
  early, overtaken and refused, and ahead of the other's. More rows that stay due than a
  pass takes would need the backoff, and are not asked to settle.
- *Circuit.* Four callers and the real limit of three let the circuit open by failures
  of different calls while a fourth is still out. A restart leaves any snapshot a run of
  the process can leave to a new circuit.
- *Accounts.* Every pair of operations overlaps at every point with two administrators;
  `MaxVersion` stops changes of configuration from beginning at version 2, where two
  that began earlier can still take the row to 3.
- *Sessions.* Two requests race for one session, each against every administrator's
  change, which is one step and so needs no second administrator at work. Three pairs let
  a refresh follow a grant or a refresh and another race it. Users, and credentials, do
  not share rows. The lock needs five wrong passwords, and the counter starts at none:
  they are all made, two at a time.
- *Access.* One deletion and one assignment race, and a role of the same name made again
  while the first is being deleted needs the second creation. Requests name the custom
  role and one system role; the others differ only in their permissions, which are
  checked against every route.
- *Routing.* Two routes of one lane are an order, and the second the fallback of the
  first; one of another lane is what a selection must not choose and what a discovery
  goes on to; the walk repeats itself for a third. What is read of an account changes
  once a route names it: before that nobody reads it. Arithmetic is checked for every
  amount and rate of a width that overflows when amount and rate are multiplied.
- *Lifecycle.* Two processes are a race, the third start finds what an end anywhere left.
  Two accounts let a migration end between them.

The proofs below do away with the bounds for every safety property. `MaxCrashes`, `MaxRestarts`, `MaxStarts`, `MaxPanics`, `MaxPassed`,
`MaxPasswords`, `MaxSecret` and `MaxRoles` cap what else would repeat for ever.

Deadlock is checked except in two runs. In `AccountsAgree` a process that died between
the write of a configuration that does not build and its rollback leaves an active row,
and `Serve` refuses to start with it (`app.go:292`). In `Lifecycle` every process may be
down or closed in the end.

### Liveness and fairness

`Settlement` assumes weak fairness of each request once begun, of the worker and of
the clock, as goroutines, tickers and `next_reconcile_at` are scheduled. It assumes
strong fairness of a query that returns the final outcome, of the commit that records
it, of the load of the pending events and of the retry of each, applied or found to be
without a transaction: a provider
and a database that are asked again and again do not fail every time. Without these no
retry could promise anything. Nothing makes a call be made, a webhook be delivered,
a notice be published or the provider decide.

`ProviderHealth` assumes weak fairness of the end of each call, which `execute` bounds
by its timeout, of time, and of the worker's probes, which `CheckAll` makes on every
tick; and strong fairness of `Save`, since a snapshot whose write fails every time says
nothing. No request is assumed to be made, and the provider need not come back: what is
promised is promised if it does, for good.

`Lifecycle` assumes weak fairness of `Serve` and `Close` as goroutines, of a task's
iteration, which its context bounds, and of the ten seconds of `Shutdown`. It assumes
strong fairness of a task's end: `select` between a ticker and a context that is done
chooses at random. The listener need not come up, may end at any time, and a handler need not end.

## What is proved

`Settlement_proofs`, for any finite set of calls, any keys, hashes, vocabulary, events,
pass length and number of restarts:

- `TypeCorrect`, `PaidOnce`, `SameAnswer`, `RequestOwnsRow`, `BooksAreTrue`,
  `RowsSettleTogether`, `MarkedEventsCount`, `PublishedOnce`: the safety properties the
  runs check, and `GraphFollowed`, the action property.
- `Implementation`: `Spec => ImplementsPaymentOutcome`. A row is a book entry that is
  `"none"`, `"open"` or final; `Insert` opens it, `ProviderReceives` pays, `Persist`,
  `HandleApplies`, `RetryApplies` or `Reconcile` settle it, `Announce` publishes, and
  everything else stutters.

Assumptions are the named `ASSUME`s of the module: finitely many calls, each with a
key, and the ranges of the constants.

The argument is the inductive invariant `IInv`. The promises are not inductive by
themselves. That `persist` may write blindly rests on the row having no reference
while its request runs (`OwnedByRequest`, `RowsInv`), which hides it from webhooks,
matched by the attempt's reference, and from the worker, whose query asks for the
transaction's. That the rows agree rests on both carrying the same reference
(`RowsInv`). That a settled status is true rests on everything in flight having been
true when it was said and staying true, because the provider does not take an outcome
back: the reply of a call (`ProgressInv`), the worker's answer (`WorkerInv`), the
stored events (`EventsInv`). That the worker's answer is about the row it is used on
rests on the rows of a pass having different ages (`RanksInv`). That payments are
unique per key rests on the index (`OneRowPerKey`). `Invariance` proves it step by
step, one lemma per action.

`CircuitBreaker_proofs`, for any callers and any limit: `CircuitTypeCorrect`,
`OpenExactlyAtLimit`, `OneTrialUnlessStraggler`, `MarkHasATrial`. The invariant `CInv`
adds to them `MarksTrials`: the mark is only there in a half-open circuit, and as long
as no other call has ended since the trial began, the trial has it.

`ProviderAccounts_proofs`, for any administrators, configurations and places:
`AccountsTypeCorrect`, `AccountsAgreeAtRest`, `VersionNamesConfig`, assuming only
`AccountAssumption`. The invariant `AInv` says how far an operation that is alone has
taken the row ahead of the runtime (`SerialInv`): after its write the row is what the
operation read, but for what it wrote, which is why its rollback restores the row it
found; and that whatever was taken from the row without a rollback is older than the
row or agrees with it (`VersionsInv`), which is why no overlap can install one version
with two configurations.

`AppSessions_proofs`, for any requests, applications, credentials and token pairs:
`AppTypeCorrect`, `AppSessionsRest`, `RevokedNeverAdmitted` and the refinement
`AppImplements`, assuming only `AppAssumption`. The invariant `SInv` says what sessions
and requests rest on: credentials that exist, and what a request has read by the time it
needs it (`KnownInv`); that a request that began doomed and still is will be refused by a
query it has yet to make (`DoomedInv`): for an expired credential or a suspended
application, which nothing undoes under it unnoticed, or for a revoked credential as long
as the credential has still to be read; and that a row holds an issued pair that nobody
has exchanged, and no other row holds it (`PairsInv`), which is why a conditional update
of one row exchanges a pair once.

`AdminSessions_proofs`, for any finite set of requests and any administrators and pairs:
`AdminTypeCorrect`, `AdminSessionsRest`, `GuessesLimited` and `AdminImplements`, assuming
`AdminAssumption`. `LInv` has the same `KnownInv` and `PairsInv`, and `GuessInv` for the
lockout: a wrong password that does not lock was let in while fewer than four were
counted, so that those counted and those under way together never exceed the number of
requests by more than three. The bound itself is not inductive: a step that counts one
takes it from those under way.

`CircuitBreaker_proofs` goes on to the circuit under the health worker, restarts and
snapshots, for any callers, limit and number of restarts: `HealthTypeCorrect`,
`WorkerOpensAtLimit`, `WorkerSharesTheTrial`, `WorkerNeverWedged`. A probe is a call like
any other (`ProbesAreCalls`), and a restart leaves a new circuit, so that `CInv` holds
as it did.

`Lifecycle_proofs`, for any processes, accounts and number of starts: `LifeTypeCorrect`,
`OneAppliesAtATime`, `NoDataLeftBehind`, `CloseOutlivesWork`, and `LifeFollowsMigrations`,
that the whole is a behaviour of `Migrations`. Of the ledger, `MInv` says that a version
is begun only when the earlier ones are clean (`LedgerInv`), and that what a process does
not plan is clean, and stays so (`PlanInv`): hence two processes cannot be at different
versions, and the primary key keeps them from being at the same. Of the data, that an
account is, while the third migration runs, placed or still in somebody's queue
(`StageInv`), so that the countries are dropped after the last one. `LInv` adds who can
still be at work where `Serve` is (`ServeInv`), and that a `Close` which found a `Serve`
outlasts it (`CloseInv`).

`Access_proofs`, for any requests, administrators, custom roles and sets of grants:
`AccessTypeCorrect`, `SeededRolesReach`, `NobodyLosesARole`, `SomeoneAssigns`. That the
routes that name a permission ask for a listed one, and what a seeded role reaches, which
is the routes its documentation names and `BearerOnly`, is worked out from the code's own
lists. The invariant `AInv` adds that a request past `customRole` names a role
the operators made (`CustomInv`), which is why no handler writes a seeded one
(`SeededInv`); that a deletion past its count has no holders but those it was overtaken
by (`CountedInv`); and that a change of role that goes on is somebody else's
(`OthersInv`), which is why the one who makes it remains.

`Routing_proofs`, for any lanes, accounts, number of routes and priorities, and for
integers of any width: `FeesAreExact`, `RoutingTypeCorrect`,
`SteadyRouteChosen`, `DiscoveryAgrees`. `FeesAreExact` needs an even scale whose square
and itself fit the integers, which 10000 in 64 bits is: the amount is its quotient times
the scale and its remainder, the products of neither overflow, and the rounded sum is
never more than the amount. The order of the query has a least element, by priority and
then by age (`FirstComesFirst`). The invariant `RInv` has a lower and an upper half. A
route that could have served all the while is still in the list, as it was listed, or a
route of its lane was found, in a selection an earlier one (`SteadyInv`): the route that
passes its last read is the first of the list. A route whose account has not changed
since it was listed is, while it is read, what its reads have shown so far (`NowInv`),
and so none that was no candidate then is found (`CouldInv`).

`AppPairsOneLine` and `AdminPairsOneLine`, in the modules of the sessions, prove of
`Sessions` what it comes to, and carry it over the refinement: a pair comes from at most
one other, which has ended, and what ended stays so, with the pair that followed it.

Model-checked only: the five liveness properties (`DecidedSettles`, `EarlyEventsApplied`,
`HalfOpenServed`, `RoutedAgain`, `StopsWhenTold`), which need fairness and `ENABLED` and
are out of the prover's reach; and the two violations, which are behaviours.

## Findings

1. **A timed-out payment stays unknown.** `persist` stores no reference when the call
   failed (`orchestrator.go:227-235`), and `DueForReconciliation` asks for one
   (`payments.go:244`). Nothing queries the provider, and no webhook finds the attempt.
   `reconciliation/doc.go:1` promises otherwise. `SettlementUnresolved`.
2. **A session of the old password.** `IssuePasswordToken` checks the password and
   stores the session in a later statement that does not look again
   (`admin_auth.go:108-113`). A change of password in between revokes what there is, and
   the login then adds a session that lives on, against `admin_user.go:91-92`.
   `AdminOldPassword`. The same grant of an application is harmless: every request reads
   the credential again (`RevokedStopsWorking`).

Seen on the way, and visible in the models without a run of their own:

- *Webhooks.* `ReprocessPending` returns at the first event `apply` refuses
  (`webhook/service.go:199`), which stays the oldest, so that the events behind it are
  never retried, although `RunOnce` "retries webhook events that arrived before their
  transaction was ready" (`reconciliation/doc.go:3-4`). Hence `ShutOut` in
  `EarlyEventsApplied`. Their payments settle through queries (`DecidedSettles`). An early event that differs only in country
  or account takes the hash of the correct one, which is then answered as a duplicate
  (`SameHash`).
- *Publication.* `PreviousStatus`, by `hooks/events.go:75` the status before the change,
  is the constant `pending` on the request path (`orchestrator.go:273`), where the row
  was `processing` (`Publish`). A change committed just before the process ends is never
  published (`Crash`).
- *Reconciliation.* An adapter that answers a query with neither answer nor error ends
  the process: the worker reads the answer unconditionally
  (`reconciliation/service.go:88`) and does not recover.
- *Circuit.* `after` is not deferred (`executor.go:211`), so that a trial that panics
  leaves its mark, and the half-open circuit refuses everything until a reload or
  restart; `constants.go:53` promises a trial. Hence `panics` in the properties. A second
  trial may join one that is out, since `after` clears the mark whatever call it reports
  (`runtime.go:52`), a call takes up to 45 seconds and the circuit cools in 30
  (`TrialsOverlapOnlyAfterStraggler`). A cancelled call counts as a success and closes a
  half-open circuit (`executor.go:208`, `Cancel`).
- *Accounts.* `UpdateConfig` rolls back to the configuration and version it read at its
  start (`provider/admin.go:232-236`): another administrator's change, stored and loaded in
  between, disappears from the row, and its version is given out again, against
  `payments.go:93-94`. Hence `undone` in `VersionsDistinguish`. `UpdateSettings` decides
  on the reload by the account it read before its write (`admin.go:171`): activated
  meanwhile, the runtime keeps the old place, against `admin.go:138-139`. Hence
  `disturbed` in `QuietAgrees`. Activating an account that is active already, while its
  provider is out for a moment, leaves it inactive with its runtime loaded
  (`admin.go:258`). A process that ends between the write of a configuration and its
  rollback may not start again.
- *Sessions.* A logout that a refresh has overtaken revokes nothing, and succeeds
  (`repository/admin.go:137`): the session lives on under the new pair. Rotating a
  credential reactivates it, whoever revoked it meanwhile (`RotateCredential`). Wrong
  passwords in flight at once are each admitted, so that more than five may be tried
  (`GuessesBounded`).
- *Access.* Two administrators who may assign can demote each other at once, and any may
  deactivate everybody, themselves included; then nobody may. A role deleted while it is
  being assigned leaves its holder without permissions (`overtaken`). `apps:test` is in
  the catalogue and required by no route (`permissions.go:60`), although 42-45 say that
  the catalogue is what routes refer to. The password route names no permission
  (`router.go:263`); its comment (261-262) and that of `ChangePassword`
  (`admin_user.go:81-82`) each name the other place as the one that tells whose password
  it is, and neither does: any administrator, `operations` and `read_only` included,
  changes the password of any account. So "mutate nothing" (`permissions.go:92`) holds
  but for `BearerOnly`, and `SystemRolesReach` says it with that exception.
- *Routing.* A route created inactive is stored active: the column has a default, which
  gorm writes in place of a false (`models.go:178`, `CreateRoute`). A half-open account
  whose trial is out is chosen, and its payment refused after its row was inserted.
- *Charges.* `CreateApp` fills in a schedule that is left out, but refuses a rule whose
  type is, which `Normalize` would fill in as well (`app_app.go:82-87`).
- *Lifecycle.* `Close` "stops an active server and its workers before closing the database
  connection pool" (`app.go:341`), the workers always, the server but for three cases, in
  which handlers run on over a database that closes: ten seconds after `Shutdown` began
  they are left (312); a `Shutdown` before the listener is up does nothing, and the
  listener may come up later (315); and when the listener ends by itself, its error ends
  `Serve` without a `Shutdown` (320-321), with the handlers of its open connections
  undrained. They are the values of `left`, and `DatabaseOutlivesWork` says which of them
  leaves what.

## What is not modelled

Of the modelled components: the amounts, fees and texts inside `Settlement`, whose
requests before routing are one refusal; binding and the chain of several hooks, which
is sequential and keeps nothing between calls; `UpdateApp`, which edits attributes; a
probe that an administrator's `Disable` overtakes; an instance that does not migrate
automatically, which only warns of what is pending, and `Migrate` on a live one;
processes of an earlier release that write old columns while a new one migrates.

Left out for good, because they keep no state, are pure input and output, or are not
part of the running system: decoding and rendering in handlers, rate limits, CSRF and
static files; transfer objects; configuration, database and logging; cryptography and
tokens; audit and analytics, which nothing reads back into a decision; the parsing of
amounts; the dummy provider, examples and test support.

## What comes next

Every safety property of the runs is a theorem. What is left to prove is how the parts
fit: that the four tables `Routing` lets change at any time are what `ProviderAccounts`
and `ProviderHealth` keep; that a pair which ended through a revocation is one
`SessionsRest` speaks of; and, of each liveness property, the steps that need no
fairness, which is what a step of the helpful action achieves and no other undoes.
