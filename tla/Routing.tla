-------------------------------- MODULE Routing --------------------------------
(***************************************************************************)
(* Which provider account a payment goes to: the routes and their          *)
(* administration (service/routing/admin.go), the walk over them that      *)
(* SelectProvider and AvailablePaymentMethods make (engine.go), and the    *)
(* fees that are taken from what was selected (Charges).                   *)
(*                                                                         *)
(* A walk makes a query for the routes and up to three reads for each,     *)
(* while accounts are edited, loaded, unloaded and probed: ProviderAccounts*)
(* and ProviderHealth say how, here what the walk reads just changes.  A   *)
(* walk changes nothing, so that one at a time stands for any number.      *)
(***************************************************************************)
EXTENDS Charges, Sequences

CONSTANTS
  Lanes,       \* a service with a payment method, numbered in the order of both
  Services,    \* the lanes of a service, each
  Accounts,    \* provider accounts
  Offers,      \* pairs of a lane and an account that may be routes
  MaxPriority, \* bound: priorities
  MaxRoutes    \* bound: how many routes there are

ASSUME RoutingAssumption ==
  /\ Lanes \subseteq Nat /\ Services \subseteq SUBSET Lanes
  /\ Offers \subseteq Lanes \X Accounts
  /\ MaxPriority \in Nat \ {0} /\ MaxRoutes \in Nat

RouteRows == [lane : Lanes, account : Accounts, priority : 1 .. MaxPriority, active : BOOLEAN]
Numbers   == 1 .. MaxRoutes

\* What a walk knows of a route: which it is, and its priority when it was listed.
Listed == [route : Numbers, priority : 1 .. MaxPriority]

VARIABLES
  routes,  \* payment_routes, in the order they were created
  fits,    \* accounts whose row is active and of the payment's country and currency
  serves,  \* what the loaded runtime of an account supports, nothing if there is none
  broken,  \* accounts whose circuit is open in this process
  shunned, \* accounts whose health snapshot is down or of an open circuit
  walk     \* the selection or the discovery under way

tables == <<routes, fits, serves, broken, shunned>>
vars   == <<tables, walk>>

NoRoute == [route |-> 0, priority |-> 0]

\* todo: the routes to be tried.  now: the one that has passed a read, and step what is
\* read next of it.  found: those that passed them all.  The rest is history.  steady:
\* the routes of the walk that have been candidates since they were listed.  could: those
\* not passed over that were when they were listed, or whose account changed since.
Idle  == [step |-> "idle"]
Walks == [kind : {"select", "discover"}, step : {"account", "runtime", "health"},
          todo : SUBSET Listed, now : Listed \cup {NoRoute}, found : SUBSET Listed,
          steady : SUBSET Numbers, could : SUBSET Numbers]

-------------------------------------------------------------------------------
(* The queries.                                                            *)

For(lane)         == {i \in DOMAIN routes : routes[i].active /\ routes[i].lane = lane}
Candidates(lanes) == {i \in DOMAIN routes : routes[i].active /\ routes[i].lane \in lanes}

Listing(i) == [route |-> i, priority |-> routes[i].priority]
Lane(r)    == routes[r.route].lane
Account(r) == routes[r.route].account

\* A selection goes by priority, then by age.
Sooner(r, s) == \/ r.priority < s.priority
                \/ (r.priority = s.priority /\ r.route < s.route)
Oldest(todo) == CHOOSE r \in todo : \A s \in todo : r.route <= s.route   \* (bug) whatever its priority
First(todo)  == CHOOSE r \in todo : \A s \in todo : s = r \/ Sooner(r, s)

\* A discovery goes by lane, then by priority, and among equals in any order.
Ahead(r, s) == \/ Lane(r) < Lane(s)
               \/ (Lane(r) = Lane(s) /\ r.priority < s.priority)
Foremost(todo) == {r \in todo : \A s \in todo : ~Ahead(s, r)}

-------------------------------------------------------------------------------
(* SelectProvider and AvailablePaymentMethods, read by read.               *)

At(step) == walk # Idle /\ walk.step = step

\* candidate, as one glance at the tables: what the histories go by.
IsCandidate(i) ==
  LET a == routes[i].account IN
  a \in fits /\ routes[i].lane \in serves[a] /\ a \notin broken /\ a \notin shunned

StartWalk(kind, listed) ==
  /\ walk = Idle
  /\ walk' = [kind |-> kind, step |-> "account", now |-> NoRoute, found |-> {},
              todo |-> {Listing(i) : i \in listed},
              steady |-> {i \in listed : IsCandidate(i)},
              could |-> {i \in listed : IsCandidate(i)}]
  /\ UNCHANGED tables

SelectProvider(lane) == StartWalk("select", For(lane))
AvailablePaymentMethods(lanes) == StartWalk("discover", Candidates(lanes))

\* The routes that may be tried next.
Upcoming == IF walk.kind = "select" THEN {First(walk.todo)} ELSE Foremost(walk.todo)

\* What is left when a route does not pass, or when it does: its method is seen, or the
\* selection made.
OfOthers(r) == {s \in walk.todo : Lane(s) # Lane(r)}   \* (bug) seen before it is checked
Without(r)  == walk.todo \ {r}
Beyond(r)   == {s \in walk.todo : Lane(s) # Lane(r)}

PassedOver(r) == [walk EXCEPT !.step = "account", !.now = NoRoute, !.todo = Without(r),
                              !.could = @ \ {r.route}]
Passed(r)     == [walk EXCEPT !.step = "account", !.now = NoRoute, !.todo = Beyond(r),
                              !.found = @ \cup {r}]

ReadAccount ==
  /\ At("account") /\ walk.todo # {}
  /\ \E r \in Upcoming :
       walk' = IF Account(r) \in fits THEN [walk EXCEPT !.step = "runtime", !.now = r]
                                      ELSE PassedOver(r)
  /\ UNCHANGED tables

ReadRuntime ==
  /\ At("runtime")
  /\ LET a == Account(walk.now) IN
       walk' = IF Lane(walk.now) \in serves[a] /\ a \notin broken
               THEN [walk EXCEPT !.step = "health"] ELSE PassedOver(walk.now)
  /\ UNCHANGED tables

ReadHealth ==
  /\ At("health")
  /\ walk' = IF Account(walk.now) \notin shunned THEN Passed(walk.now)
                                                ELSE PassedOver(walk.now)
  /\ UNCHANGED tables

\* A query that fails passes for one that refuses.
ReadFails ==
  /\ \E r \in Listed :
       /\ \/ At("account") /\ walk.todo # {} /\ r \in Upcoming
          \/ At("health") /\ r = walk.now
       /\ walk' = [PassedOver(r) EXCEPT !.steady = @ \ {r.route}]
  /\ UNCHANGED tables

\* The payment goes on with the route that was found, or is refused with
\* ErrNoRouteAvailable; or the methods of those that were found are listed.
Over(kind) == At("account") /\ walk.todo = {} /\ walk.kind = kind

EndWalk ==
  /\ Over("select") \/ Over("discover")
  /\ walk' = Idle
  /\ UNCHANGED tables

-------------------------------------------------------------------------------
(* The administrators, and the accounts' own life.                         *)

\* The routes that go on being candidates, and those that may have become one unseen.
Watch(changed) ==
  walk' = IF walk = Idle THEN Idle
          ELSE [walk EXCEPT
                  !.steady = {i \in @ : /\ IsCandidate(i)' /\ routes'[i].active
                                        /\ routes'[i].priority = routes[i].priority},
                  !.could = @ \cup {r.route : r \in {s \in walk.todo : Account(s) \in changed}}]

\* A priority left out is the first; the payload of an update must have one.
AsGiven(priority)    == priority   \* (bug)
AtLeastOne(priority) == IF priority < 1 THEN 1 ELSE priority

\* Create, for an account whose runtime is loaded and supports the lane.  The column
\* has a default, and gorm stores it in place of a false, so that the route is active
\* whatever was asked for.
CreateRoute(lane, a, priority) ==
  /\ Len(routes) < MaxRoutes
  /\ lane \in serves[a]
  /\ \A i \in DOMAIN routes : <<routes[i].lane, routes[i].account>> # <<lane, a>>
  /\ routes' = Append(routes, [lane |-> lane, account |-> a,
                               priority |-> AtLeastOne(priority), active |-> TRUE])
  /\ UNCHANGED <<fits, serves, broken, shunned, walk>>

UpdateRoute(i, priority, active) ==
  /\ i \in DOMAIN routes
  /\ routes' = [routes EXCEPT ![i].priority = priority, ![i].active = active]
  /\ UNCHANGED <<fits, serves, broken, shunned>>
  /\ Watch({})

Flip(set, x) == IF x \in set THEN set \ {x} ELSE set \cup {x}

AccountEdited(a)  == fits' = Flip(fits, a) /\ UNCHANGED <<serves, broken, shunned>>
CircuitMoves(a)   == broken' = Flip(broken, a) /\ UNCHANGED <<fits, serves, shunned>>
SnapshotMoves(a)  == shunned' = Flip(shunned, a) /\ UNCHANGED <<fits, serves, broken>>
RuntimeChanges(a) ==
  /\ \E lanes \in SUBSET {offer[1] : offer \in {o \in Offers : o[2] = a}} :
       serves' = [serves EXCEPT ![a] = lanes]
  /\ UNCHANGED <<fits, broken, shunned>>

\* Bound: what is read of an account changes once a route names it.
AccountChanges(a) ==
  /\ \/ RuntimeChanges(a)
     \/ /\ \E i \in DOMAIN routes : routes[i].account = a
        /\ AccountEdited(a) \/ CircuitMoves(a) \/ SnapshotMoves(a)
  /\ UNCHANGED routes
  /\ Watch({a})

-------------------------------------------------------------------------------

Init ==
  /\ routes = << >>
  /\ fits = {} /\ serves = [a \in Accounts |-> {}] /\ broken = {} /\ shunned = {}
  /\ walk = Idle

Walk ==
  \/ \E lane \in Lanes : SelectProvider(lane)
  \/ \E lanes \in Services \cup {Lanes} : AvailablePaymentMethods(lanes)
  \/ ReadAccount \/ ReadRuntime \/ ReadHealth \/ ReadFails \/ EndWalk

Administer ==
  \/ \E offer \in Offers, p \in 0 .. MaxPriority : CreateRoute(offer[1], offer[2], p)
  \/ \E i \in Numbers, p \in 1 .. MaxPriority, b \in BOOLEAN : UpdateRoute(i, p, b)

Next == Walk \/ Administer \/ \E a \in Accounts : AccountChanges(a)

Spec == Init /\ [][Next]_vars

-------------------------------------------------------------------------------

\* Every variable has its type.
TypeOK ==
  /\ routes \in Seq(RouteRows) /\ Len(routes) <= MaxRoutes
  /\ fits \subseteq Accounts /\ broken \subseteq Accounts /\ shunned \subseteq Accounts
  /\ serves \in [Accounts -> SUBSET Lanes]
  /\ walk = Idle \/ walk \in Walks

\* "returns the highest-priority active provider matching" (engine.go:38): whatever is
\* edited, loaded or probed during the walk, a route that could have served the payment
\* all the while is not passed over for a later one, nor the payment refused; and the
\* route that was found is one that could, unless its account changed under way.
SteadyRouteServes ==
  Over("select") =>
    /\ \A i \in walk.steady : \E r \in walk.found :
         \/ r.priority < routes[i].priority
         \/ (r.priority = routes[i].priority /\ r.route <= i)
    /\ \A r \in walk.found : r.route \in walk.could

\* "lists the methods that would route right now" (engine.go:75), "the first that passes
\* makes it available, and the rest are the fallbacks" (engine.go:106-107): a method of
\* which any route could have served all the while is listed, whichever of its routes
\* were refused, failed to be read or changed; and every method that is listed has a
\* route that could serve, unless its account changed under way.
ListedMethodsRoute ==
  Over("discover") =>
    /\ \A i \in walk.steady : \E r \in walk.found : Lane(r) = routes[i].lane
    /\ \A r \in walk.found : r.route \in walk.could

\* "returns the fee for amount, rounded half-up" and "avoids overflowing" (charges.go:76 and
\* 88): a payment is charged the exact fee, whatever its amount and the rate.  It does not
\* depend on the walk, after which the account's fee and the app's are computed
\* (orchestrator.go:126, 155-159).
ChargedExactly == Over("select") /\ walk.found # {} => FeesExact
===============================================================================
