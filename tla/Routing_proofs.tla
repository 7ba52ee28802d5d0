----------------------------- MODULE Routing_proofs -----------------------------
(***************************************************************************)
(* What the run of Routing checks for two routes of two lanes and integers *)
(* of eight bits, proved for any number of routes, lanes and accounts, any *)
(* scale and any width: the fees first (Charges), then the walk.           *)
(***************************************************************************)
EXTENDS Routing, WellFoundedInduction, TLAPS

-------------------------------------------------------------------------------
(* The fees.                                                               *)

LEMMA Products ==
  ASSUME NEW a \in Nat, NEW b \in Nat, NEW c \in Nat, a <= b
  PROVE  a * c \in Nat /\ b * c \in Nat /\ a * c <= b * c
<1>1. PICK d \in Nat : b = a + d
  <2> b - a \in Nat /\ b = a + (b - a)
    OBVIOUS
  <2> QED
    OBVIOUS
<1>2. b * c = a * c + d * c
  BY <1>1
<1>3. a * c >= 0 /\ d * c >= 0
  OBVIOUS
<1> QED
  BY <1>2, <1>3

LEMMA Quotient ==
  ASSUME NEW x \in Nat
  PROVE  /\ x \div Scale \in Nat /\ x % Scale \in Nat /\ x % Scale < Scale
         /\ x = (x \div Scale) * Scale + (x % Scale)
<1>0. Scale \in Nat /\ Scale > 0
  BY ChargesAssumption
<1> QED
  BY <1>0

LEMMA Ranges ==
  /\ \A amount \in 0 .. MaxInt : amount >= 0
  /\ \A value \in 0 .. Scale : 0 <= value /\ value <= Scale
  BY ChargesAssumption

LEMMA Fits == \A x \in 0 .. MaxInt : Int64(x) = x
  BY ChargesAssumption DEF Int64

\* Split by the scale, no product leaves the integers, and the rounding of the remainder
\* is that of the whole.
LEMMA PortionExact ==
  ASSUME NEW amount \in 0 .. MaxInt, NEW value \in 0 .. Scale
  PROVE  /\ RoundsHalfUp(Portion(value, amount), value, amount)
         /\ Portion(value, amount) \in 0 .. amount
<1> DEFINE whole == amount \div Scale
           rest  == amount % Scale
           part  == rest * value + Half
           fee   == whole * value + part \div Scale
<1>0. /\ Scale \in Nat \ {0} /\ MaxInt \in Nat /\ amount \in Nat /\ value \in Nat
      /\ value <= Scale /\ amount <= MaxInt
      /\ Half \in Nat /\ Half < Scale /\ Scale * Scale + Scale <= MaxInt
  BY ChargesAssumption DEF Half
<1>1. /\ whole \in Nat /\ rest \in Nat /\ rest < Scale
      /\ amount = whole * Scale + rest
  BY <1>0, Quotient
<1> HIDE DEF whole, rest
<1>2. /\ whole * value \in Nat /\ value * whole <= Scale * whole
      /\ rest * value \in Nat /\ value * rest <= Scale * rest /\ rest * Scale <= Scale * Scale
  BY <1>0, <1>1, Products
<1>3. part \in Nat /\ part < (rest + 1) * Scale /\ part <= MaxInt
  BY <1>0, <1>1, <1>2
<1>4. /\ part \div Scale \in Nat
      /\ (part \div Scale) * Scale <= part /\ part < (part \div Scale + 1) * Scale
  BY <1>0, <1>3, Quotient
<1>5. part \div Scale <= rest
  <2> SUFFICES ASSUME rest + 1 <= part \div Scale PROVE FALSE
    BY <1>1, <1>4
  <2>1. (rest + 1) * Scale <= (part \div Scale) * Scale
    BY <1>0, <1>1, <1>4, Products
  <2> QED
    BY <1>0, <1>1, <1>3, <1>4, <2>1
<1>6. whole * value <= whole * Scale
  BY <1>0, <1>1, <1>2
<1>7. fee \in 0 .. amount
  BY <1>0, <1>1, <1>2, <1>4, <1>5, <1>6
<1>8. Portion(value, amount) = fee
  <2>1. Int64(whole * value) = whole * value
    BY <1>0, <1>1, <1>2, <1>6, Fits
  <2>2. Int64(rest * value) = rest * value /\ Int64(part) = part
    BY <1>0, <1>2, <1>3, Fits
  <2>3. Int64(fee) = fee
    BY <1>0, <1>7, Fits
  <2> QED
    BY <2>1, <2>2, <2>3 DEF Portion, whole, rest
<1>9. amount * value = (whole * value) * Scale + rest * value
  BY <1>0, <1>1
<1>10. fee * Scale = (whole * value) * Scale + (part \div Scale) * Scale
  BY <1>0, <1>1, <1>2, <1>4
<1>11. RoundsHalfUp(fee, value, amount)
  BY <1>0, <1>1, <1>2, <1>3, <1>4, <1>9, <1>10 DEF RoundsHalfUp
<1> QED
  BY <1>7, <1>8, <1>11

\* The fee is exact for every amount and rate the integers hold.
LEMMA ChargesAreExact == FeesExact
<1> SUFFICES ASSUME NEW amount \in 0 .. MaxInt, NEW value \in 0 .. Scale,
                    NEW fee \in calculateCharge(
                      [collection |-> [type |-> "percentage", value |-> value],
                       disbursement |-> [type |-> "", value |-> 0]], "collection", amount)
             PROVE  RoundsHalfUp(fee, value, amount) /\ fee \in 0 .. amount
  BY DEF FeesExact
<1> DEFINE rule == [type |-> "percentage", value |-> value]
<1>1. rule.type = "percentage" /\ rule.value = value
  OBVIOUS
<1>2. fee \in Calculate(Normalize(rule), amount)
  BY DEF calculateCharge, Rule
<1> HIDE DEF rule
<1>3. Normalize(rule) = rule
  BY <1>1 DEF Normalize
<1>4. amount >= 0 /\ 0 <= value /\ value <= Scale
  BY Ranges
<1>5. Valid(rule)
  BY <1>1, <1>4 DEF Valid
<1>6. fee = Portion(value, amount)
  BY <1>1, <1>2, <1>3, <1>4, <1>5 DEF Calculate
<1> QED
  BY <1>6, PortionExact

-------------------------------------------------------------------------------
(* The order of a listing.                                                 *)

LEMMA LeastNatural ==
  ASSUME NEW T, T \subseteq Nat, T # {}
  PROVE  \E x \in T : \A y \in T : x <= y
<1>1. PICK x \in T : \A y \in T : ~ (<<y, x>> \in OpToRel(<, Nat))
  BY NatLessThanWellFounded, WFMin
<1>2. \A y \in T : y < x => <<y, x>> \in OpToRel(<, Nat)
  BY DEF OpToRel
<1>3. \A y \in T : ~ (y < x)
  BY <1>1, <1>2, Zenon
<1>4. \A y \in T : x <= y
  BY <1>3
<1> QED
  BY <1>4

\* Of some routes one is before all others: the order is total, and there are finitely
\* many priorities below any one, and routes older than any one.
LEMMA FirstComesFirst ==
  ASSUME NEW todo, todo \subseteq Listed, todo # {}
  PROVE  First(todo) \in todo /\ \A s \in todo : s = First(todo) \/ Sooner(First(todo), s)
<1>1. \A s \in todo : /\ s.priority \in Nat /\ s.route \in Nat
                      /\ s = [route |-> s.route, priority |-> s.priority]
  BY RoutingAssumption DEF Listed, Numbers
<1>2. PICK p \in {s.priority : s \in todo} : \A q \in {s.priority : s \in todo} : p <= q
  <2> {s.priority : s \in todo} \subseteq Nat /\ {s.priority : s \in todo} # {}
    BY <1>1
  <2> QED
    BY LeastNatural
<1> DEFINE best == {s \in todo : s.priority = p}
<1>3. PICK i \in {s.route : s \in best} : \A j \in {s.route : s \in best} : i <= j
  <2> {s.route : s \in best} \subseteq Nat /\ {s.route : s \in best} # {}
    BY <1>1, <1>2
  <2> QED
    BY LeastNatural
<1>4. PICK r \in todo : r.priority = p /\ r.route = i
  BY <1>3
<1>5. ASSUME NEW s \in todo PROVE s = r \/ Sooner(r, s)
  <2>1. p <= s.priority
    BY <1>2
  <2>2. CASE s.priority = p
    <3>1. i <= s.route
      BY <1>3, <2>2
    <3>2. s.route = i => s = r
      BY <1>1, <1>4, <2>2
    <3> QED
      BY <1>1, <1>4, <2>2, <3>1, <3>2 DEF Sooner
  <2>3. CASE s.priority # p
    BY <1>1, <1>4, <2>1, <2>3 DEF Sooner
  <2> QED
    BY <2>2, <2>3
<1> DEFINE P(x) == x \in todo /\ \A s \in todo : s = x \/ Sooner(x, s)
<1>6. P(r)
  BY <1>5
<1>7. First(todo) = CHOOSE x : P(x)
  BY Zenon DEF First
<1>8. P(CHOOSE x : P(x))
  BY <1>6, Zenon
<1> QED
  BY <1>7, <1>8

-------------------------------------------------------------------------------
(* The walk.  Its inductive invariant: every route that could have served  *)
(* all the while is still to be tried, as it was listed, or answered by    *)
(* one that was found; and no route gets past its reads that was not a     *)
(* candidate when it was listed, if its account has not changed since.     *)

\* A selection has found a route that it tries before this one, a discovery one of its lane.
Answered(i) ==
  \E r \in walk.found :
    /\ Lane(r) = routes[i].lane
    /\ walk.kind = "select" => r = Listing(i) \/ Sooner(r, Listing(i))

SteadyInv ==
  walk # Idle => \A i \in walk.steady :
    i \in DOMAIN routes /\ IsCandidate(i) /\ (Listing(i) \in walk.todo \/ Answered(i))

\* What the reads so far have shown of the route being read, and of one that is selected.
NowInv ==
  walk # Idle /\ walk.step # "account" =>
    LET i == walk.now.route IN
    /\ walk.now \in walk.todo
    /\ walk.kind = "select" => walk.now = First(walk.todo)
    /\ i \notin walk.could => routes[i].account \in fits
    /\ i \notin walk.could /\ walk.step = "health" =>
         routes[i].lane \in serves[routes[i].account] /\ routes[i].account \notin broken

CouldInv ==
  walk # Idle =>
    /\ \A r \in walk.todo : r.route \in walk.could \/ ~IsCandidate(r.route)
    /\ \A r \in walk.found : r.route \in walk.could

\* The routes of a walk are rows, each listed once; those of a selection are of one lane;
\* and one that was found is not tried again.
ListingInv ==
  walk # Idle =>
    /\ \A r \in walk.todo \cup walk.found : r.route \in DOMAIN routes
    /\ \A r, s \in walk.todo : r.route = s.route => r = s
    /\ \A r \in walk.todo, s \in walk.found : r.route # s.route
    /\ walk.kind = "select" =>
         \E lane \in Lanes : \A r \in walk.todo \cup walk.found : Lane(r) = lane

RInv == TypeOK /\ ListingInv /\ SteadyInv /\ NowInv /\ CouldInv

LEMMA Rows ==
  ASSUME TypeOK
  PROVE  /\ DOMAIN routes = 1 .. Len(routes) /\ DOMAIN routes \subseteq Numbers
         /\ \A i \in DOMAIN routes : routes[i] \in RouteRows
  BY RoutingAssumption DEF TypeOK, Numbers

LEMMA Walking ==
  ASSUME TypeOK, walk # Idle
  PROVE  /\ walk \in Walks
         /\ walk.todo \subseteq Listed /\ walk.found \subseteq Listed
         /\ walk.steady \subseteq Numbers /\ walk.could \subseteq Numbers
  BY DEF TypeOK, Walks

LEMMA NoWalkIsIdle == \A w \in Walks : w # Idle
<1>1. \A w \in Walks : w.step # "idle"
  BY DEF Walks
<1>2. Idle.step = "idle"
  BY DEF Idle
<1> QED
  BY <1>1, <1>2

LEMMA ListingFields == \A i : Listing(i).route = i /\ Listing(i).priority = routes[i].priority
  BY DEF Listing

\* Beyond a route of a selection there is none: they are of one lane.
LEMMA NothingBeyond ==
  ASSUME ListingInv, walk # Idle, walk.kind = "select", NEW r \in walk.todo
  PROVE  Beyond(r) = {}
  BY DEF ListingInv, Beyond

\* The route a walk tries next is one that is left, the first if it is a selection.
LEMMA UpcomingLeft ==
  ASSUME TypeOK, walk # Idle, walk.todo # {}, NEW r \in Upcoming
  PROVE  r \in walk.todo /\ (walk.kind = "select" => r = First(walk.todo))
<1>1. First(walk.todo) \in walk.todo
  BY Walking, FirstComesFirst
<1> QED
  BY <1>1 DEF Upcoming, Foremost

LEMMA RoutingInit == Init => RInv
<1> SUFFICES ASSUME Init PROVE RInv
  OBVIOUS
<1>1. routes \in Seq(RouteRows) /\ Len(routes) <= MaxRoutes
  BY RoutingAssumption DEF Init
<1> QED
  BY <1>1 DEF Init, RInv, TypeOK, ListingInv, SteadyInv, NowInv, CouldInv

LEMMA StartKeeps ==
  ASSUME RInv, NEW kind \in {"select", "discover"}, NEW listed \in SUBSET DOMAIN routes,
         kind = "select" => \E lane \in Lanes : \A i \in listed : routes[i].lane = lane,
         StartWalk(kind, listed)
  PROVE  RInv'
<1> DEFINE todo  == {Listing(i) : i \in listed}
           could == {i \in listed : IsCandidate(i)}
<1>1. walk' = [kind |-> kind, step |-> "account", now |-> NoRoute, found |-> {},
               todo |-> todo, steady |-> could, could |-> could]
  BY DEF StartWalk
<1>2. UNCHANGED tables
  BY DEF StartWalk
<1>3. /\ todo \subseteq Listed /\ \A r \in todo : r.route \in listed
      /\ \A r, s \in todo : r.route = s.route => r = s
  <2> SUFFICES ASSUME NEW i \in listed PROVE Listing(i) \in Listed /\ Listing(i).route = i
    OBVIOUS
  <2>1. i \in Numbers /\ routes[i] \in RouteRows
    BY Rows DEF RInv
  <2> QED
    BY <2>1 DEF Listing, Listed, RouteRows
<1>4. could \subseteq Numbers
  BY Rows DEF RInv
<1>5. /\ \A i \in could : i \in DOMAIN routes /\ IsCandidate(i) /\ Listing(i) \in todo
      /\ \A r \in todo : r.route \in could \/ ~IsCandidate(r.route)
  BY <1>3
<1>6. kind = "select" => \E lane \in Lanes : \A r \in todo : Lane(r) = lane
  BY <1>3 DEF Lane
<1> HIDE DEF todo, could
<1>7. walk' \in Walks
  BY <1>1, <1>3, <1>4 DEF Walks
<1>8. TypeOK'
  BY <1>2, <1>7 DEF RInv, TypeOK, tables
<1>9. /\ walk'.kind = kind /\ walk'.step = "account" /\ walk'.todo = todo /\ walk'.found = {}
      /\ walk'.steady = could /\ walk'.could = could
  BY <1>1
<1>10. ListingInv' /\ CouldInv' /\ NowInv' /\ SteadyInv'
  BY <1>2, <1>3, <1>5, <1>6, <1>9
     DEF ListingInv, CouldInv, NowInv, SteadyInv, tables, IsCandidate, Listing, Lane
<1> QED
  BY <1>8, <1>10 DEF RInv

-------------------------------------------------------------------------------
(* The reads.                                                              *)

\* A route that is passed over is not one that could have served all the while.
LEMMA PassedOverKeeps ==
  ASSUME RInv, walk # Idle, UNCHANGED tables, NEW r \in walk.todo,
         NEW steady \in SUBSET walk.steady, r.route \notin steady,
         walk' = [PassedOver(r) EXCEPT !.steady = steady]
  PROVE  RInv'
<1>1. /\ walk' \in Walks /\ walk'.step = "account" /\ walk'.kind = walk.kind
      /\ walk'.todo = walk.todo \ {r} /\ walk'.found = walk.found
      /\ walk'.steady = steady /\ walk'.could = walk.could \ {r.route}
  BY Walking DEF PassedOver, Without, RInv, Walks
<1>2. TypeOK'
  BY <1>1 DEF RInv, TypeOK, tables
<1>3. ListingInv'
  BY <1>1 DEF RInv, ListingInv, tables, Lane
<1>4. SteadyInv'
  <2> SUFFICES ASSUME NEW i \in steady
               PROVE  i \in DOMAIN routes /\ IsCandidate(i)
                      /\ (Listing(i) \in walk.todo \ {r} \/ Answered(i)')
    BY <1>1 DEF SteadyInv, tables, IsCandidate, Listing
  <2>1. Listing(i) # r
    BY ListingFields
  <2>2. Answered(i) => Answered(i)'
    BY <1>1 DEF Answered, tables, Lane, Listing
  <2> QED
    BY <2>1, <2>2 DEF RInv, SteadyInv
<1>5. NowInv'
  BY <1>1 DEF NowInv
<1>6. CouldInv'
  <2>1. \A s \in walk.todo \ {r} : s.route # r.route
    BY DEF RInv, ListingInv
  <2>2. \A s \in walk.found : s.route # r.route
    BY DEF RInv, ListingInv
  <2> QED
    BY <1>1, <2>1, <2>2 DEF RInv, CouldInv, tables, IsCandidate
<1> QED
  BY <1>2, <1>3, <1>4, <1>5, <1>6 DEF RInv

LEMMA NotSteadyPassedOver ==
  ASSUME RInv, walk # Idle, UNCHANGED tables, NEW r \in walk.todo, r.route \notin walk.steady,
         walk' = PassedOver(r)
  PROVE  RInv'
<1>1. PassedOver(r) = [PassedOver(r) EXCEPT !.steady = walk.steady]
  BY Walking DEF PassedOver, RInv, Walks
<1> QED
  BY <1>1, PassedOverKeeps

\* A read that the route passes, and that shows what the next one goes on from.
LEMMA GoesOn ==
  ASSUME RInv, walk # Idle, UNCHANGED tables, NEW r \in walk.todo,
         walk.kind = "select" => r = First(walk.todo),
         NEW step \in {"runtime", "health"}, walk' = [walk EXCEPT !.step = step, !.now = r],
         r.route \notin walk.could => Account(r) \in fits,
         r.route \notin walk.could /\ step = "health" =>
           Lane(r) \in serves[Account(r)] /\ Account(r) \notin broken
  PROVE  RInv'
<1>1. /\ walk' \in Walks /\ walk'.step = step /\ walk'.kind = walk.kind /\ walk'.now = r
      /\ walk'.todo = walk.todo /\ walk'.found = walk.found
      /\ walk'.steady = walk.steady /\ walk'.could = walk.could
  BY Walking DEF RInv, Walks
<1>2. TypeOK'
  BY <1>1 DEF RInv, TypeOK, tables
<1>3. ListingInv' /\ CouldInv'
  BY <1>1 DEF RInv, ListingInv, CouldInv, tables, Lane, IsCandidate
<1>4. SteadyInv'
  <2>1. \A i : Answered(i)' <=> Answered(i)
    BY <1>1 DEF Answered, tables, Lane, Listing
  <2> QED
    BY <1>1, <2>1 DEF RInv, SteadyInv, tables, IsCandidate, Listing
<1>5. NowInv'
  BY <1>1 DEF NowInv, tables, Account, Lane, First, Sooner
<1> QED
  BY <1>2, <1>3, <1>4, <1>5 DEF RInv

\* A route that passes its last read answers for every later one of its lane.
LEMMA PassedKeeps ==
  ASSUME RInv, walk # Idle, walk.step = "health", UNCHANGED tables,
         Account(walk.now) \notin shunned, walk' = Passed(walk.now)
  PROVE  RInv'
<1> DEFINE r == walk.now
<1>0. r \in walk.todo /\ r \in Listed /\ (walk.kind = "select" => r = First(walk.todo))
  BY Walking DEF RInv, NowInv
<1>1. /\ walk' \in Walks /\ walk'.step = "account" /\ walk'.kind = walk.kind
      /\ walk'.todo = Beyond(r) /\ walk'.found = walk.found \cup {r}
      /\ walk'.steady = walk.steady /\ walk'.could = walk.could
  BY <1>0, Walking DEF Passed, Beyond, RInv, Walks
<1>2. TypeOK'
  BY <1>1 DEF RInv, TypeOK, tables
<1>3. /\ Beyond(r) \subseteq walk.todo
      /\ \A s \in walk.todo : s \in Beyond(r) \/ Lane(s) = Lane(r)
      /\ \A s \in Beyond(r) : s.route # r.route
  BY DEF Beyond, Lane
<1> HIDE DEF r
<1>4. ListingInv'
  BY <1>0, <1>1, <1>3 DEF RInv, ListingInv, tables, Lane
<1>5. SteadyInv'
  <2> SUFFICES ASSUME NEW i \in walk.steady
               PROVE  i \in DOMAIN routes /\ IsCandidate(i)
                      /\ (Listing(i) \in Beyond(r) \/ Answered(i)')
    BY <1>1 DEF SteadyInv, tables, IsCandidate, Listing
  <2>1. i \in DOMAIN routes /\ IsCandidate(i) /\ (Listing(i) \in walk.todo \/ Answered(i))
    BY DEF RInv, SteadyInv
  <2>2. Answered(i) => Answered(i)'
    BY <1>1 DEF Answered, tables, Lane, Listing
  <2>3. ASSUME Listing(i) \in walk.todo, Listing(i) \notin Beyond(r) PROVE Answered(i)'
    <3>1. Lane(r) = routes[i].lane
      BY <1>3, <2>3, ListingFields DEF Lane
    <3>2. walk.kind = "select" => r = Listing(i) \/ Sooner(r, Listing(i))
      BY <1>0, <2>3, FirstComesFirst, Walking DEF RInv
    <3> QED
      BY <1>1, <3>1, <3>2 DEF Answered, tables, Lane, Listing
  <2> QED
    BY <2>1, <2>2, <2>3
<1>6. CouldInv'
  <2>1. r.route \in walk.could
    <3> SUFFICES ASSUME r.route \notin walk.could PROVE IsCandidate(r.route)
      BY <1>0 DEF RInv, CouldInv
    <3> QED
      BY DEF r, RInv, NowInv, IsCandidate, Account
  <2> QED
    BY <1>1, <1>3, <2>1 DEF RInv, CouldInv, tables, IsCandidate
<1> QED
  BY <1>1, <1>2, <1>4, <1>5, <1>6 DEF RInv, NowInv

LEMMA WalkKeeps ==
  ASSUME RInv, Walk
  PROVE  RInv'
<1>0. \A r : Account(r) = routes[r.route].account /\ Lane(r) = routes[r.route].lane
  BY DEF Account, Lane
<1>1. ASSUME NEW i \in walk.steady, walk # Idle
      PROVE  /\ routes[i].account \in fits /\ routes[i].lane \in serves[routes[i].account]
             /\ routes[i].account \notin broken /\ routes[i].account \notin shunned
  BY <1>1 DEF RInv, SteadyInv, IsCandidate
<1>2. ASSUME NEW lane \in Lanes, SelectProvider(lane) PROVE RInv'
  BY <1>2, StartKeeps DEF SelectProvider, For
<1>3. ASSUME NEW lanes \in Services \cup {Lanes}, AvailablePaymentMethods(lanes) PROVE RInv'
  BY <1>3, StartKeeps DEF AvailablePaymentMethods, Candidates
<1>4. CASE ReadAccount
  <2>1. PICK r \in Upcoming :
          walk' = IF Account(r) \in fits THEN [walk EXCEPT !.step = "runtime", !.now = r]
                                         ELSE PassedOver(r)
    BY <1>4 DEF ReadAccount
  <2>2. walk # Idle /\ UNCHANGED tables /\ r \in walk.todo
        /\ (walk.kind = "select" => r = First(walk.todo))
    BY <1>4, UpcomingLeft DEF ReadAccount, At, RInv
  <2>3. CASE Account(r) \in fits
    BY <2>1, <2>2, <2>3, GoesOn
  <2>4. CASE Account(r) \notin fits
    BY <1>0, <1>1, <2>1, <2>2, <2>4, NotSteadyPassedOver
  <2> QED
    BY <2>3, <2>4
<1>5. CASE ReadRuntime
  <2> DEFINE r == walk.now
             passes == Lane(r) \in serves[Account(r)] /\ Account(r) \notin broken
  <2>1. /\ walk # Idle /\ UNCHANGED tables /\ r \in walk.todo
        /\ walk.kind = "select" => r = First(walk.todo)
        /\ r.route \notin walk.could => Account(r) \in fits
        /\ walk' = IF passes THEN [walk EXCEPT !.step = "health"] ELSE PassedOver(r)
    BY <1>0, <1>5 DEF ReadRuntime, At, RInv, NowInv
  <2>2. CASE passes
    <3>1. [walk EXCEPT !.step = "health"] = [walk EXCEPT !.step = "health", !.now = r]
      BY <2>1, Walking DEF RInv, Walks
    <3> QED
      BY <2>1, <2>2, <3>1, GoesOn
  <2>3. CASE ~passes
    BY <1>0, <1>1, <2>1, <2>3, NotSteadyPassedOver
  <2> QED
    BY <2>2, <2>3
<1>6. CASE ReadHealth
  <2> DEFINE r == walk.now
  <2>1. /\ walk # Idle /\ walk.step = "health" /\ UNCHANGED tables /\ r \in walk.todo
        /\ walk' = IF Account(r) \notin shunned THEN Passed(r) ELSE PassedOver(r)
    BY <1>6 DEF ReadHealth, At, RInv, NowInv
  <2>2. CASE Account(r) \notin shunned
    BY <2>1, <2>2, PassedKeeps
  <2>3. CASE Account(r) \in shunned
    BY <1>0, <1>1, <2>1, <2>3, NotSteadyPassedOver
  <2> QED
    BY <2>2, <2>3
<1>7. CASE ReadFails
  <2>1. PICK r \in Listed :
          /\ \/ At("account") /\ walk.todo # {} /\ r \in Upcoming
             \/ At("health") /\ r = walk.now
          /\ walk' = [PassedOver(r) EXCEPT !.steady = @ \ {r.route}]
    BY <1>7 DEF ReadFails
  <2>2. walk # Idle /\ UNCHANGED tables /\ r \in walk.todo
    BY <1>7, <2>1, UpcomingLeft DEF ReadFails, At, RInv, NowInv
  <2> DEFINE steady == walk.steady \ {r.route}
  <2>3. walk' = [PassedOver(r) EXCEPT !.steady = steady]
    BY <2>1, <2>2, Walking DEF PassedOver, RInv, Walks
  <2>4. steady \in SUBSET walk.steady /\ r.route \notin steady
    OBVIOUS
  <2> HIDE DEF steady
  <2> QED
    BY <2>2, <2>3, <2>4, PassedOverKeeps
<1>8. CASE EndWalk
  <2>1. TypeOK'
    BY <1>8 DEF EndWalk, RInv, TypeOK, tables
  <2> QED
    BY <1>8, <2>1 DEF EndWalk, RInv, ListingInv, SteadyInv, NowInv, CouldInv
<1> QED
  BY <1>2, <1>3, <1>4, <1>5, <1>6, <1>7, <1>8 DEF Walk

-------------------------------------------------------------------------------
(* What happens to the tables meanwhile.                                   *)

LEMMA CreateKeeps ==
  ASSUME RInv, NEW lane \in Lanes, NEW a \in Accounts, NEW p \in 0 .. MaxPriority,
         CreateRoute(lane, a, p)
  PROVE  RInv'
<1> DEFINE row == [lane |-> lane, account |-> a, priority |-> AtLeastOne(p), active |-> TRUE]
<1>1. AtLeastOne(p) \in 1 .. MaxPriority
  BY RoutingAssumption DEF AtLeastOne
<1>2. row \in RouteRows
  BY <1>1 DEF RouteRows
<1>3. routes' = Append(routes, row) /\ UNCHANGED <<fits, serves, broken, shunned, walk>>
  BY DEF CreateRoute
<1> HIDE DEF row
<1>4. /\ routes' \in Seq(RouteRows) /\ Len(routes') = Len(routes) + 1
      /\ \A i \in DOMAIN routes : i \in DOMAIN routes' /\ routes'[i] = routes[i]
  BY <1>2, <1>3 DEF RInv, TypeOK
<1>5. Len(routes') <= MaxRoutes
  BY <1>4, RoutingAssumption DEF CreateRoute, RInv, TypeOK
<1>6. TypeOK'
  BY <1>3, <1>4, <1>5 DEF RInv, TypeOK
<1>7. ListingInv' /\ NowInv' /\ CouldInv'
  BY <1>3, <1>4 DEF RInv, ListingInv, NowInv, CouldInv, IsCandidate, Lane, First, Sooner
<1>8. SteadyInv'
  <2> SUFFICES ASSUME walk # Idle, NEW i \in walk.steady
               PROVE  i \in DOMAIN routes' /\ IsCandidate(i)'
                      /\ (Listing(i)' \in walk.todo \/ Answered(i)')
    BY <1>3 DEF SteadyInv
  <2>1. i \in DOMAIN routes /\ IsCandidate(i) /\ (Listing(i) \in walk.todo \/ Answered(i))
    BY DEF RInv, SteadyInv
  <2>2. Listing(i)' = Listing(i) /\ IsCandidate(i)'
    BY <1>3, <1>4, <2>1 DEF Listing, IsCandidate
  <2>3. Answered(i) => Answered(i)'
    BY <1>3, <1>4, <2>1, <2>2 DEF Answered, Lane, RInv, ListingInv
  <2> QED
    BY <1>4, <2>1, <2>2, <2>3
<1> QED
  BY <1>6, <1>7, <1>8 DEF RInv

\* What a change leaves: those routes are steady that it left what they were, and the
\* routes to be tried of other accounts are as they were.
LEMMA WatchKeeps ==
  ASSUME RInv, TypeOK', NEW changed \in SUBSET Accounts, Watch(changed),
         DOMAIN routes' = DOMAIN routes,
         \A i \in DOMAIN routes : /\ routes'[i].lane = routes[i].lane
                                  /\ routes'[i].account = routes[i].account,
         \A b \in Accounts \ changed :
           /\ b \in fits' <=> b \in fits
           /\ serves'[b] = serves[b]
           /\ b \in broken' <=> b \in broken
           /\ b \in shunned' <=> b \in shunned
  PROVE  RInv'
<1>1. CASE walk = Idle
  BY <1>1 DEF Watch, RInv, ListingInv, SteadyInv, NowInv, CouldInv
<1>2. CASE walk # Idle
  <2> DEFINE affected == {r.route : r \in {s \in walk.todo : Account(s) \in changed}}
             kept == {i \in walk.steady : /\ IsCandidate(i)' /\ routes'[i].active
                                          /\ routes'[i].priority = routes[i].priority}
  <2>0. walk' = [walk EXCEPT !.steady = kept, !.could = walk.could \cup affected]
    BY <1>2, Walking DEF Watch, RInv, Walks
  <2>kept. \A i \in kept : /\ i \in walk.steady /\ IsCandidate(i)'
                        /\ routes'[i].priority = routes[i].priority
    OBVIOUS
  <2>affected. \A r \in walk.todo : Account(r) \in changed => r.route \in affected
    OBVIOUS
  <2> HIDE DEF affected, kept
  <2>1. /\ walk' # Idle /\ walk'.step = walk.step /\ walk'.kind = walk.kind
        /\ walk'.now = walk.now /\ walk'.todo = walk.todo /\ walk'.found = walk.found
        /\ walk'.could = walk.could \cup affected /\ walk'.steady = kept
    <3>1. walk \in Walks
      BY <1>2, Walking DEF RInv
    <3>2. walk' # Idle
      <4>1. walk' \in Walks \/ walk' = Idle
        BY DEF TypeOK
      <4>2. walk'.step = walk.step /\ walk.step # "idle"
        BY <2>0, <3>1 DEF Walks
      <4> QED
        BY <4>2 DEF Idle
    <3> QED
      BY <2>0, <3>1, <3>2 DEF Walks
  <2>2. \A r \in walk.todo \cup walk.found :
          r.route \in DOMAIN routes /\ Lane(r)' = Lane(r) /\ Account(r)' = Account(r)
    BY <1>2 DEF RInv, ListingInv, Lane, Account
  <2>3. ASSUME NEW r \in walk.todo, r.route \notin walk'.could
        PROVE  /\ Account(r) \in Accounts \ changed /\ r.route \notin walk.could
               /\ routes'[r.route].account = routes[r.route].account
               /\ routes'[r.route].lane = routes[r.route].lane
               /\ IsCandidate(r.route)' <=> IsCandidate(r.route)
    <3>1. r.route \notin walk.could /\ Account(r) \notin changed
      BY <2>1, <2>3, <2>affected
    <3>2. Account(r) \in Accounts
      BY <2>2, Rows DEF Account, RInv, RouteRows
    <3> QED
      BY <2>2, <3>1, <3>2 DEF Account, IsCandidate
  <2>4. ListingInv'
    BY <1>2, <2>1, <2>2 DEF RInv, ListingInv
  <2>5. SteadyInv'
    <3> SUFFICES ASSUME NEW i \in walk'.steady
                 PROVE  i \in DOMAIN routes' /\ IsCandidate(i)'
                        /\ (Listing(i)' \in walk'.todo \/ Answered(i)')
      BY DEF SteadyInv
    <3>1. i \in walk.steady /\ IsCandidate(i)' /\ Listing(i)' = Listing(i)
      BY <2>1, <2>kept DEF Listing
    <3>2. i \in DOMAIN routes /\ (Listing(i) \in walk.todo \/ Answered(i))
      BY <1>2, <3>1 DEF RInv, SteadyInv
    <3>3. Answered(i) => Answered(i)'
      BY <2>1, <2>2, <3>1, <3>2 DEF Answered
    <3> QED
      BY <2>1, <3>1, <3>2, <3>3
  <2>6. NowInv'
    <3> SUFFICES ASSUME walk.step # "account"
                 PROVE  LET i == walk.now.route IN
                        /\ walk.now \in walk.todo
                        /\ walk.kind = "select" => walk.now = First(walk.todo)
                        /\ i \notin walk'.could => routes'[i].account \in fits'
                        /\ i \notin walk'.could /\ walk.step = "health" =>
                             /\ routes'[i].lane \in serves'[routes'[i].account]
                             /\ routes'[i].account \notin broken'
      BY <2>1 DEF NowInv, First, Sooner
    <3> QED
      BY <1>2, <2>3 DEF RInv, NowInv, Account
  <2>7. CouldInv'
    BY <1>2, <2>1, <2>3 DEF RInv, CouldInv
  <2> QED
    BY <2>4, <2>5, <2>6, <2>7 DEF RInv
<1> QED
  BY <1>1, <1>2

LEMMA WatchType ==
  ASSUME RInv, NEW changed, Watch(changed)
  PROVE  walk' = Idle \/ walk' \in Walks
<1>1. CASE walk = Idle
  BY <1>1 DEF Watch
<1>2. CASE walk # Idle
  <2>1. {r.route : r \in {s \in walk.todo : Account(s) \in changed}} \subseteq Numbers
    BY <1>2, Walking DEF RInv, Listed
  <2> QED
    BY <1>2, <2>1, Walking DEF Watch, RInv, Walks
<1> QED
  BY <1>1, <1>2

LEMMA UpdateKeeps ==
  ASSUME RInv, NEW i \in Numbers, NEW p \in 1 .. MaxPriority, NEW b \in BOOLEAN,
         UpdateRoute(i, p, b)
  PROVE  RInv'
<1>0. i \in DOMAIN routes /\ routes[i] \in RouteRows
  BY Rows DEF UpdateRoute, RInv
<1>1. PICK row : row = [routes[i] EXCEPT !.priority = p, !.active = b]
  OBVIOUS
<1>2. row \in RouteRows /\ row.lane = routes[i].lane /\ row.account = routes[i].account
  BY <1>0, <1>1 DEF RouteRows
<1>3. routes' = [routes EXCEPT ![i] = row]
  BY <1>0, <1>1 DEF UpdateRoute, RInv, TypeOK
<1>4. /\ routes' \in Seq(RouteRows) /\ Len(routes') = Len(routes)
      /\ DOMAIN routes' = DOMAIN routes
      /\ \A j \in DOMAIN routes : /\ routes'[j].lane = routes[j].lane
                                  /\ routes'[j].account = routes[j].account
  BY <1>0, <1>2, <1>3 DEF RInv, TypeOK
<1>5. TypeOK'
  BY <1>4, WatchType DEF UpdateRoute, RInv, TypeOK
<1> QED
  BY <1>4, <1>5, WatchKeeps DEF UpdateRoute

LEMMA AccountKeeps ==
  ASSUME RInv, NEW a \in Accounts, AccountChanges(a)
  PROVE  RInv'
<1>1. fits' \subseteq Accounts /\ broken' \subseteq Accounts /\ shunned' \subseteq Accounts
  BY DEF AccountChanges, AccountEdited, CircuitMoves, SnapshotMoves, RuntimeChanges, Flip,
         RInv, TypeOK
<1>2. serves' \in [Accounts -> SUBSET Lanes]
  <2>1. CASE RuntimeChanges(a)
    <3>1. PICK lanes \in SUBSET {offer[1] : offer \in {o \in Offers : o[2] = a}} :
            serves' = [serves EXCEPT ![a] = lanes]
      BY <2>1 DEF RuntimeChanges
    <3>2. lanes \subseteq Lanes
      BY RoutingAssumption
    <3> QED
      BY <3>1, <3>2 DEF RInv, TypeOK
  <2>2. CASE ~RuntimeChanges(a)
    BY <2>2 DEF AccountChanges, AccountEdited, CircuitMoves, SnapshotMoves, RInv, TypeOK
  <2> QED
    BY <2>1, <2>2
<1>3. routes' = routes /\ Watch({a})
  BY DEF AccountChanges
<1>4. TypeOK'
  BY <1>1, <1>2, <1>3, WatchType DEF RInv, TypeOK
<1>5. \A b \in Accounts \ {a} :
        /\ b \in fits' <=> b \in fits
        /\ serves'[b] = serves[b]
        /\ b \in broken' <=> b \in broken
        /\ b \in shunned' <=> b \in shunned
  BY DEF AccountChanges, AccountEdited, CircuitMoves, SnapshotMoves, RuntimeChanges, Flip,
         RInv, TypeOK
<1> QED
  BY <1>3, <1>4, <1>5, WatchKeeps

LEMMA RoutingNext == RInv /\ [Next]_vars => RInv'
<1> SUFFICES ASSUME RInv, [Next]_vars PROVE RInv'
  OBVIOUS
<1>1. CASE Administer
  <2>1. ASSUME NEW offer \in Offers, NEW p \in 0 .. MaxPriority,
               CreateRoute(offer[1], offer[2], p)
        PROVE  RInv'
    <3> offer[1] \in Lanes /\ offer[2] \in Accounts
      BY RoutingAssumption
    <3> QED
      BY <2>1, CreateKeeps
  <2> QED
    BY <1>1, <2>1, UpdateKeeps DEF Administer
<1>2. CASE UNCHANGED vars
  <2>1. TypeOK'
    BY <1>2 DEF vars, tables, RInv, TypeOK
  <2>2. \A i : Answered(i)' <=> Answered(i)
    BY <1>2 DEF vars, tables, Answered, Lane, Listing
  <2> QED
    BY <1>2, <2>1, <2>2 DEF vars, tables, RInv, ListingInv, SteadyInv, NowInv, CouldInv,
                            IsCandidate, Listing, Lane, First, Sooner
<1> QED
  BY <1>1, <1>2, WalkKeeps, AccountKeeps DEF Next

LEMMA RoutingInvariance == Spec => []RInv
  BY RoutingInit, RoutingNext, PTL DEF Spec

-------------------------------------------------------------------------------

\* Every variable keeps its type: no route is stored without a priority, whatever a
\* payload leaves out.
THEOREM RoutingTypeCorrect == Spec => []TypeOK
<1>1. RInv => TypeOK
  BY DEF RInv
<1> QED
  BY <1>1, RoutingInvariance, PTL

\* Of the routes that could have served a payment from the listing on, with the priority
\* they were listed with, none is passed over for a later one, nor is the payment refused
\* while there is one, however many there are and whatever changes meanwhile; and nothing
\* is selected that could not have served it, but for an account that changed under way.
THEOREM SteadyRouteChosen == Spec => []SteadyRouteServes
<1>1. RInv => SteadyRouteServes
  <2> SUFFICES ASSUME RInv, Over("select")
               PROVE  /\ \A i \in walk.steady : \E r \in walk.found :
                           \/ r.priority < routes[i].priority
                           \/ (r.priority = routes[i].priority /\ r.route <= i)
                      /\ \A r \in walk.found : r.route \in walk.could
    BY DEF SteadyRouteServes
  <2>0. walk # Idle /\ walk.todo = {} /\ walk.kind = "select"
    BY DEF Over, At
  <2>1. ASSUME NEW i \in walk.steady
        PROVE  \E r \in walk.found : \/ r.priority < routes[i].priority
                                     \/ (r.priority = routes[i].priority /\ r.route <= i)
    <3>1. Answered(i)
      BY <2>0 DEF RInv, SteadyInv
    <3>2. PICK r \in walk.found : r = Listing(i) \/ Sooner(r, Listing(i))
      BY <2>0, <3>1 DEF Answered
    <3>3. r.route \in Nat /\ i \in Nat /\ r.priority \in Nat
      <4>1. r \in Listed /\ i \in Numbers
        BY <2>0, Walking DEF RInv
      <4> QED
        BY <4>1, RoutingAssumption DEF Listed, Numbers
    <3> QED
      BY <3>2, <3>3, ListingFields DEF Sooner
  <2>2. \A r \in walk.found : r.route \in walk.could
    BY <2>0 DEF RInv, CouldInv
  <2> QED
    BY <2>1, <2>2
<1> QED
  BY <1>1, RoutingInvariance, PTL

\* A method with a route that could have served it from the listing on is listed, whatever
\* became of its other routes; and one that is listed has a route that could serve it, but
\* for an account that changed under way: however many routes, lanes and accounts there
\* are, and in whatever order routes of one priority come.
THEOREM DiscoveryAgrees == Spec => []ListedMethodsRoute
<1>1. RInv => ListedMethodsRoute
  <2> SUFFICES ASSUME RInv, Over("discover")
               PROVE  /\ \A i \in walk.steady : \E r \in walk.found : Lane(r) = routes[i].lane
                      /\ \A r \in walk.found : r.route \in walk.could
    BY DEF ListedMethodsRoute
  <2>0. walk # Idle /\ walk.todo = {}
    BY DEF Over, At
  <2>1. \A i \in walk.steady : Answered(i)
    BY <2>0 DEF RInv, SteadyInv
  <2> QED
    BY <2>0, <2>1 DEF Answered, RInv, CouldInv
<1> QED
  BY <1>1, RoutingInvariance, PTL

\* Whatever is selected, the fee that is charged is the exact one: for every amount, rate,
\* scale and width of the integers.
THEOREM FeesAreExact == Spec => []ChargedExactly
<1>1. ChargedExactly
  BY ChargesAreExact DEF ChargedExactly
<1> QED
  BY <1>1, PTL
===============================================================================
