----------------------------- MODULE Access_proofs -----------------------------
(***************************************************************************)
(* What the run of Access checks for two requests, two administrators and  *)
(* one custom role, proved for any number of each: what the seeded roles   *)
(* reach, that a role that is held exists, and that someone who assigns    *)
(* roles remains.                                                          *)
(***************************************************************************)
EXTENDS Access, TLAPS

-------------------------------------------------------------------------------
(* The inductive invariant.                                                *)

\* A seeded role is as it was seeded: no handler writes one.
SeededInv ==
  \A n \in ToSet(SystemRoles) : role[n] # None =>
    role[n] = [id |-> SystemId, system |-> TRUE, grants |-> SystemGrants(n)]

\* A request that has read its role with customRole names one that operators made.
NamesCustom(c) ==
  At(c, "UpdateRole", "write") \/ \E s \in {"count", "clear", "write"} : At(c, "DeleteRole", s)

CustomInv == \A c \in Clients : NamesCustom(c) => req[c].name \in CustomRoles

\* A deletion that has counted the holders of its role has none, but those who got the
\* role since.
Counted(c) == At(c, "DeleteRole", "clear") \/ At(c, "DeleteRole", "write")

CountedInv ==
  \A c \in Clients : Counted(c) =>
    \A u \in Users \ overtaken : admin[u] # None => admin[u].role # req[c].name

\* A change of role that goes on is somebody else's.
OthersInv ==
  \A c \in Clients : At(c, "ChangeAdminRole", "write") => req[c].actor # req[c].target

AInv == TypeOK /\ SeededInv /\ CustomInv /\ CountedInv /\ HeldRolesExist /\ OthersInv

-------------------------------------------------------------------------------

(* The catalogue and the routes.                                           *)

LEMMA SystemNames == ToSet(SystemRoles) = {"super_admin", "operations", "read_only"}
<1>1. DOMAIN SystemRoles = {1, 2, 3}
  BY DEF SystemRoles
<1>2. ToSet(SystemRoles) = {SystemRoles[i] : i \in {1, 2, 3}}
  BY <1>1 DEF ToSet
<1>3. SystemRoles[1] = "super_admin" /\ SystemRoles[2] = "operations" /\ SystemRoles[3] = "read_only"
  BY DEF SystemRoles
<1> QED
  BY <1>2, <1>3

\* Which codes there are, resource by resource.
LEMMA AdminCode ==
  ASSUME NEW resource, NEW actions, NEW a \in actions,
         Listed("admin", resource, actions) \subseteq Permissions
  PROVE  Code(resource, a) \in CodesFor("admin")
<1> DEFINE p == [audience |-> "admin", code |-> Code(resource, a)]
<1>1. p \in Permissions
  BY DEF Listed
<1> QED
  BY <1>1 DEF CodesFor

LEMMA ListedCodes ==
  /\ \A r \in {"system", "transactions", "audit", "balances"} : Code(r, "read") \in CodesFor("admin")
  /\ \A r \in {"users", "roles", "apps", "credentials", "providers", "routes"} :
       \A a \in {"read", "create", "update"} : Code(r, a) \in CodesFor("admin")
  /\ Code("roles", "delete") \in CodesFor("admin")
  /\ Code("providers", "test") \in CodesFor("admin")
<1>1. /\ Listed("admin", "system", {"read"}) \subseteq Permissions
      /\ Listed("admin", "transactions", {"read"}) \subseteq Permissions
      /\ Listed("admin", "audit", {"read"}) \subseteq Permissions
      /\ Listed("admin", "balances", {"read"}) \subseteq Permissions
  BY DEF Permissions
<1>2. /\ Listed("admin", "users", {"read", "create", "update"}) \subseteq Permissions
      /\ Listed("admin", "roles", {"read", "create", "update", "delete"}) \subseteq Permissions
      /\ Listed("admin", "apps", {"read", "create", "update", "test"}) \subseteq Permissions
      /\ Listed("admin", "credentials", {"read", "create", "update"}) \subseteq Permissions
      /\ Listed("admin", "providers", {"read", "create", "update", "test"}) \subseteq Permissions
      /\ Listed("admin", "routes", {"read", "create", "update"}) \subseteq Permissions
  BY DEF Permissions
<1>3. \A r \in {"system", "transactions", "audit", "balances"} : Code(r, "read") \in CodesFor("admin")
  BY <1>1, AdminCode
<1>4. \A r \in {"users", "roles", "apps", "credentials", "providers", "routes"} :
        \A a \in {"read", "create", "update"} : Code(r, a) \in CodesFor("admin")
  BY <1>2, AdminCode
<1>5. Code("roles", "delete") \in CodesFor("admin") /\ Code("providers", "test") \in CodesFor("admin")
  BY <1>2, AdminCode
<1> QED
  BY <1>3, <1>4, <1>5

\* A code is two strings, and none is the wildcard or the empty one.
LEMMA CodeShape ==
  ASSUME NEW audience, NEW c \in CodesFor(audience)
  PROVE  c = Code(c.resource, c.action) /\ c.action # "*" /\ c.action # ""
<1>1. PICK p \in Permissions : c = p.code
  BY DEF CodesFor
<1>2. PICK audience1, resource, actions :
        /\ p \in Listed(audience1, resource, actions)
        /\ actions \subseteq {"read", "create", "update", "delete", "test"}
  BY <1>1 DEF Permissions
<1>3. PICK a \in {"read", "create", "update", "delete", "test"} :
        p = [audience |-> audience1, code |-> Code(resource, a)]
  BY <1>2 DEF Listed
<1>4. c = [resource |-> resource, action |-> a]
  BY <1>1, <1>3 DEF Code
<1>5. c.resource = resource /\ c.action = a
  BY <1>4
<1> QED
  BY <1>4, <1>5 DEF Code

LEMMA WildcardIsNoCode == \A audience : Wildcard \notin CodesFor(audience)
<1>1. Wildcard.action = "*"
  BY DEF Wildcard, Code
<1> QED
  BY <1>1, CodeShape

LEMMA UnaskedIsNoCode == \A audience : Unasked \notin CodesFor(audience)
<1>1. Unasked.action = ""
  BY DEF Unasked, Code
<1> QED
  BY <1>1, CodeShape

\* Every route that names a permission asks for a code of the catalogue, and reads exactly
\* when it is a GET.
Proper(r) ==
  /\ r.permission \in CodesFor("admin")
  /\ r.method = "GET" <=> r.permission.action = "read"

LEMMA ReadsProper ==
  ASSUME NEW resource, Code(resource, "read") \in CodesFor("admin"), NEW handlers
  PROVE  \A r \in Reads(resource, handlers) : Proper(r)
  BY DEF Reads, Route, Proper, Code

LEMMA RouteProper ==
  ASSUME NEW resource, NEW action, Code(resource, action) \in CodesFor("admin"),
         NEW method, NEW handler, method = "GET" <=> action = "read"
  PROVE  Proper(Route(method, handler, resource, action))
  BY DEF Route, Proper, Code

LEMMA RoutesProper == \A r \in AdminRoutes \ BearerOnly : Proper(r)
<1> SUFFICES ASSUME NEW r \in AdminRoutes \ BearerOnly PROVE Proper(r)
  OBVIOUS
<1>1. CASE \E resource, handlers :
             /\ r \in Reads(resource, handlers)
             /\ resource \in {"system", "transactions", "audit", "balances", "users", "roles",
                              "apps", "credentials", "providers", "routes"}
  BY <1>1, ReadsProper, ListedCodes
<1>2. CASE \E method, handler, resource, action :
             /\ r = Route(method, handler, resource, action)
             /\ method # "GET" /\ action # "read"
             /\ \/ /\ resource \in {"users", "roles", "apps", "credentials", "providers", "routes"}
                   /\ action \in {"create", "update"}
                \/ resource = "roles" /\ action = "delete"
                \/ resource = "providers" /\ action = "test"
  BY <1>2, RouteProper, ListedCodes
<1>3. r \in UNION {
        Reads("roles", {"ListPermissions", "ListRoles"}),
        Reads("transactions", {"ListTransactions", "TransactionAnalytics"}),
        Reads("audit", {"ListAuditLogs"}), Reads("system", {"SystemInfo", "SystemHealth", "Workers"}),
        Reads("users", {"ListAdmins"}), Reads("apps", {"ListApps", "GetApp"}),
        Reads("credentials", {"ListCredentials"}),
        Reads("providers", {"ListProviders", "ProviderRegistry", "GetProviderAccount",
                            "ListProviderHealth", "RuntimeProviders"}),
        Reads("balances", {"ActiveProviderBalances", "ProviderBalance"}),
        Reads("routes", {"ListRoutes"})}
      => \E resource, handlers :
             /\ r \in Reads(resource, handlers)
             /\ resource \in {"system", "transactions", "audit", "balances", "users", "roles",
                              "apps", "credentials", "providers", "routes"}
  OBVIOUS
<1> QED
  BY <1>1, <1>2, <1>3 DEF AdminRoutes

\* BearerOnly is let through for whoever asks, and the others for those who are granted
\* the code.
LEMMA BearerRoutes ==
  /\ BearerOnly \subseteq AdminRoutes
  /\ \A held : \A r \in AdminRoutes :
       LetsThrough(held, r.permission) <=> r \in BearerOnly \/ granted(held, r.permission)
<1>1. BearerOnly \subseteq AdminRoutes
  BY DEF AdminRoutes
<1>2. \A r \in BearerOnly : r.permission = Unasked
  <2>1. \A method, handler : Route(method, handler, "", "").permission = Unasked
    BY DEF Route, Unasked, Code
  <2> QED
    BY <2>1 DEF BearerOnly
<1>3. \A r \in AdminRoutes \ BearerOnly : r.permission # Unasked
  BY RoutesProper, UnaskedIsNoCode DEF Proper
<1> QED
  BY <1>1, <1>2, <1>3 DEF LetsThrough

LEMMA AppRoutesListed == {r.permission : r \in AppRoutes} \subseteq AppScopes
<1>1. ASSUME NEW resource, NEW a, Listed("app", resource, {a}) \subseteq Permissions
      PROVE  Code(resource, a) \in AppScopes
  <2> DEFINE p == [audience |-> "app", code |-> Code(resource, a)]
  <2>1. p \in Permissions
    BY <1>1 DEF Listed
  <2> QED
    BY <2>1 DEF CodesFor, AppScopes
<1>2. /\ Listed("app", "collections", {"create"}) \subseteq Permissions
      /\ Listed("app", "disbursements", {"create"}) \subseteq Permissions
      /\ Listed("app", "transactions", {"read"}) \subseteq Permissions
  BY DEF Permissions
<1>3. /\ Code("collections", "create") \in AppScopes
      /\ Code("disbursements", "create") \in AppScopes
      /\ Code("transactions", "read") \in AppScopes
  BY <1>1, <1>2
<1> QED
  BY <1>3 DEF AppRoutes, Route

\* The wildcard is granted alone, and the other seeded roles hold no wildcard.
LEMMA SeededGrants ==
  /\ SystemGrants("super_admin") = {Wildcard}
  /\ SystemGrants("operations") = adminReadPermissions
  /\ SystemGrants("read_only") = adminReadPermissions \ {Code("balances", "read")}
  /\ Wildcard \notin adminReadPermissions
  /\ \A n \in ToSet(SystemRoles) : /\ resolve(SystemGrants(n)) = SystemGrants(n)
                                   /\ SystemGrants(n) \subseteq AllCodes
<1>1. /\ SystemGrants("super_admin") = {Wildcard}
      /\ SystemGrants("operations") = adminReadPermissions
      /\ SystemGrants("read_only") = adminReadPermissions \ {Code("balances", "read")}
  BY DEF SystemGrants
<1>2. Wildcard \notin adminReadPermissions /\ adminReadPermissions \subseteq AllCodes
  BY WildcardIsNoCode DEF adminReadPermissions, AllCodes
<1>3. ASSUME NEW n \in ToSet(SystemRoles)
      PROVE  resolve(SystemGrants(n)) = SystemGrants(n) /\ SystemGrants(n) \subseteq AllCodes
  <2>1. CASE n = "super_admin"
    BY <1>1, <2>1 DEF resolve, AllCodes
  <2>2. CASE n = "operations"
    BY <1>1, <1>2, <2>2 DEF resolve
  <2>3. CASE n = "read_only"
    BY <1>1, <1>2, <2>3 DEF resolve
  <2> QED
    BY <2>1, <2>2, <2>3, SystemNames
<1> QED
  BY <1>1, <1>2, <1>3

\* What the seeded roles reach while they are as they were seeded.
LEMMA SeededReach ==
  ASSUME AInv
  PROVE  SystemRolesReach
<1>1. \A n \in ToSet(SystemRoles) :
        role[n] # None => EffectivePermissions(n) = SystemGrants(n)
  <2> SUFFICES ASSUME NEW n \in ToSet(SystemRoles), role[n] # None
               PROVE  role[n].grants = SystemGrants(n)
    BY DEF EffectivePermissions
  <2>1. role[n] = [id |-> SystemId, system |-> TRUE, grants |-> SystemGrants(n)]
    BY DEF AInv, SeededInv
  <2> QED
    BY <2>1
<1>2. {r.permission : r \in AdminRoutes \ BearerOnly} \subseteq CodesFor("admin")
  BY RoutesProper DEF Proper
<1>3. role["super_admin"] # None => Reaches("super_admin") = AdminRoutes
  BY <1>1, SystemNames, SeededGrants DEF Reaches, LetsThrough, granted
<1>4. \A r \in AdminRoutes \ BearerOnly :
        r.permission \in adminReadPermissions <=> r.method = "GET"
  BY RoutesProper DEF Proper, adminReadPermissions
<1>5. role["operations"] # None => Reaches("operations") = ReadRoutes \cup BearerOnly
  <2> SUFFICES ASSUME role["operations"] # None, NEW r \in AdminRoutes \ BearerOnly
               PROVE  granted(EffectivePermissions("operations"), r.permission)
                        <=> r.method = "GET"
    BY BearerRoutes DEF Reaches, ReadRoutes
  <2> QED
    BY <1>1, <1>4, SystemNames, SeededGrants DEF granted
<1>6. \A r \in AdminRoutes \ BearerOnly : r.method = "GET" =>
        (r.permission = Code("balances", "read") <=> r.permission.resource = "balances")
  <2> SUFFICES ASSUME NEW r \in AdminRoutes \ BearerOnly, r.method = "GET"
               PROVE  r.permission = Code("balances", "read") <=> r.permission.resource = "balances"
    OBVIOUS
  <2>1. r.permission \in CodesFor("admin") /\ r.permission.action = "read"
    BY RoutesProper DEF Proper
  <2>2. r.permission = Code(r.permission.resource, "read")
    BY <2>1, CodeShape
  <2>3. Code("balances", "read").resource = "balances"
    BY DEF Code
  <2> QED
    BY <2>2, <2>3
<1>7. role["read_only"] # None =>
        Reaches("read_only") =
          {r \in ReadRoutes : r.permission.resource # "balances"} \cup BearerOnly
  <2> SUFFICES ASSUME role["read_only"] # None, NEW r \in AdminRoutes \ BearerOnly
               PROVE  granted(EffectivePermissions("read_only"), r.permission)
                        <=> r.method = "GET" /\ r.permission.resource # "balances"
    BY BearerRoutes DEF Reaches, ReadRoutes
  <2>1. granted(EffectivePermissions("read_only"), r.permission)
          <=> r.permission \in adminReadPermissions /\ r.permission # Code("balances", "read")
    BY <1>1, SystemNames, SeededGrants DEF granted
  <2> QED
    BY <1>4, <1>6, <2>1
<1> QED
  BY <1>2, <1>3, <1>5, <1>7, AppRoutesListed DEF SystemRolesReach

-------------------------------------------------------------------------------
(* Types, and what a step of a request leaves of it.                       *)

LEMMA RequestType ==
  ASSUME TypeOK, NEW c \in Clients, req[c] # Idle
  PROVE  req[c] \in Requests
  BY DEF TypeOK

LEMMA Busy == \A r \in Requests : r # Idle
<1>1. \A r \in Requests : r.next # "idle"
  BY DEF Requests
<1>2. Idle.next = "idle"
  BY DEF Idle
<1> QED
  BY <1>1, <1>2

LEMMA Advance ==
  ASSUME TypeOK, NEW c \in Clients, req[c] # Idle,
         NEW s \in {"read", "count", "clear", "write"}, Go(c, s)
  PROVE  /\ req' \in [Clients -> Requests \cup {Idle}]
         /\ \A d \in Clients : d # c => req'[d] = req[d]
         /\ req'[c] # Idle /\ req'[c].next = s
         /\ req'[c].handler = req[c].handler /\ req'[c].name = req[c].name
         /\ req'[c].actor = req[c].actor /\ req'[c].target = req[c].target
<1>1. req[c] \in Requests
  BY RequestType
<1>2. req'[c] = [req[c] EXCEPT !.next = s] /\ \A d \in Clients : d # c => req'[d] = req[d]
  BY DEF Go, TypeOK
<1>3. /\ req'[c] \in Requests /\ req'[c].next = s
      /\ req'[c].handler = req[c].handler /\ req'[c].name = req[c].name
      /\ req'[c].actor = req[c].actor /\ req'[c].target = req[c].target
  BY <1>1, <1>2 DEF Requests
<1>4. req' \in [Clients -> Requests \cup {Idle}]
  BY <1>2, <1>3 DEF Go, TypeOK
<1> QED
  BY <1>2, <1>3, <1>4, Busy

LEMMA Ending ==
  ASSUME TypeOK, NEW c \in Clients, Done(c)
  PROVE  /\ req' \in [Clients -> Requests \cup {Idle}]
         /\ req'[c] = Idle /\ \A d \in Clients : d # c => req'[d] = req[d]
  BY DEF Done, TypeOK

\* ReadRole keeps the id of the row with the request.
LEMMA Reading ==
  ASSUME TypeOK, NEW c \in Clients, ReadRole(c)
  PROVE  /\ req' \in [Clients -> Requests \cup {Idle}]
         /\ \A d \in Clients : d # c => req'[d] = req[d]
         /\ req'[c] # Idle /\ req'[c].next \in {"count", "write"}
         /\ req'[c].next = "write" => req[c].handler = "UpdateRole"
         /\ req'[c].handler = req[c].handler /\ req'[c].name = req[c].name
         /\ req[c].handler \in {"UpdateRole", "DeleteRole"}
         /\ req[c].name \in RoleNames /\ Role(c) \in Roles /\ ~Role(c).system
<1> DEFINE s == IF At(c, "UpdateRole", "read") THEN "write" ELSE "count"
<1>0. req[c] \in Requests /\ req[c].handler \in {"UpdateRole", "DeleteRole"}
  BY RequestType DEF ReadRole, At
<1>1. req[c].name \in RoleNames /\ Role(c) \in Roles /\ ~Role(c).system
  BY <1>0 DEF ReadRole, customRole, Role, TypeOK, Requests
<1>2. Role(c).id \in 0 .. MaxRoles
  BY <1>1 DEF Roles
<1>3. s \in {"count", "write"} /\ (s = "write" => req[c].handler = "UpdateRole")
  BY DEF At
<1> HIDE DEF s
<1>4. req' = [req EXCEPT ![c].id = Role(c).id, ![c].next = s]
  BY DEF ReadRole, s
<1>5. /\ req'[c] = [req[c] EXCEPT !.id = Role(c).id, !.next = s]
      /\ \A d \in Clients : d # c => req'[d] = req[d]
      /\ req' = [req EXCEPT ![c] = req'[c]]
  BY <1>4 DEF TypeOK
<1>6. /\ req'[c] \in Requests /\ req'[c].next = s
      /\ req'[c].handler = req[c].handler /\ req'[c].name = req[c].name
  BY <1>0, <1>2, <1>3, <1>5 DEF Requests
<1>7. req' \in [Clients -> Requests \cup {Idle}]
  BY <1>5, <1>6 DEF TypeOK
<1> QED
  BY <1>0, <1>1, <1>3, <1>5, <1>6, <1>7, Busy

LEMMA Resolved ==
  ASSUME TypeOK, NEW c \in Clients, req[c] # Idle
  PROVE  /\ resolve(req[c].codes) \subseteq AllCodes
         /\ req[c].name \in RoleNames /\ req[c].target \in Users /\ req[c].actor \in Users
<1> req[c] \in Requests
  BY RequestType
<1> req[c].codes \in SUBSET AllCodes
  BY AccessAssumption DEF Requests
<1> QED
  BY DEF resolve, Requests

LEMMA AccessTypeInit == Init => TypeOK
  BY DEF Init, TypeOK

LEMMA BootType ==
  ASSUME TypeOK, Boot
  PROVE  TypeOK'
<1>1. CASE Start
  BY <1>1 DEF Start, tables, TypeOK
<1>2. CASE SeedPermissions
  <2>1. SystemRoles[1] \in ToSet(SystemRoles)
    BY SystemNames DEF SystemRoles
  <2>2. CodesFor("admin") \subseteq AllCodes /\ adminReadPermissions \subseteq AllCodes
    BY DEF AllCodes, adminReadPermissions
  <2> QED
    BY <1>2, <2>1, <2>2 DEF SeedPermissions, TypeOK
<1>3. CASE seedRole
  <2>1. booting \in ToSet(SystemRoles) /\ booting \in RoleNames
    BY <1>3 DEF seedRole, RoleNames
  <2>2. resolve(SystemGrants(booting)) \subseteq AllCodes
    BY <2>1, SeededGrants
  <2>3. [id |-> SystemId, system |-> TRUE, grants |-> resolve(SystemGrants(booting))] \in Roles
    BY <2>2, AccessAssumption DEF Roles, SystemId
  <2>4. role' \in [RoleNames -> Roles \cup {None}]
    BY <1>3, <2>1, <2>3 DEF seedRole, TypeOK
  <2>5. After(booting) \in {None} \cup ToSet(SystemRoles)
    <3>1. DOMAIN SystemRoles = 1 .. 3 /\ Len(SystemRoles) = 3
      BY DEF SystemRoles
    <3>2. PICK i \in DOMAIN SystemRoles : SystemRoles[i] = booting
      BY <2>1 DEF ToSet
    <3> DEFINE j == CHOOSE k \in DOMAIN SystemRoles : SystemRoles[k] = booting
    <3>3. j \in 1 .. 3
      BY <3>1, <3>2
    <3>4. \A k \in 1 .. 3 : SystemRoles[k] \in ToSet(SystemRoles)
      BY <3>1 DEF ToSet
    <3>5. After(booting) = IF j = 3 THEN None ELSE SystemRoles[j + 1]
      BY <3>1 DEF After
    <3> HIDE DEF j
    <3>6. j # 3 => j + 1 \in 1 .. 3
      BY <3>3
    <3> QED
      BY <3>4, <3>5, <3>6
  <2> QED
    BY <1>3, <2>2, <2>4, <2>5 DEF seedRole, TypeOK
<1>4. CASE BootFails
  BY <1>4 DEF BootFails, tables, TypeOK
<1>5. ASSUME NEW u \in Users, SeedAdmin(u) PROVE TypeOK'
  <2>1. [role |-> "super_admin", active |-> TRUE] \in Admins
    BY SystemNames DEF Admins, RoleNames
  <2> QED
    BY <1>5, <2>1 DEF SeedAdmin, TypeOK
<1> QED
  BY <1>1, <1>2, <1>3, <1>4, <1>5 DEF Boot

LEMMA HandleType ==
  ASSUME TypeOK, NEW c \in Clients, Handle(c)
  PROVE  TypeOK'
<1>0. req[c] # Idle
  BY DEF Handle, CreateRole, ReadRole, UpdateRole, CountHolders, ClearPermissions, DeleteRole,
         RoleExists, CreateAdminUser, ChangeRole, ChangeStatus, At
<1>1. /\ resolve(req[c].codes) \subseteq AllCodes
      /\ req[c].name \in RoleNames /\ req[c].target \in Users
  BY <1>0, Resolved
<1>2. CASE CreateRole(c)
  <2>1. created + 1 \in 0 .. MaxRoles
    BY <1>2, AccessAssumption DEF CreateRole, TypeOK
  <2>2. [id |-> created + 1, system |-> FALSE, grants |-> resolve(req[c].codes)] \in Roles
    BY <1>1, <2>1 DEF Roles
  <2>3. role' \in [RoleNames -> Roles \cup {None}]
    BY <1>1, <1>2, <2>2 DEF CreateRole, TypeOK
  <2> QED
    BY <1>1, <1>2, <2>3, Ending DEF CreateRole, TypeOK
<1>3. CASE ReadRole(c)
  BY <1>3, Reading DEF ReadRole, tables, TypeOK
<1>4. CASE UpdateRole(c)
  <2>1. role[req[c].name] \in Roles
    BY <1>1, <1>4 DEF UpdateRole, Sees, Role, TypeOK
  <2>2. [role[req[c].name] EXCEPT !.grants = resolve(req[c].codes)] \in Roles
    BY <1>1, <2>1 DEF Roles
  <2>3. role' \in [RoleNames -> Roles \cup {None}]
    BY <1>1, <1>4, <2>2 DEF UpdateRole, TypeOK
  <2> QED
    BY <1>1, <1>4, <2>3, Ending DEF UpdateRole, TypeOK
<1>5. CASE CountHolders(c)
  BY <1>0, <1>5, Advance DEF CountHolders, tables, TypeOK
<1>6. CASE ClearPermissions(c)
  <2>1. Sees(c) => [role[req[c].name] EXCEPT !.grants = {}] \in Roles
    BY <1>1 DEF Sees, Role, TypeOK, Roles
  <2>2. role' \in [RoleNames -> Roles \cup {None}]
    BY <1>1, <1>6, <2>1 DEF ClearPermissions, TypeOK
  <2> QED
    BY <1>0, <1>6, <2>2, Advance DEF ClearPermissions, TypeOK
<1>7. CASE DeleteRole(c)
  BY <1>1, <1>7, Ending DEF DeleteRole, TypeOK
<1>8. CASE RoleExists(c)
  BY <1>0, <1>8, Advance DEF RoleExists, tables, TypeOK
<1>9. CASE CreateAdminUser(c)
  <2>1. Fresh(c) \in Admins
    BY <1>1 DEF Fresh, Admins
  <2> QED
    BY <1>1, <1>9, <2>1, Ending DEF CreateAdminUser, Note, TypeOK
<1>10. CASE ChangeRole(c)
  <2>1. [admin[req[c].target] EXCEPT !.role = req[c].name] \in Admins
    BY <1>1, <1>10 DEF ChangeRole, TypeOK, Admins
  <2>2. admin' \in [Users -> Admins \cup {None}]
    BY <1>1, <1>10, <2>1 DEF ChangeRole, TypeOK
  <2> QED
    BY <1>1, <1>10, <2>2, Ending DEF ChangeRole, Note, TypeOK
<1>11. CASE ChangeStatus(c)
  <2>1. PICK s \in BOOLEAN : admin' = [admin EXCEPT ![req[c].target].active = s]
    BY <1>11 DEF ChangeStatus
  <2>2. [admin[req[c].target] EXCEPT !.active = s] \in Admins
    BY <1>1, <1>11 DEF ChangeStatus, TypeOK, Admins
  <2>3. admin' \in [Users -> Admins \cup {None}]
    BY <1>1, <2>1, <2>2 DEF TypeOK
  <2> QED
    BY <1>11, <2>3, Ending DEF ChangeStatus, TypeOK
<1> QED
  BY <1>2, <1>3, <1>4, <1>5, <1>6, <1>7, <1>8, <1>9, <1>10, <1>11 DEF Handle

LEMMA BeginType ==
  ASSUME TypeOK, NEW c \in Clients, NEW u \in Users, NEW t \in Users, NEW r \in AdminRoutes,
         NEW n \in Named, NEW g \in GrantSets, r.handler \in Handlers, Begin(c, u, r, n, g, t)
  PROVE  TypeOK'
<1> DEFINE new ==
       [handler |-> r.handler, actor |-> IF r.handler = "ChangeAdminRole" THEN u ELSE t,
        name |-> n, codes |-> g, target |-> t, id |-> 0, next |-> "read"]
<1>1. new \in Requests
  BY AccessAssumption DEF Requests
<1>2. req' = [req EXCEPT ![c] = new]
  BY DEF Begin
<1> HIDE DEF new
<1>3. req' \in [Clients -> Requests \cup {Idle}]
  BY <1>1, <1>2 DEF TypeOK
<1> QED
  BY <1>3 DEF Begin, tables, TypeOK

-------------------------------------------------------------------------------
(* The seeding.                                                            *)

LEMMA BootKeeps ==
  ASSUME AInv, Boot
  PROVE  AInv'
<1>1. TypeOK'
  BY BootType DEF AInv
<1>2. req' = req /\ overtaken' = overtaken
  BY DEF Boot, Start, SeedPermissions, seedRole, BootFails, SeedAdmin, tables
<1>3. CustomInv' /\ OthersInv'
  BY <1>2 DEF AInv, CustomInv, OthersInv, NamesCustom, At
<1>4. SeededInv'
  <2>1. CASE seedRole
    <3>1. booting \in ToSet(SystemRoles) /\ booting \in RoleNames
      BY <2>1 DEF seedRole, RoleNames
    <3>2. \A n \in RoleNames : role'[n] =
            IF n = booting THEN [id |-> SystemId, system |-> TRUE, grants |-> SystemGrants(n)]
                           ELSE role[n]
      BY <2>1, <3>1, SeededGrants DEF seedRole, AInv, TypeOK
    <3> QED
      BY <3>2 DEF AInv, SeededInv, RoleNames
  <2>2. CASE ~seedRole
    <3> role' = role
      BY <2>2 DEF Boot, Start, SeedPermissions, BootFails, SeedAdmin, tables
    <3> QED
      BY DEF AInv, SeededInv
  <2> QED
    BY <2>1, <2>2
<1>5. \A n \in RoleNames : role[n] # None => role'[n] # None
  <2>1. CASE seedRole
    <3>1. [id |-> SystemId, system |-> TRUE, grants |-> resolve(SystemGrants(booting))] \in Roles
      BY <2>1, SeededGrants, AccessAssumption DEF seedRole, Roles, SystemId
    <3> QED
      BY <2>1, <3>1, AccessAssumption DEF seedRole, AInv, TypeOK
  <2>2. CASE ~seedRole
    BY <2>2 DEF Boot, Start, SeedPermissions, BootFails, SeedAdmin, tables
  <2> QED
    BY <2>1, <2>2
<1>6. CASE admin' = admin
  <2>1. HeldRolesExist'
    <3> SUFFICES ASSUME NEW u \in Users \ overtaken, admin[u] # None PROVE role'[admin[u].role] # None
      BY <1>2, <1>6 DEF HeldRolesExist
    <3> admin[u].role \in RoleNames
      BY DEF AInv, TypeOK, Admins
    <3> QED
      BY <1>5 DEF AInv, HeldRolesExist
  <2>2. CountedInv'
    BY <1>2, <1>6 DEF AInv, CountedInv, Counted, At
  <2> QED
    BY <1>1, <1>3, <1>4, <2>1, <2>2 DEF AInv
<1>7. ASSUME NEW u \in Users, SeedAdmin(u) PROVE AInv'
  <2>1. /\ role' = role /\ role["super_admin"] # None
        /\ \A v \in Users : admin'[v] = IF v = u THEN [role |-> "super_admin", active |-> TRUE]
                                                 ELSE admin[v]
    BY <1>7 DEF SeedAdmin, AInv, TypeOK
  <2>2. [role |-> "super_admin", active |-> TRUE].role = "super_admin"
    OBVIOUS
  <2>3. HeldRolesExist'
    BY <1>2, <2>1, <2>2 DEF AInv, HeldRolesExist
  <2>4. CountedInv'
    <3> SUFFICES ASSUME NEW c \in Clients, Counted(c), NEW v \in Users \ overtaken, admin'[v] # None
                 PROVE  admin'[v].role # req[c].name
      BY <1>2 DEF CountedInv, Counted, At
    <3>1. req[c].name \in CustomRoles
      BY DEF AInv, CustomInv, NamesCustom, Counted
    <3>2. req[c].name # "super_admin"
      BY <3>1, SystemNames, AccessAssumption
    <3> QED
      BY <2>1, <2>2, <3>2 DEF AInv, CountedInv
  <2> QED
    BY <1>1, <1>3, <1>4, <2>3, <2>4 DEF AInv
<1> QED
  BY <1>6, <1>7 DEF Boot, Start, SeedPermissions, seedRole, BootFails, tables

-------------------------------------------------------------------------------
(* The requests.                                                           *)

\* What the invariant says of a request, and that of the others nothing is lost when one
\* moves.
OfRequest(c) ==
  /\ NamesCustom(c) => req[c].name \in CustomRoles
  /\ At(c, "ChangeAdminRole", "write") => req[c].actor # req[c].target
  /\ Counted(c) => \A u \in Users \ overtaken : admin[u] # None => admin[u].role # req[c].name

LEMMA OfRequests == AInv <=> /\ TypeOK /\ SeededInv /\ HeldRolesExist
                             /\ \A c \in Clients : OfRequest(c)
  BY Zenon DEF AInv, CustomInv, OthersInv, CountedInv, OfRequest

LEMMA OtherRequests ==
  ASSUME AInv, NEW c \in Clients, \A d \in Clients : d # c => req'[d] = req[d],
         admin' = admin, overtaken' = overtaken
  PROVE  \A d \in Clients : d # c => OfRequest(d)'
<1> SUFFICES ASSUME NEW d \in Clients, d # c PROVE OfRequest(d)'
  OBVIOUS
<1>1. OfRequest(d)
  BY OfRequests
<1> QED
  BY <1>1 DEF OfRequest, NamesCustom, Counted, At

\* A request that has not read anything yet, or none.
LEMMA Beginner ==
  ASSUME NEW c \in Clients, req'[c] # Idle => req'[c].next = "read"
  PROVE  OfRequest(c)'
  BY DEF OfRequest, NamesCustom, Counted, At

\* Of the roles a handler only writes one that operators made.
LEMMA SeededKept ==
  ASSUME AInv, \A n \in ToSet(SystemRoles) : role'[n] = role[n]
  PROVE  SeededInv'
  BY DEF AInv, SeededInv

LEMMA CustomWritten ==
  ASSUME AInv, NEW n \in CustomRoles, NEW x, role' = [role EXCEPT ![n] = x]
  PROVE  SeededInv'
<1> \A m \in ToSet(SystemRoles) : m \in RoleNames /\ m # n
  BY AccessAssumption DEF RoleNames
<1> QED
  BY SeededKept DEF AInv, TypeOK

LEMMA HeldKept ==
  ASSUME AInv, admin' = admin, overtaken' = overtaken,
         \A n \in RoleNames : role[n] # None => role'[n] # None
  PROVE  HeldRolesExist'
<1> SUFFICES ASSUME NEW u \in Users \ overtaken, admin[u] # None PROVE role'[admin[u].role] # None
  BY DEF HeldRolesExist
<1> admin[u].role \in RoleNames
  BY DEF AInv, TypeOK, Admins
<1> QED
  BY DEF AInv, HeldRolesExist

LEMMA BeginKeeps ==
  ASSUME AInv, NEW c \in Clients, NEW u \in Users, NEW t \in Users, NEW r \in AdminRoutes,
         NEW n \in Named, NEW g \in GrantSets, r.handler \in Handlers, Begin(c, u, r, n, g, t)
  PROVE  AInv'
<1>1. TypeOK'
  BY BeginType DEF AInv
<1>2. req'[c].next = "read" /\ \A d \in Clients : d # c => req'[d] = req[d]
  BY DEF Begin, AInv, TypeOK
<1>3. UNCHANGED <<role, admin, overtaken>>
  BY DEF Begin, tables
<1>4. SeededInv' /\ HeldRolesExist'
  BY <1>3, SeededKept, HeldKept
<1>5. \A d \in Clients : OfRequest(d)'
  BY <1>2, <1>3, Beginner, OtherRequests
<1> QED
  BY <1>1, <1>4, <1>5, OfRequests, Zenon DEF AInv, CustomInv, OthersInv, CountedInv, OfRequest

LEMMA RefuseKeeps ==
  ASSUME AInv, NEW c \in Clients, Refuse(c)
  PROVE  AInv'
<1>1. TypeOK'
  BY Ending DEF Refuse, AInv, TypeOK, tables
<1>2. UNCHANGED <<role, admin, overtaken>>
  BY DEF Refuse, tables
<1>3. SeededInv' /\ HeldRolesExist'
  BY <1>2, SeededKept, HeldKept
<1>4. \A d \in Clients : OfRequest(d)'
  BY <1>2, Ending, Beginner, OtherRequests DEF Refuse, AInv
<1> QED
  BY <1>1, <1>3, <1>4, Zenon DEF AInv, CustomInv, OthersInv, CountedInv, OfRequest

-------------------------------------------------------------------------------
(* The handlers.                                                           *)

LEMMA RoleHandlersKeep ==
  ASSUME AInv, NEW c \in Clients, CreateRole(c) \/ UpdateRole(c) \/ ClearPermissions(c)
  PROVE  SeededInv' /\ HeldRolesExist'
<1>0. req[c] # Idle
  BY DEF CreateRole, UpdateRole, ClearPermissions, At
<1>1. req[c].name \in CustomRoles /\ req[c].name \in RoleNames
  BY DEF AInv, CustomInv, NamesCustom, CreateRole, UpdateRole, ClearPermissions, RoleNames
<1>2. admin' = admin /\ overtaken' = overtaken
  BY DEF CreateRole, UpdateRole, ClearPermissions
<1>3. CASE role' = role
  BY <1>2, <1>3, SeededKept, HeldKept
<1>4. CASE ~(role' = role)
  <2>1. PICK x : role' = [role EXCEPT ![req[c].name] = x]
    <3>1. CASE CreateRole(c)
      BY <3>1 DEF CreateRole
    <3>2. CASE UpdateRole(c)
      BY <3>2 DEF UpdateRole
    <3>3. CASE ClearPermissions(c)
      BY <1>4, <3>3 DEF ClearPermissions
    <3> QED
      BY <3>1, <3>2, <3>3
  <2>2. SeededInv'
    BY <1>1, <2>1, CustomWritten
  <2>3. role'[req[c].name] # None
    <3>1. role'[req[c].name] \in Roles
      <4>1. CASE CreateRole(c)
        <5>1. created + 1 \in 0 .. MaxRoles
          BY <4>1, AccessAssumption DEF CreateRole, AInv, TypeOK
        <5>2. resolve(req[c].codes) \subseteq AllCodes
          BY <1>0, Resolved DEF AInv
        <5> QED
          BY <1>1, <4>1, <5>1, <5>2 DEF CreateRole, AInv, TypeOK, Roles
      <4>2. CASE UpdateRole(c)
        <5>1. role[req[c].name] \in Roles
          BY <1>1, <4>2 DEF UpdateRole, Sees, Role, AInv, TypeOK
        <5>2. resolve(req[c].codes) \subseteq AllCodes
          BY <1>0, Resolved DEF AInv
        <5>3. role'[req[c].name] = [role[req[c].name] EXCEPT !.grants = resolve(req[c].codes)]
          BY <1>1, <4>2 DEF UpdateRole, AInv, TypeOK
        <5> QED
          BY <5>1, <5>2, <5>3 DEF Roles
      <4>3. CASE ClearPermissions(c)
        <5>1. Sees(c)
          BY <1>4, <4>3 DEF ClearPermissions
        <5>2. role[req[c].name] \in Roles
          BY <1>1, <5>1 DEF Sees, Role, AInv, TypeOK
        <5>3. role'[req[c].name] = [role[req[c].name] EXCEPT !.grants = {}]
          BY <1>1, <4>3, <5>1 DEF ClearPermissions, AInv, TypeOK
        <5> QED
          BY <5>2, <5>3 DEF Roles
      <4> QED
        BY <4>1, <4>2, <4>3
    <3> QED
      BY <3>1, AccessAssumption
  <2>4. HeldRolesExist'
    BY <1>1, <1>2, <2>1, <2>3, HeldKept DEF AInv, TypeOK
  <2> QED
    BY <2>2, <2>4
<1> QED
  BY <1>3, <1>4

LEMMA RoleDeleted ==
  ASSUME AInv, NEW c \in Clients, DeleteRole(c)
  PROVE  SeededInv' /\ HeldRolesExist'
<1> DEFINE n == req[c].name
<1>1. n \in CustomRoles /\ Counted(c)
  BY DEF AInv, CustomInv, NamesCustom, Counted, DeleteRole
<1>2. SeededInv'
  BY <1>1, CustomWritten DEF DeleteRole
<1>3. HeldRolesExist'
  <2> SUFFICES ASSUME NEW u \in Users \ overtaken, admin[u] # None PROVE role'[admin[u].role] # None
    BY DEF HeldRolesExist, DeleteRole
  <2>1. admin[u].role # n
    BY <1>1 DEF AInv, CountedInv
  <2>2. admin[u].role \in RoleNames /\ role[admin[u].role] # None
    BY DEF AInv, HeldRolesExist, TypeOK, Admins
  <2> QED
    BY <2>1, <2>2 DEF DeleteRole, AInv, TypeOK
<1> QED
  BY <1>2, <1>3

\* A role is given when it is there and not being deleted, or its holder is noted.
LEMMA RoleGiven ==
  ASSUME AInv, NEW c \in Clients, CreateAdminUser(c) \/ ChangeRole(c)
  PROVE  HeldRolesExist' /\ \A d \in Clients : OfRequest(d)'
<1> DEFINE n == req[c].name
           t == req[c].target
<1>0. n \in RoleNames /\ t \in Users
  BY Resolved DEF AInv, CreateAdminUser, ChangeRole, At
<1>1. /\ role' = role
      /\ \A u \in Users : u # t => admin'[u] = admin[u]
      /\ admin'[t].role = n
  <2>1. CASE CreateAdminUser(c)
    BY <1>0, <2>1 DEF CreateAdminUser, Fresh, AInv, TypeOK
  <2>2. CASE ChangeRole(c)
    <3>1. admin[t] \in Admins
      BY <1>0, <2>2 DEF ChangeRole, AInv, TypeOK
    <3>2. admin'[t] = [admin[t] EXCEPT !.role = n]
      BY <1>0, <2>2 DEF ChangeRole, AInv, TypeOK
    <3>3. admin'[t].role = n
      BY <3>1, <3>2 DEF Admins
    <3> QED
      BY <1>0, <2>2, <3>3 DEF ChangeRole, AInv, TypeOK
  <2> QED
    BY <2>1, <2>2
<1>2. req'[c] = Idle /\ \A d \in Clients : d # c => req'[d] = req[d]
  BY Ending DEF CreateAdminUser, ChangeRole, AInv
<1>3. overtaken' = IF BeingDeleted(n) THEN overtaken \cup {t} ELSE overtaken \ {t}
  BY DEF CreateAdminUser, ChangeRole, Note
<1>4. t \notin overtaken' => role[n] # None /\ \A d \in Clients : Counted(d) => req[d].name # n
  BY <1>3 DEF BeingDeleted, Counted
<1>5. \A u \in Users : u # t /\ u \notin overtaken' => u \notin overtaken
  BY <1>3
<1> HIDE DEF n, t
<1>6. HeldRolesExist'
  <2> SUFFICES ASSUME NEW u \in Users \ overtaken', admin'[u] # None PROVE role[admin'[u].role] # None
    BY <1>1 DEF HeldRolesExist
  <2>1. CASE u = t
    BY <1>1, <1>4, <2>1
  <2>2. CASE u # t
    BY <1>1, <1>5, <2>2 DEF AInv, HeldRolesExist
  <2> QED
    BY <2>1, <2>2
<1>7. ASSUME NEW d \in Clients, d # c PROVE OfRequest(d)'
  <2>1. OfRequest(d)
    BY OfRequests
  <2>2. ASSUME Counted(d), NEW u \in Users \ overtaken', admin'[u] # None
        PROVE  admin'[u].role # req[d].name
    <3>1. CASE u = t
      BY <1>1, <1>4, <2>2, <3>1
    <3>2. CASE u # t
      BY <1>1, <1>5, <2>1, <2>2, <3>2 DEF OfRequest
    <3> QED
      BY <3>1, <3>2
  <2> QED
    BY <1>2, <1>7, <2>1, <2>2 DEF OfRequest, NamesCustom, Counted, At
<1> QED
  BY <1>2, <1>6, <1>7, Beginner

LEMMA StatusChanged ==
  ASSUME AInv, NEW c \in Clients, ChangeStatus(c)
  PROVE  HeldRolesExist' /\ \A d \in Clients : OfRequest(d)'
<1>1. \A u \in Users : (admin'[u] # None => admin[u] # None) /\ (admin'[u] # None => admin'[u].role = admin[u].role)
  <2>1. PICK s \in BOOLEAN : admin' = [admin EXCEPT ![req[c].target].active = s]
    BY DEF ChangeStatus
  <2>2. req[c].target \in Users /\ admin[req[c].target] \in Admins
    BY Resolved DEF ChangeStatus, At, AInv, TypeOK
  <2>3. [admin[req[c].target] EXCEPT !.active = s].role = admin[req[c].target].role
    BY <2>2 DEF Admins
  <2> QED
    BY <2>1, <2>2, <2>3, AccessAssumption DEF AInv, TypeOK
<1>2. role' = role /\ overtaken' = overtaken
  BY DEF ChangeStatus
<1>3. req'[c] = Idle /\ \A d \in Clients : d # c => req'[d] = req[d]
  BY Ending DEF ChangeStatus, AInv
<1>4. HeldRolesExist'
  BY <1>1, <1>2 DEF AInv, HeldRolesExist
<1>5. ASSUME NEW d \in Clients, d # c PROVE OfRequest(d)'
  <2>1. OfRequest(d)
    BY OfRequests
  <2> QED
    BY <1>1, <1>2, <1>3, <1>5, <2>1 DEF OfRequest, NamesCustom, Counted, At
<1> QED
  BY <1>3, <1>4, <1>5, Beginner

LEMMA HandleKeeps ==
  ASSUME AInv, NEW c \in Clients, Handle(c)
  PROVE  AInv'
<1>0. TypeOK' /\ TypeOK
  BY HandleType DEF AInv
<1>1. CASE CreateAdminUser(c) \/ ChangeRole(c) \/ ChangeStatus(c)
  <2>1. SeededInv'
    BY <1>1, SeededKept DEF CreateAdminUser, ChangeRole, ChangeStatus
  <2> QED
    BY <1>0, <1>1, <2>1, RoleGiven, StatusChanged, Zenon
       DEF AInv, CustomInv, OthersInv, CountedInv, OfRequest
<1>2. CASE ~(CreateAdminUser(c) \/ ChangeRole(c) \/ ChangeStatus(c))
  <2>1. UNCHANGED <<admin, overtaken>>
    BY <1>2 DEF Handle, CreateRole, ReadRole, UpdateRole, CountHolders, ClearPermissions,
                DeleteRole, RoleExists, tables
  <2>2. SeededInv' /\ HeldRolesExist'
    <3>1. CASE ReadRole(c) \/ CountHolders(c) \/ RoleExists(c)
      <4> UNCHANGED <<role, admin, overtaken>>
        BY <3>1 DEF ReadRole, CountHolders, RoleExists, tables
      <4> QED
        BY SeededKept, HeldKept
    <3> QED
      BY <1>2, <3>1, RoleHandlersKeep, RoleDeleted DEF Handle
  <2>3. OfRequest(c)' /\ \A d \in Clients : d # c => req'[d] = req[d]
    <3>1. CASE CreateRole(c) \/ UpdateRole(c) \/ DeleteRole(c)
      BY <1>0, <3>1, Ending, Beginner DEF CreateRole, UpdateRole, DeleteRole
    <3>2. CASE ReadRole(c)
      <4>1. req[c].name \in CustomRoles
        <5>1. req[c].name \in RoleNames /\ Role(c) \in Roles /\ ~Role(c).system
          BY <1>0, <3>2, Reading
        <5>2. ASSUME req[c].name \in ToSet(SystemRoles) PROVE FALSE
          <6>1. Role(c) = [id |-> SystemId, system |-> TRUE, grants |-> SystemGrants(req[c].name)]
            BY <5>1, <5>2, AccessAssumption DEF AInv, SeededInv, Role
          <6> QED
            BY <5>1, <6>1
        <5> QED
          BY <5>1, <5>2 DEF RoleNames
      <4>2. ~Counted(c)' /\ ~At(c, "ChangeAdminRole", "write")'
        BY <1>0, <3>2, Reading DEF Counted, At
      <4>3. req'[c].name = req[c].name
        BY <1>0, <3>2, Reading
      <4> QED
        BY <1>0, <3>2, <4>1, <4>2, <4>3, Reading DEF OfRequest
    <3>3. CASE CountHolders(c)
      <4>1. /\ req[c] # Idle /\ req[c].handler = "DeleteRole" /\ HoldersOf(req[c].name) = {}
            /\ req[c].name \in CustomRoles
        BY <3>3 DEF CountHolders, At, AInv, CustomInv, NamesCustom
      <4>2. /\ req'[c].handler = "DeleteRole" /\ req'[c].name = req[c].name
            /\ \A d \in Clients : d # c => req'[d] = req[d]
        BY <1>0, <3>3, <4>1, Advance DEF CountHolders
      <4>3. \A u \in Users : admin[u] # None => admin[u].role # req[c].name
        BY <4>1 DEF HoldersOf
      <4> QED
        BY <2>1, <4>1, <4>2, <4>3 DEF OfRequest, At
    <3>4. CASE ClearPermissions(c)
      <4>1. /\ req[c] # Idle /\ req[c].handler = "DeleteRole" /\ Counted(c)
            /\ req[c].name \in CustomRoles
        BY <3>4 DEF ClearPermissions, At, AInv, CustomInv, NamesCustom, Counted
      <4>2. /\ req'[c].handler = "DeleteRole" /\ req'[c].name = req[c].name
            /\ \A d \in Clients : d # c => req'[d] = req[d]
        BY <1>0, <3>4, <4>1, Advance DEF ClearPermissions
      <4>3. OfRequest(c)
        BY OfRequests
      <4> QED
        BY <2>1, <4>1, <4>2, <4>3 DEF OfRequest, At
    <3>5. CASE RoleExists(c)
      <4>1. /\ req[c] # Idle /\ req[c].handler \in {"CreateAdminUser", "ChangeAdminRole"}
            /\ req[c].handler = "ChangeAdminRole" => req[c].actor # req[c].target
        BY <3>5 DEF RoleExists, At, SomeoneElse
      <4>2. /\ req'[c].handler = req[c].handler
            /\ req'[c].actor = req[c].actor /\ req'[c].target = req[c].target
            /\ \A d \in Clients : d # c => req'[d] = req[d]
        BY <1>0, <3>5, <4>1, Advance DEF RoleExists
      <4> QED
        BY <4>1, <4>2 DEF OfRequest, NamesCustom, Counted, At
    <3> QED
      BY <1>2, <3>1, <3>2, <3>3, <3>4, <3>5 DEF Handle
  <2>4. \A d \in Clients : OfRequest(d)'
    BY <2>1, <2>3, OtherRequests
  <2> QED
    BY <1>0, <2>2, <2>4, Zenon DEF AInv, CustomInv, OthersInv, CountedInv, OfRequest
<1> QED
  BY <1>1, <1>2

LEMMA AccessInit == Init => AInv
<1> SUFFICES ASSUME Init PROVE AInv
  OBVIOUS
<1>1. SeededInv /\ HeldRolesExist
  BY DEF Init, SeededInv, HeldRolesExist, RoleNames
<1>2. CustomInv /\ CountedInv /\ OthersInv
  BY DEF Init, CustomInv, CountedInv, OthersInv, NamesCustom, Counted, At
<1> QED
  BY <1>1, <1>2, AccessTypeInit DEF AInv

LEMMA AccessNext == AInv /\ [Next]_vars => AInv'
<1> SUFFICES ASSUME AInv, [Next]_vars PROVE AInv'
  OBVIOUS
<1>1. ASSUME NEW c \in Clients, Serve(c) PROVE AInv'
  BY <1>1, BeginKeeps, RefuseKeeps, HandleKeeps DEF Serve
<1>2. CASE UNCHANGED vars
  <2>1. TypeOK'
    BY <1>2 DEF vars, AInv, TypeOK
  <2> QED
    BY <1>2, <2>1 DEF vars, AInv, SeededInv, CustomInv, CountedInv, HeldRolesExist, OthersInv,
                      NamesCustom, Counted, At
<1> QED
  BY <1>1, <1>2, BootKeeps DEF Next

LEMMA AccessInvariance == Spec => []AInv
  BY AccessInit, AccessNext, PTL DEF Spec

-------------------------------------------------------------------------------

\* Every variable keeps its type: in particular no role is ever given a code that is not
\* in the administrators' catalogue.
THEOREM AccessTypeCorrect == Spec => []TypeOK
<1>1. AInv => TypeOK
  BY DEF AInv
<1> QED
  BY <1>1, AccessInvariance, PTL

\* Whatever operators do to roles, and however often the process starts, each seeded role
\* reaches exactly the routes it is said to.
THEOREM SeededRolesReach == Spec => []SystemRolesReach
<1>1. AInv => SystemRolesReach
  BY SeededReach
<1> QED
  BY <1>1, AccessInvariance, PTL

\* Nobody holds a role that was deleted, but an administrator who was given it after the
\* deletion had counted its holders.
THEOREM NobodyLosesARole == Spec => []HeldRolesExist
<1>1. AInv => HeldRolesExist
  BY DEF AInv
<1> QED
  BY <1>1, AccessInvariance, PTL

\* A change of role never takes the permission to assign roles from the last one who has
\* it: whoever changes it keeps their own.
THEOREM SomeoneAssigns == Spec => AssignerRemains
<1> DEFINE Remains == \A c \in Clients : ChangeRole(c) /\ MayAssign(req[c].actor)
                                           => (\E u \in Users : MayAssign(u))'
<1>1. AInv => Remains
  <2> SUFFICES ASSUME AInv, NEW c \in Clients, ChangeRole(c), MayAssign(req[c].actor)
               PROVE  \E u \in Users : MayAssign(u)'
    OBVIOUS
  <2>1. PICK a \in Users : a = req[c].actor
    BY Resolved DEF ChangeRole, At, AInv
  <2>2. req[c].target \in Users /\ a # req[c].target
    BY <2>1, Resolved DEF ChangeRole, At, AInv, OthersInv
  <2>3. admin'[a] = admin[a] /\ role' = role
    BY <2>1, <2>2 DEF ChangeRole, AInv, TypeOK
  <2>4. MayAssign(a)'
    BY <2>1, <2>3 DEF MayAssign, HasPermission, EffectivePermissions
  <2> QED
    BY <2>4
<1>2. AInv /\ [Next]_vars => [Remains]_vars
  BY <1>1
<1> QED
  BY <1>2, AccessInvariance, PTL DEF Spec, AssignerRemains
===============================================================================
