-------------------------------- MODULE Access --------------------------------
(***************************************************************************)
(* What an administrator or an application may do: the permission          *)
(* catalogue and the seeded roles (domain/permissions.go), the permission  *)
(* each route asks for (http/router.go, http/middleware/auth.go), and the  *)
(* roles and administrators they are resolved from (service/identity/      *)
(* authz.go and admin_user.go).                                            *)
(*                                                                         *)
(* A request is let through by the permissions of its administrator's      *)
(* role, and then makes the queries of its handler one by one.  The        *)
(* catalogue and the system roles are seeded by every start, while other   *)
(* processes may be serving.                                               *)
(***************************************************************************)
EXTENDS Naturals, Sequences, SequencesExt, FiniteSets

CONSTANTS
  Users,        \* administrators that may come to exist
  CustomRoles,  \* names of roles that operators make up
  Clients,      \* requests under way at once; each serves one after another
  Named,        \* bound: the roles that requests name
  GrantSets,    \* bound: the sets of codes that requests ask for
  None,         \* no row
  MaxRoles      \* bound: how many custom roles are created

-------------------------------------------------------------------------------
(* The catalogue and the system roles, as the code has them.               *)

Code(resource, action) == [resource |-> resource, action |-> action]
Wildcard == Code("*", "*")

\* The codes of one resource, for one audience.
Listed(audience, resource, actions) ==
  {[audience |-> audience, code |-> Code(resource, a)] : a \in actions}

Permissions == UNION {
  Listed("admin", "system", {"read"}), Listed("admin", "transactions", {"read"}),
  Listed("admin", "audit", {"read"}), Listed("admin", "users", {"read", "create", "update"}),
  Listed("admin", "roles", {"read", "create", "update", "delete"}),
  Listed("admin", "apps", {"read", "create", "update", "test"}),
  Listed("admin", "credentials", {"read", "create", "update"}),
  Listed("admin", "providers", {"read", "create", "update", "test"}),
  Listed("admin", "balances", {"read"}), Listed("admin", "routes", {"read", "create", "update"}),
  Listed("app", "collections", {"create"}), Listed("app", "disbursements", {"create"}),
  Listed("app", "transactions", {"read"})}

CodesFor(audience) == {p.code : p \in {q \in Permissions : q.audience = audience}}

adminReadPermissions == {c \in CodesFor("admin") : c.action = "read"}

SystemRoles == <<"super_admin", "operations", "read_only">>
SystemGrants(name) ==
  CASE name = "super_admin" -> {Wildcard}
    [] name = "operations"  -> adminReadPermissions
    [] name = "read_only"   -> adminReadPermissions \ {Code("balances", "read")}

\* ValidateAppScopes: what a credential may be given.
AppScopes == CodesFor("app") \cup {Wildcard}

-------------------------------------------------------------------------------
(* The routes: method, handler and the permission it is guarded by.        *)

Route(method, handler, resource, action) ==
  [method |-> method, handler |-> handler, permission |-> Code(resource, action)]
Reads(resource, handlers) == {Route("GET", h, resource, "read") : h \in handlers}

\* These name no permission: any administrator's bearer token is enough.
Unasked    == Code("", "")
BearerOnly == {
  Route("POST", "Logout", "", ""), Route("GET", "Me", "", ""),
  Route("PATCH", "ChangeAdminPassword", "", "")}

AdminRoutes == UNION {
  BearerOnly,
  Reads("roles", {"ListPermissions", "ListRoles"}),
  {Route("POST", "CreateRole", "roles", "create"), Route("PATCH", "UpdateRole", "roles", "update"),
   Route("DELETE", "DeleteRole", "roles", "delete")},
  Reads("transactions", {"ListTransactions", "TransactionAnalytics"}),
  Reads("audit", {"ListAuditLogs"}), Reads("system", {"SystemInfo", "SystemHealth", "Workers"}),
  Reads("users", {"ListAdmins"}),
  {Route("POST", "CreateAdminUser", "users", "create"),
   Route("PATCH", "ChangeAdminStatus", "users", "update"),
   Route("PATCH", "ChangeAdminRole", "users", "update")},
  Reads("apps", {"ListApps", "GetApp"}),
  {Route("POST", "CreateApp", "apps", "create"), Route("PATCH", "UpdateApp", "apps", "update"),
   Route("PATCH", "ChangeAppStatus", "apps", "update")},
  Reads("credentials", {"ListCredentials"}),
  {Route("POST", "CreateCredential", "credentials", "create"),
   Route("PATCH", "RevokeCredential", "credentials", "update"),
   Route("POST", "RotateCredential", "credentials", "update")},
  Reads("providers", {"ListProviders", "ProviderRegistry", "GetProviderAccount",
                      "ListProviderHealth", "RuntimeProviders"}),
  {Route("POST", "CreateProvider", "providers", "create"),
   Route("POST", "TestProvider", "providers", "test")},
  {Route("PATCH", h, "providers", "update") : h \in {"UpdateProviderSettings",
     "UpdateProviderConfig", "ActivateProvider", "DeactivateProvider"}},
  Reads("balances", {"ActiveProviderBalances", "ProviderBalance"}),
  Reads("routes", {"ListRoutes"}),
  {Route("POST", "CreateRoute", "routes", "create"), Route("PATCH", "UpdateRoute", "routes", "update")}}

AppRoutes == {
  Route("POST", "CreateCollection", "collections", "create"),
  Route("POST", "CreateDisbursement", "disbursements", "create"),
  Route("GET", "GetTransactionByReference", "transactions", "read"),
  Route("GET", "GetTransaction", "transactions", "read")}

granted(held, required) == required \in held \/ Wildcard \in held

\* chain: RequirePermission stands before the handlers that name a permission.
LetsThrough(held, required) == required = Unasked \/ granted(held, required)

-------------------------------------------------------------------------------

RoleNames == CustomRoles \cup ToSet(SystemRoles)
AllCodes  == CodesFor("admin") \cup {Wildcard}
SystemId  == 0

\* id tells a role from a later one of the same name; that of a system role stays.
Roles  == [id : 0 .. MaxRoles, system : BOOLEAN, grants : SUBSET AllCodes]
Admins == [role : RoleNames, active : BOOLEAN]

ASSUME AccessAssumption ==
  /\ CustomRoles \cap ToSet(SystemRoles) = {}
  /\ Named \subseteq RoleNames
  /\ GrantSets \subseteq SUBSET AllCodes /\ {} \in GrantSets
  /\ MaxRoles \in Nat
  /\ None \notin Roles /\ None \notin Admins

\* A request under way: its handler, with the role, set of codes and administrator it
\* names, the actor, which only ChangeAdminRole compares, the role that was read, and the
\* query it makes next.
Handlers == {"CreateRole", "UpdateRole", "DeleteRole", "CreateAdminUser",
             "ChangeAdminRole", "ChangeAdminStatus"}

Requests == [handler : Handlers, actor : Users, name : RoleNames, codes : GrantSets,
             target : Users, id : 0 .. MaxRoles, next : {"read", "count", "clear", "write"}]
Idle == [next |-> "idle"]

VARIABLES
  catalogue,  \* the administrators' codes in the permissions table
  role,       \* roles, with their permissions
  admin,      \* admin_users
  booting,    \* what the starting process seeds next: "permissions", a role, or nothing
  created,    \* custom roles created so far
  req,        \* what each client's request is doing
  overtaken   \* history: administrators given a role that was being deleted

vars == <<catalogue, role, admin, booting, created, req, overtaken>>
tables == <<catalogue, role, admin, created, overtaken>>

-------------------------------------------------------------------------------
(* Seed, by every start.                                                   *)

Start ==
  /\ booting = None /\ booting' = "permissions"
  /\ UNCHANGED <<tables, req>>

\* One upsert per code; an interrupted start leaves some of them.
SeedPermissions ==
  /\ booting = "permissions"
  /\ \/ /\ catalogue' = catalogue \cup CodesFor("admin")
        /\ booting' = SystemRoles[1]
     \/ /\ catalogue' = catalogue \cup adminReadPermissions
        /\ booting' = None
  /\ UNCHANGED <<role, admin, created, req, overtaken>>

\* seedRole: resolve, then one transaction.  The wildcard gets a row of its own.
resolve(codes) == IF Wildcard \in codes THEN {Wildcard} ELSE codes
Resolves(codes) == Wildcard \in codes \/ codes \subseteq catalogue

After(name) == LET i == CHOOSE i \in DOMAIN SystemRoles : SystemRoles[i] = name IN
               IF i = Len(SystemRoles) THEN None ELSE SystemRoles[i + 1]

seedRole ==
  /\ booting \in ToSet(SystemRoles)
  /\ Resolves(SystemGrants(booting))
  /\ catalogue' = catalogue \cup resolve(SystemGrants(booting))
  /\ role' = [role EXCEPT ![booting] =
                [id |-> SystemId, system |-> TRUE, grants |-> resolve(SystemGrants(booting))]]
  /\ booting' = After(booting)
  /\ UNCHANGED <<admin, created, req, overtaken>>

\* The start fails or is interrupted.
BootFails ==
  /\ booting # None /\ booting' = None
  /\ UNCHANGED <<tables, req>>

\* The operator's command: the role is looked up and the account created.
SeedAdmin(u) ==
  /\ admin[u] = None /\ role["super_admin"] # None
  /\ admin' = [admin EXCEPT ![u] = [role |-> "super_admin", active |-> TRUE]]
  /\ UNCHANGED <<catalogue, role, booting, created, req, overtaken>>

-------------------------------------------------------------------------------
(* A request up to its handler.                                            *)

At(c, handler, step) ==
  req[c] # Idle /\ req[c].next = step /\ req[c].handler = handler
Go(c, step)          == req' = [req EXCEPT ![c].next = step]
Done(c)              == req' = [req EXCEPT ![c] = Idle]

Role(c) == role[req[c].name]
Sees(c) == Role(c) # None /\ Role(c).id = req[c].id   \* the row that was read is there

EffectivePermissions(name) == IF role[name] = None THEN {} ELSE role[name].grants
HasPermission(u, p) == /\ admin[u] # None /\ admin[u].active
                       /\ LetsThrough(EffectivePermissions(admin[u].role), p)

\* activeUser reads the administrator and the role's permissions - two queries that no
\* property tells from one - and RequirePermission lets the request through.
Begin(c, u, r, n, g, t) ==
  /\ req[c] = Idle
  /\ HasPermission(u, r.permission)
  /\ req' = [req EXCEPT ![c] =
       [handler |-> r.handler, actor |-> IF r.handler = "ChangeAdminRole" THEN u ELSE t,
        name |-> n, codes |-> g, target |-> t, id |-> 0, next |-> "read"]]
  /\ UNCHANGED <<tables, booting>>

\* A check or a query fails, the caller goes away or the process dies.
Refuse(c) ==
  /\ req[c] # Idle
  /\ Done(c)
  /\ UNCHANGED <<tables, booting>>

-------------------------------------------------------------------------------
(* The handlers.                                                           *)

CreateRole(c) ==
  /\ At(c, "CreateRole", "read") /\ created < MaxRoles
  /\ req[c].name \in CustomRoles /\ Role(c) = None
  /\ Resolves(req[c].codes)
  /\ catalogue' = catalogue \cup resolve(req[c].codes)
  /\ role' = [role EXCEPT ![req[c].name] =
                [id |-> created + 1, system |-> FALSE, grants |-> resolve(req[c].codes)]]
  /\ created' = created + 1
  /\ Done(c)
  /\ UNCHANGED <<admin, booting, overtaken>>

\* customRole, for UpdateRole and DeleteRole: the row is read, and is not a seeded one.
AnyRole(c)    == Role(c) # None   \* (bug) the mark is not looked at
customRole(c) == Role(c) # None /\ ~Role(c).system

ReadRole(c) ==
  /\ At(c, "UpdateRole", "read") \/ At(c, "DeleteRole", "read")
  /\ customRole(c)
  /\ req' = [req EXCEPT ![c].id = Role(c).id,
               ![c].next = IF At(c, "UpdateRole", "read") THEN "write" ELSE "count"]
  /\ UNCHANGED <<tables, booting>>

UpdateRole(c) ==
  /\ At(c, "UpdateRole", "write")
  /\ Sees(c) /\ Resolves(req[c].codes)
  /\ catalogue' = catalogue \cup resolve(req[c].codes)
  /\ role' = [role EXCEPT ![req[c].name].grants = resolve(req[c].codes)]
  /\ Done(c)
  /\ UNCHANGED <<admin, booting, created, overtaken>>

\* DeleteRole: the count, the permissions and the row, each in a statement of its own.
HoldersOf(n) == {u \in Users : admin[u] # None /\ admin[u].role = n}

NotCounted(c) ==   \* (bug) whoever holds the role
  /\ At(c, "DeleteRole", "count")
  /\ Go(c, "clear")
  /\ UNCHANGED <<tables, booting>>
CountHolders(c) ==
  /\ At(c, "DeleteRole", "count")
  /\ HoldersOf(req[c].name) = {}
  /\ Go(c, "clear")
  /\ UNCHANGED <<tables, booting>>

ClearPermissions(c) ==
  /\ At(c, "DeleteRole", "clear")
  /\ Go(c, "write")
  /\ role' = IF Sees(c) THEN [role EXCEPT ![req[c].name].grants = {}] ELSE role
  /\ UNCHANGED <<catalogue, admin, booting, created, overtaken>>

DeleteRole(c) ==
  /\ At(c, "DeleteRole", "write")
  /\ Sees(c)
  /\ role' = [role EXCEPT ![req[c].name] = None]
  /\ Done(c)
  /\ UNCHANGED <<catalogue, admin, booting, created, overtaken>>

\* CreateAdminUser and ChangeAdminRole look the role up, and write in another statement.
Anyone(c)      == TRUE   \* (bug) one's own role too
SomeoneElse(c) == req[c].actor # req[c].target

RoleExists(c) ==
  /\ At(c, "CreateAdminUser", "read") \/ (At(c, "ChangeAdminRole", "read") /\ SomeoneElse(c))
  /\ Role(c) # None
  /\ Go(c, "write")
  /\ UNCHANGED <<tables, booting>>

\* Whether a deletion of the role has counted its holders already.
BeingDeleted(n) ==
  \/ role[n] = None
  \/ \E d \in Clients : /\ At(d, "DeleteRole", "clear") \/ At(d, "DeleteRole", "write")
                        /\ req[d].name = n

Blank(c) == [role |-> None, active |-> TRUE]   \* (bug) the role is not filled in
Fresh(c) == [role |-> req[c].name, active |-> TRUE]

Note(c) ==
  overtaken' = IF BeingDeleted(req[c].name) THEN overtaken \cup {req[c].target}
                                            ELSE overtaken \ {req[c].target}

CreateAdminUser(c) ==
  /\ At(c, "CreateAdminUser", "write")
  /\ admin[req[c].target] = None
  /\ admin' = [admin EXCEPT ![req[c].target] = Fresh(c)]
  /\ Note(c)
  /\ Done(c)
  /\ UNCHANGED <<catalogue, role, booting, created>>

ChangeRole(c) ==
  /\ At(c, "ChangeAdminRole", "write")
  /\ admin[req[c].target] # None
  /\ admin' = [admin EXCEPT ![req[c].target].role = req[c].name]
  /\ Note(c)
  /\ Done(c)
  /\ UNCHANGED <<catalogue, role, booting, created>>

\* One transaction, with the revocation of the sessions that AdminSessions models.
ChangeStatus(c) ==
  /\ At(c, "ChangeAdminStatus", "read")
  /\ admin[req[c].target] # None
  /\ \E s \in BOOLEAN : admin' = [admin EXCEPT ![req[c].target].active = s]
  /\ Done(c)
  /\ UNCHANGED <<catalogue, role, booting, created, overtaken>>

-------------------------------------------------------------------------------

Init ==
  /\ catalogue = {} /\ role = [n \in RoleNames |-> None]
  /\ admin = [u \in Users |-> None]
  /\ booting = None /\ created = 0
  /\ req = [c \in Clients |-> Idle]
  /\ overtaken = {}

Boot == Start \/ SeedPermissions \/ seedRole \/ BootFails \/ \E u \in Users : SeedAdmin(u)

Handle(c) ==
  \/ CreateRole(c) \/ ReadRole(c) \/ UpdateRole(c)
  \/ CountHolders(c) \/ ClearPermissions(c) \/ DeleteRole(c)
  \/ RoleExists(c) \/ CreateAdminUser(c) \/ ChangeRole(c) \/ ChangeStatus(c)

\* An argument that a handler does not take has one value.
Takes(h, u, n, g, t) ==
  /\ h \in {"CreateRole", "UpdateRole", "DeleteRole"} => t = u
  /\ h \notin {"CreateRole", "UpdateRole"} => g = {}
  /\ h = "ChangeAdminStatus" => n \notin CustomRoles

Serve(c) ==
  \/ \E u, t \in Users, r \in AdminRoutes, n \in Named, g \in GrantSets :
       /\ r.handler \in Handlers
       /\ Begin(c, u, r, n, g, t)
       /\ Takes(r.handler, u, n, g, t)
  \/ Refuse(c) \/ Handle(c)

Next == Boot \/ \E c \in Clients : Serve(c)

Spec == Init /\ [][Next]_vars

-------------------------------------------------------------------------------

\* Every variable has its type.
TypeOK ==
  /\ catalogue \subseteq AllCodes
  /\ role \in [RoleNames -> Roles \cup {None}]
  /\ admin \in [Users -> Admins \cup {None}]
  /\ booting \in {None, "permissions"} \cup ToSet(SystemRoles)
  /\ created \in Nat
  /\ req \in [Clients -> Requests \cup {Idle}]
  /\ overtaken \subseteq Users

\* "an operations administrator could read every admin endpoint and query balances but
\* mutate nothing", read_only "is operations without balances", and super_admin reaches
\* everything (permissions.go:90-94): so it is from the seeding of each of these roles on,
\* whatever operators do to roles, but for BearerOnly, which every role reaches.  One of
\* those mutates: ChangeAdminPassword, of the account its path names, which nothing
\* compares with the caller's, although admin_user.go:81-82 and router.go:261-262 say so.
\* And "a route referring to a code absent from this list" (permissions.go:44), which no
\* role but super_admin and no credential would ever reach, there is not.
Reaches(n) == {r \in AdminRoutes : LetsThrough(EffectivePermissions(n), r.permission)}
ReadRoutes == {r \in AdminRoutes : r.method = "GET"}

SystemRolesReach ==
  /\ {r.permission : r \in AdminRoutes \ BearerOnly} \subseteq CodesFor("admin")
  /\ {r.permission : r \in AppRoutes} \subseteq AppScopes
  /\ role["super_admin"] # None => Reaches("super_admin") = AdminRoutes
  /\ role["operations"] # None => Reaches("operations") = ReadRoutes \cup BearerOnly
  /\ role["read_only"] # None =>
       Reaches("read_only") =
         {r \in ReadRoutes : r.permission.resource # "balances"} \cup BearerOnly

\* "Deleting a role an administrator still holds would leave them with no permissions at
\* all" (authz.go:224-225): a role that is held exists, unless it was given while a
\* deletion had already counted its holders.
HeldRolesExist ==
  \A u \in Users \ overtaken : admin[u] # None => role[admin[u].role] # None

\* "the last super_admin demoting itself leaves nobody able to put it back"
\* (admin_user.go:111-112): a change of role by an administrator who may make it leaves
\* an active one who may.
MayAssign(u) == HasPermission(u, Code("users", "update"))

AssignerRemains ==
  [][\A c \in Clients : ChangeRole(c) /\ MayAssign(req[c].actor)
                         => (\E u \in Users : MayAssign(u))']_vars
===============================================================================
