---------------------------- MODULE AdminSessions ----------------------------
(***************************************************************************)
(* Administrators' logins and sessions: AdminAuthService                   *)
(* (service/identity/admin_auth.go) with its lockout, and the changes of   *)
(* password and status of AdminUserService (admin_user.go).                *)
(*                                                                         *)
(* A login reads the account once, decides by what it read, and writes in  *)
(* two more statements outside any transaction; a refresh, a request and a *)
(* logout each make several queries.  A change of password or status is    *)
(* one transaction.  Each query, statement and transaction is a step.      *)
(***************************************************************************)
EXTENDS Naturals, FiniteSets

CONSTANTS
  Clients,       \* requests under way at once; each serves one after another
  Users,         \* administrators
  Pairs,         \* token pairs that may be signed, each once
  None,          \* no row, no pair
  MaxPasswords,  \* bound: how many passwords an account goes through
  MaxPassed      \* bound: how many locks and sessions run out

Passwords == 1 .. MaxPasswords

\* password: which of its passwords the account's hash is of.
Accounts == [active : BOOLEAN, password : Passwords, failed : Nat, locked : BOOLEAN]

\* A session, identified by the pair it was created with.  pair: the one whose hashes
\* it holds.  password and late are history: which password the login had checked, and
\* whether a change of password or a deactivation overtook the login.
Rows == [user : Users, pair : Pairs, revoked : BOOLEAN, passed : BOOLEAN,
         password : Passwords, late : BOOLEAN]

ASSUME AdminAssumption ==
  /\ None \notin Pairs /\ None \notin Rows
  /\ MaxPasswords \in Nat \ {0}
  /\ MaxPassed \in Nat
  /\ IsFiniteSet(Clients)

\* A request under way: the administrator it names, the password a login has checked,
\* whether a failed one decided to lock, the session the others have read, and the
\* statement it makes next.
Ops  == [kind : {"login", "refresh", "request", "logout"}, user : Users,
         password : Passwords \cup {None}, lock : BOOLEAN,
         id : Pairs \cup {None}, pair : Pairs \cup {None},
         next : {"failed", "login", "user", "issue", "revoke"}]
Idle == [kind |-> "none"]

VARIABLES
  account,   \* admin_users
  session,   \* admin_sessions
  issued,    \* pairs signed and stored so far
  successor, \* history: the pair each was exchanged for
  op,        \* what each client's request is doing
  guesses,   \* history: failed logins counted since the account's last lock or login
  passed     \* locks and sessions that ran out so far

vars == <<account, session, issued, successor, op, guesses, passed>>

pairVars == <<issued, successor>>

Stored(i)    == session[i] # None
Unrevoked(i) == Stored(i) /\ ~session[i].revoked

\* Live, LiveByRefresh: the unrevoked, unexpired session a pair names.
Names(p, i) == Unrevoked(i) /\ ~session[i].passed /\ session[i].pair = p

At(c, step) == op[c] # Idle /\ op[c].next = step
Go(c, step) == op' = [op EXCEPT ![c].next = step]
End(c)      == op' = [op EXCEPT ![c] = Idle]

Begin(c, o) ==
  /\ op[c] = Idle
  /\ op' = [op EXCEPT ![c] = o]
  /\ UNCHANGED <<account, session, pairVars, guesses, passed>>

-------------------------------------------------------------------------------
(* IssuePasswordToken.                                                     *)

MayLogIn(u) == account[u].active /\ ~account[u].locked

OneTooMany(u) == account[u].failed > 4   \* (bug) > for >=
Locks(u)      == account[u].failed >= 4

BeginWrongLogin(c, u) ==
  /\ MayLogIn(u)
  /\ Begin(c, [kind |-> "login", user |-> u, password |-> None, lock |-> Locks(u),
               id |-> None, pair |-> None, next |-> "failed"])

BeginLogin(c, u) ==
  /\ MayLogIn(u)
  /\ Begin(c, [kind |-> "login", user |-> u, password |-> account[u].password,
               lock |-> FALSE, id |-> None, pair |-> None, next |-> "login"])

\* The counter goes up in the statement itself.
RecordFailedLogin(c) ==
  /\ At(c, "failed")
  /\ LET u == op[c].user IN
       /\ account' = [account EXCEPT ![u].failed = @ + 1, ![u].locked = @ \/ op[c].lock]
       /\ guesses' = [guesses EXCEPT ![u] = IF op[c].lock THEN 0 ELSE @ + 1]
  /\ End(c)
  /\ UNCHANGED <<session, pairVars, passed>>

\* The counter and the lock are cleared, whoever set them meanwhile.
RecordLogin(c) ==
  /\ At(c, "login")
  /\ account' = [account EXCEPT ![op[c].user].failed = 0, ![op[c].user].locked = FALSE]
  /\ guesses' = [guesses EXCEPT ![op[c].user] = 0]
  /\ Go(c, "issue")
  /\ UNCHANGED <<session, pairVars, passed>>

\* issue, of a login: a new session.
Overtaken(c) == ~account[op[c].user].active \/ account[op[c].user].password # op[c].password

NewRow(c, p) ==
  [user |-> op[c].user, pair |-> p, revoked |-> FALSE, passed |-> FALSE,
   password |-> op[c].password, late |-> Overtaken(c)]

CreateSession(c, p) ==
  /\ At(c, "issue") /\ op[c].kind = "login"
  /\ issued' = issued \cup {p}
  /\ session' = [session EXCEPT ![p] = NewRow(c, p)]
  /\ End(c)
  /\ UNCHANGED <<account, successor, guesses, passed>>

-------------------------------------------------------------------------------
(* Requests by token: RefreshToken, AuthenticateClaims, and LogoutBearer   *)
(* behind it.                                                              *)

BeginByToken(c, i, k) ==
  /\ Names(session[i].pair, i)
  /\ Begin(c, [kind |-> k, user |-> session[i].user, password |-> None, lock |-> FALSE,
               id |-> i, pair |-> session[i].pair, next |-> "user"])

\* activeUser: the account must be active.  A request is then let through.
UserActive(c) == account[op[c].user].active

ReadUser(c) ==
  /\ At(c, "user")
  /\ UserActive(c)
  /\ CASE op[c].kind = "request" -> End(c)
       [] op[c].kind = "refresh" -> Go(c, "issue")
       [] op[c].kind = "logout"  -> Go(c, "revoke")
  /\ UNCHANGED <<account, session, pairVars, guesses, passed>>

\* issue, of a refresh: the row that still holds the hash that was read takes the new
\* pair and a new expiry.  revoked_at is not among the columns.
AnyPair(c)  == Stored(op[c].id)   \* (bug) the hash is not matched
SamePair(c) == Stored(op[c].id) /\ session[op[c].id].pair = op[c].pair

WholeRow(i, p) ==   \* (bug) the row that was read is saved with the new pair
  [session EXCEPT ![i].pair = p, ![i].passed = FALSE, ![i].revoked = FALSE]
Rotated(i, p) == [session EXCEPT ![i].pair = p, ![i].passed = FALSE]

Refresh(c, p) ==
  /\ At(c, "issue") /\ op[c].kind = "refresh"
  /\ SamePair(c)
  /\ issued' = issued \cup {p}
  /\ session' = Rotated(op[c].id, p)
  /\ successor' = [successor EXCEPT ![op[c].pair] = p]
  /\ End(c)
  /\ UNCHANGED <<account, guesses, passed>>

\* LogoutBearer: no row with the presented pair is no error.
Presented(c) == {i \in Pairs : /\ Unrevoked(i) /\ session[i].user = op[c].user
                               /\ session[i].pair = op[c].pair}

RevokeRows(S) == [i \in Pairs |-> IF i \in S THEN [session[i] EXCEPT !.revoked = TRUE]
                                  ELSE session[i]]

Logout(c) ==
  /\ At(c, "revoke")
  /\ session' = RevokeRows(Presented(c))
  /\ End(c)
  /\ UNCHANGED <<account, pairVars, guesses, passed>>

\* A query, a check or a statement fails, the row to rotate is no longer there, the
\* caller goes away or the process dies.  A pair that was signed is named by no row.
Refuse(c) ==
  /\ op[c] # Idle
  /\ End(c)
  /\ UNCHANGED <<account, session, pairVars, guesses, passed>>

-------------------------------------------------------------------------------
(* The administration of the accounts.                                     *)

HeldBy(u) == {i \in Pairs : Unrevoked(i) /\ session[i].user = u}

ChangePassword(u) ==
  /\ account[u].password < MaxPasswords
  /\ account' = [account EXCEPT ![u].password = @ + 1]
  /\ session' = RevokeRows(HeldBy(u))
  /\ UNCHANGED <<pairVars, op, guesses, passed>>

Deactivate(u) ==
  /\ account' = [account EXCEPT ![u].active = FALSE]
  /\ session' = RevokeRows(HeldBy(u))
  /\ UNCHANGED <<pairVars, op, guesses, passed>>

Activate(u) ==
  /\ account' = [account EXCEPT ![u].active = TRUE]
  /\ UNCHANGED <<session, pairVars, op, guesses, passed>>

-------------------------------------------------------------------------------
(* Time, and the clean-up worker.                                          *)

LockPasses(u) ==
  /\ passed < MaxPassed /\ passed' = passed + 1
  /\ account[u].locked
  /\ account' = [account EXCEPT ![u].locked = FALSE]
  /\ UNCHANGED <<session, pairVars, op, guesses>>

SessionPasses(i) ==
  /\ passed < MaxPassed /\ passed' = passed + 1
  /\ Stored(i) /\ ~session[i].passed
  /\ session' = [session EXCEPT ![i].passed = TRUE]
  /\ UNCHANGED <<account, pairVars, op, guesses>>

DeleteExpired ==
  /\ \E i \in Pairs : Stored(i) /\ session[i].passed
  /\ session' = [i \in Pairs |-> IF Stored(i) /\ session[i].passed THEN None ELSE session[i]]
  /\ UNCHANGED <<account, pairVars, op, guesses, passed>>

Init ==
  /\ account = [u \in Users |-> [active |-> TRUE, password |-> 1, failed |-> 0,
                                 locked |-> FALSE]]
  /\ session = [i \in Pairs |-> None]
  /\ issued = {} /\ successor = [p \in Pairs |-> None]
  /\ op = [c \in Clients |-> Idle]
  /\ guesses = [u \in Users |-> 0]
  /\ passed = 0

Request(c) ==
  \/ \E u \in Users : BeginWrongLogin(c, u) \/ BeginLogin(c, u)
  \/ \E i \in Pairs, k \in {"refresh", "request", "logout"} :
       Stored(i) /\ BeginByToken(c, i, k)
  \/ RecordFailedLogin(c) \/ RecordLogin(c)
  \/ ReadUser(c) \/ Logout(c) \/ Refuse(c)
  \/ \E p \in Pairs \ issued : CreateSession(c, p) \/ Refresh(c, p)

Administer == \E u \in Users : ChangePassword(u) \/ Deactivate(u) \/ Activate(u)

Pass ==
  \/ \E u \in Users : LockPasses(u)
  \/ \E i \in Pairs : SessionPasses(i)

Next == (\E c \in Clients : Request(c)) \/ Administer \/ Pass \/ DeleteExpired

Spec == Init /\ [][Next]_vars

-------------------------------------------------------------------------------

\* Every variable has its type.
TypeOK ==
  /\ account \in [Users -> Accounts]
  /\ session \in [Pairs -> Rows \cup {None}]
  /\ issued \subseteq Pairs
  /\ successor \in [Pairs -> Pairs \cup {None}]
  /\ op \in [Clients -> Ops \cup {Idle}]
  /\ guesses \in [Users -> Nat]
  /\ passed \in Nat

\* "two attempts racing each other still count twice" (repository/admin.go:64-65): of the
\* wrong passwords that are counted the fifth locks the account, or, of attempts that had
\* read the account at once, one that each other client may have under way.
GuessesBounded == \A u \in Users : guesses[u] <= Cardinality(Clients) + 3

\* "an administrator whose password changed must not be left with sessions
\* authenticated by the old one" (admin_user.go:91-92), nor one who was deactivated with
\* any, unless the login had read the account before the change and stored its session
\* after.  A refresh under way brings no revoked session back.
SessionsRest ==
  \A i \in Pairs : Unrevoked(i) /\ ~session[i].late =>
    /\ account[session[i].user].active
    /\ account[session[i].user].password = session[i].password

\* "a replayed refresh token cannot rotate a session that has already moved on"
\* (repository/admin.go:119-120), two of them at once neither: the table implements
\* Sessions.
live  == {session[i].pair : i \in {j \in Pairs : Unrevoked(j)}}
ended == issued \ live

Promised == INSTANCE Sessions
ImplementsSessions == Promised!Spec

-------------------------------------------------------------------------------
(* What the repository's own words say, and the code does not do.          *)

\* The same lines without the exception.
NoOldPasswordSessions ==
  \A i \in Pairs : Unrevoked(i) => account[session[i].user].password = session[i].password
===============================================================================
