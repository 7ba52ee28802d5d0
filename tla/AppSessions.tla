----------------------------- MODULE AppSessions -----------------------------
(***************************************************************************)
(* Applications, their credentials and their sessions: AppAuthService      *)
(* (service/identity/app_auth.go), which exchanges credentials for tokens  *)
(* and resolves them, and AppService (app_app.go), whose administrators    *)
(* create, revoke and rotate credentials and suspend applications.         *)
(*                                                                         *)
(* A grant, a refresh and an authenticated request each make several       *)
(* queries outside any transaction; the write that ends a grant or a       *)
(* refresh is one transaction, as is every administrator's change.  Each   *)
(* query and each transaction is a step.                                   *)
(***************************************************************************)
EXTENDS Naturals, FiniteSets

CONSTANTS
  Clients,    \* requests under way at once; each serves one after another
  Apps,       \* applications
  Creds,      \* credentials that may come to exist
  AppOf,      \* whose application each is
  Pairs,      \* token pairs that may be signed, each once
  None,       \* no row, no pair
  MaxSecret,  \* bound: how many secrets a credential goes through
  MaxPassed   \* bound: how many credentials and sessions expire

Secrets == 1 .. MaxSecret

\* secret: which of the credential's secrets is the stored one.  passed: its ExpiresAt.
Credentials == [active : BOOLEAN, secret : Secrets, passed : BOOLEAN]

\* A session, identified by the pair it was created with.  pair: the one whose hashes
\* it holds.  secret and late are history: which secret the grant had checked, and
\* whether a revocation, rotation or suspension overtook the grant.
Rows == [cred : Creds, pair : Pairs, revoked : BOOLEAN, passed : BOOLEAN,
         secret : Secrets, late : BOOLEAN]

ASSUME AppAssumption ==
  /\ AppOf \in [Creds -> Apps]
  /\ None \notin Pairs /\ None \notin Credentials /\ None \notin Rows
  /\ MaxSecret \in Nat \ {0}
  /\ MaxPassed \in Nat

\* A request under way: the credential it named, the secret a grant has checked, the
\* session the others have read (id and pair), and the query it makes next.  doomed is
\* history: it began when it had to be refused, and still has.
Ops  == [kind : {"grant", "refresh", "request"}, cred : Creds, secret : Secrets \cup {None},
         id : Pairs \cup {None}, pair : Pairs \cup {None},
         next : {"credential", "app", "issue"}, doomed : BOOLEAN]
Idle == [kind |-> "none"]

VARIABLES
  app,      \* apps: active or not
  cred,     \* app_credentials
  session,  \* app_sessions
  issued,   \* pairs signed and stored so far
  successor,\* history: the pair each was exchanged for
  op,       \* what each client's request is doing
  admitted, \* history: clients that were let through although doomed
  passed    \* expiries so far

vars == <<app, cred, session, issued, successor, op, admitted, passed>>

rowVars == <<app, cred, session>>

Exists(k)   == cred[k] # None
Usable(k)   == Exists(k) /\ cred[k].active /\ ~cred[k].passed /\ app[AppOf[k]]
Stored(i)   == session[i] # None
Unrevoked(i) == Stored(i) /\ ~session[i].revoked

\* Live, LiveByRefresh: the unrevoked, unexpired session a pair names.
Names(p, i) == Unrevoked(i) /\ ~session[i].passed /\ session[i].pair = p

At(c, step)    == op[c] # Idle /\ op[c].next = step
Go(c, step)    == op' = [op EXCEPT ![c].next = step]
End(c)         == op' = [op EXCEPT ![c] = Idle]

-------------------------------------------------------------------------------
(* The requests.                                                           *)

Begin(c, o) ==
  /\ op[c] = Idle
  /\ op' = [op EXCEPT ![c] = o]
  /\ UNCHANGED <<rowVars, issued, successor, admitted, passed>>

\* ValidateClientCredentials: an active credential and its present secret.
BeginGrant(c, k) ==
  /\ Exists(k) /\ cred[k].active
  /\ Begin(c, [kind |-> "grant", cred |-> k, secret |-> cred[k].secret,
               id |-> None, pair |-> None, next |-> "app",
               doomed |-> ~Usable(k)])

\* RefreshToken, and AuthenticateClaims of a request: a pair that names a session.
BeginRefresh(c, i) ==
  /\ Names(session[i].pair, i)
  /\ Begin(c, [kind |-> "refresh", cred |-> session[i].cred, secret |-> None,
               id |-> i, pair |-> session[i].pair, next |-> "credential",
               doomed |-> ~Usable(session[i].cred)])

BeginRequest(c, i) ==
  /\ Names(session[i].pair, i)
  /\ Begin(c, [kind |-> "request", cred |-> session[i].cred, secret |-> None,
               id |-> i, pair |-> session[i].pair, next |-> "credential",
               doomed |-> ~Usable(session[i].cred)])

\* identity: the credential is read again and must be active.
TrustClaims(c) == TRUE   \* (bug) the token's claims stand for the credential
CredentialActive(c) == cred[op[c].cred].active

ReadCredential(c) ==
  /\ At(c, "credential")
  /\ CredentialActive(c)
  /\ Go(c, "app")
  /\ UNCHANGED <<rowVars, issued, successor, admitted, passed>>

\* fromCredential: the credential has not expired, and its application is active.
ReadApp(c) ==
  /\ At(c, "app")
  /\ ~cred[op[c].cred].passed
  /\ app[AppOf[op[c].cred]]
  /\ IF op[c].kind = "request" THEN End(c) ELSE Go(c, "issue")
  /\ admitted' = IF op[c].doomed THEN admitted \cup {c} ELSE admitted
  /\ UNCHANGED <<rowVars, issued, successor, passed>>

\* issue, of a grant: a new session.  The stamp on the credential finds its row.
Overtaken(c) == ~cred[op[c].cred].active \/ cred[op[c].cred].secret # op[c].secret
                  \/ ~app[AppOf[op[c].cred]]

NewRow(c, p) ==
  [cred |-> op[c].cred, pair |-> p, revoked |-> FALSE, passed |-> FALSE,
   secret |-> op[c].secret, late |-> Overtaken(c)]

Grant(c, p) ==
  /\ At(c, "issue") /\ op[c].kind = "grant"
  /\ issued' = issued \cup {p}
  /\ session' = [session EXCEPT ![p] = NewRow(c, p)]
  /\ End(c)
  /\ UNCHANGED <<app, cred, successor, admitted, passed>>

\* issue, of a refresh: the row that still holds the hash that was read takes the new
\* pair and a new expiry.  revoked_at is not among the columns.
AnyPair(c)   == Stored(op[c].id)   \* (bug) the hash is not part of the match
SamePair(c)  == Stored(op[c].id) /\ session[op[c].id].pair = op[c].pair

Rotated(i, p) == [session EXCEPT ![i].pair = p, ![i].passed = FALSE]

Refresh(c, p) ==
  /\ At(c, "issue") /\ op[c].kind = "refresh"
  /\ SamePair(c)
  /\ issued' = issued \cup {p}
  /\ session' = Rotated(op[c].id, p)
  /\ successor' = [successor EXCEPT ![op[c].pair] = p]
  /\ End(c)
  /\ UNCHANGED <<app, cred, admitted, passed>>

\* A query, a check or the transaction fails, the row to rotate is no longer there, the
\* caller goes away or the process dies.  A pair that was signed is named by no row.
Refuse(c) ==
  /\ op[c] # Idle
  /\ End(c)
  /\ UNCHANGED <<rowVars, issued, successor, admitted, passed>>

-------------------------------------------------------------------------------
(* The administrators.  A change is one transaction: the row and the       *)
(* sessions that rest on it.                                               *)

RevokeWhere(S) ==
  [i \in Pairs |-> IF Stored(i) /\ session[i].cred \in S
                   THEN [session[i] EXCEPT !.revoked = TRUE] ELSE session[i]]

\* Requests that were doomed over one of these credentials no longer are.
Spare(S) == op' = [c \in Clients |-> IF op[c] # Idle /\ op[c].cred \in S
                                     THEN [op[c] EXCEPT !.doomed = FALSE] ELSE op[c]]

CreateCredential(k) ==
  /\ ~Exists(k)
  /\ cred' = [cred EXCEPT ![k] = [active |-> TRUE, secret |-> 1, passed |-> FALSE]]
  /\ UNCHANGED <<app, session, issued, successor, op, admitted, passed>>

OnlyTheCredential(k) == session   \* (bug) the sessions are left to expire
RevokedWith(k)       == RevokeWhere({k})

RevokeCredential(k) ==
  /\ Exists(k)
  /\ cred' = [cred EXCEPT ![k].active = FALSE]
  /\ session' = RevokedWith(k)
  /\ UNCHANGED <<app, issued, successor, op, admitted, passed>>

\* A new secret; the credential is active again, whatever it was.
RotateCredential(k) ==
  /\ Exists(k) /\ cred[k].secret < MaxSecret
  /\ cred' = [cred EXCEPT ![k].active = TRUE, ![k].secret = @ + 1]
  /\ session' = RevokedWith(k)
  /\ Spare({k})
  /\ UNCHANGED <<app, issued, successor, admitted, passed>>

CredsOf(a) == {k \in Creds : AppOf[k] = a}

Suspend(a) ==
  /\ app' = [app EXCEPT ![a] = FALSE]
  /\ session' = RevokeWhere(CredsOf(a))
  /\ UNCHANGED <<cred, issued, successor, op, admitted, passed>>

Activate(a) ==
  /\ app' = [app EXCEPT ![a] = TRUE]
  /\ Spare(CredsOf(a))
  /\ UNCHANGED <<cred, session, issued, successor, admitted, passed>>

-------------------------------------------------------------------------------
(* Time, and the clean-up worker.                                          *)

CredentialPasses(k) ==
  /\ passed < MaxPassed /\ passed' = passed + 1
  /\ Exists(k) /\ ~cred[k].passed
  /\ cred' = [cred EXCEPT ![k].passed = TRUE]
  /\ UNCHANGED <<app, session, issued, successor, op, admitted>>

SessionPasses(i) ==
  /\ passed < MaxPassed /\ passed' = passed + 1
  /\ Stored(i) /\ ~session[i].passed
  /\ session' = [session EXCEPT ![i].passed = TRUE]
  /\ UNCHANGED <<app, cred, issued, successor, op, admitted>>

DeleteExpired ==
  /\ \E i \in Pairs : Stored(i) /\ session[i].passed
  /\ session' = [i \in Pairs |-> IF Stored(i) /\ session[i].passed THEN None ELSE session[i]]
  /\ UNCHANGED <<app, cred, issued, successor, op, admitted, passed>>

Init ==
  /\ app = [a \in Apps |-> TRUE]
  /\ cred = [k \in Creds |-> None]
  /\ session = [i \in Pairs |-> None]
  /\ issued = {} /\ successor = [p \in Pairs |-> None]
  /\ op = [c \in Clients |-> Idle]
  /\ admitted = {} /\ passed = 0

Request(c) ==
  \/ \E k \in Creds : BeginGrant(c, k)
  \/ \E i \in Pairs : Stored(i) /\ (BeginRefresh(c, i) \/ BeginRequest(c, i))
  \/ ReadCredential(c) \/ ReadApp(c) \/ Refuse(c)
  \/ \E p \in Pairs \ issued : Grant(c, p) \/ Refresh(c, p)

Administer ==
  \/ \E k \in Creds : CreateCredential(k) \/ RevokeCredential(k) \/ RotateCredential(k)
  \/ \E a \in Apps : Suspend(a) \/ Activate(a)

Pass ==
  \/ \E k \in Creds : CredentialPasses(k)
  \/ \E i \in Pairs : SessionPasses(i)

Next == (\E c \in Clients : Request(c)) \/ Administer \/ Pass \/ DeleteExpired

Spec == Init /\ [][Next]_vars

-------------------------------------------------------------------------------

\* Every variable has its type.
TypeOK ==
  /\ app \in [Apps -> BOOLEAN]
  /\ cred \in [Creds -> Credentials \cup {None}]
  /\ session \in [Pairs -> Rows \cup {None}]
  /\ issued \subseteq Pairs
  /\ successor \in [Pairs -> Pairs \cup {None}]
  /\ op \in [Clients -> Ops \cup {Idle}]
  /\ admitted \subseteq Clients
  /\ passed \in Nat

\* "a credential marked revoked while its sessions survived would still authorize
\* requests" (app_app.go:237-238): an unrevoked session rests on an active credential,
\* on the secret it was granted by and on an active application, unless its grant had
\* made its checks before the change and wrote its row after.
SessionsRest ==
  \A i \in Pairs : Unrevoked(i) /\ ~session[i].late =>
    /\ cred[session[i].cred].active
    /\ cred[session[i].cred].secret = session[i].secret
    /\ app[AppOf[session[i].cred]]

\* "a revoked credential stops working immediately rather than at the next refresh"
\* (app_auth.go:138-140): a request that begins under a credential that is revoked or
\* expired, or whose application is suspended, and stays so, is not let through, not
\* even by a session whose grant had been overtaken.
RevokedStopsWorking == admitted = {}

\* "a replayed refresh token cannot rotate a session that has already moved on"
\* (repository/app.go:129-131), two of them at once neither: the table implements Sessions.
live  == {session[i].pair : i \in {j \in Pairs : Unrevoked(j)}}
ended == issued \ live

Promised == INSTANCE Sessions
ImplementsSessions == Promised!Spec
===============================================================================
