------------------------- MODULE AdminSessions_proofs -------------------------
(***************************************************************************)
(* What the run of AdminSessions checks for two requests of one            *)
(* administrator, proved for every finite set of requests and every set of *)
(* administrators and pairs.                                               *)
(***************************************************************************)
EXTENDS AdminSessions, FiniteSetTheorems, TLAPS

-------------------------------------------------------------------------------
(* The inductive invariant.                                                *)

\* What a request has read by the time of its next statement.
Given(o) ==
  IF o.kind = "login"
  THEN o.next = "failed" \/ (o.next \in {"login", "issue"} /\ o.password \in Passwords)
  ELSE o.next \in {"user", "issue", "revoke"} /\ o.id \in Pairs /\ o.pair \in Pairs

KnownInv == \A c \in Clients : op[c] # Idle => Given(op[c])

\* A row holds a pair that was issued and has not been exchanged, and no other row does.
PairsInv ==
  /\ \A i \in Pairs : Stored(i) =>
       i \in issued /\ session[i].pair \in issued /\ successor[session[i].pair] = None
  /\ \A i, j \in Pairs : Stored(i) /\ Stored(j) /\ session[i].pair = session[j].pair => i = j
  /\ \A p \in Pairs : successor[p] # None => p \in issued

\* A wrong password that does not lock was let in while fewer than four were counted.
Pending(u) == {c \in Clients : /\ op[c] # Idle /\ op[c].next = "failed"
                               /\ op[c].user = u /\ ~op[c].lock}

GuessInv ==
  \A u \in Users :
    /\ guesses[u] <= account[u].failed
    /\ guesses[u] + Cardinality(Pending(u)) <= Cardinality(Clients) + 3

LInv == TypeOK /\ KnownInv /\ SessionsRest /\ PairsInv /\ GuessInv

-------------------------------------------------------------------------------
(* What is taken from the types.                                           *)

LEMMA UnderWay ==
  ASSUME TypeOK, NEW c \in Clients, op[c] # Idle
  PROVE  op[c] \in Ops
  BY DEF TypeOK

LEMMA RowOf ==
  ASSUME TypeOK, NEW i \in Pairs, Stored(i)
  PROVE  session[i] \in Rows
  BY DEF TypeOK, Stored

-------------------------------------------------------------------------------
(* How the requests under way may change.                                  *)

Begins(c) ==
  \/ \E u \in Users : BeginWrongLogin(c, u) \/ BeginLogin(c, u)
  \/ \E i \in Pairs, k \in {"refresh", "request", "logout"} : Stored(i) /\ BeginByToken(c, i, k)

LEMMA BeginsOp ==
  ASSUME TypeOK, NEW c \in Clients, Begins(c)
  PROVE  /\ UNCHANGED <<account, session, issued, successor, guesses, passed>>
         /\ \E o \in Ops : /\ Given(o) /\ op' = [op EXCEPT ![c] = o]
                           /\ o.next = "failed" /\ ~o.lock => account[o.user].failed <= 3
<1>1. UNCHANGED <<account, session, issued, successor, guesses, passed>>
  BY DEF Begins, BeginWrongLogin, BeginLogin, BeginByToken, Begin, pairVars
<1>2. ASSUME NEW u \in Users, BeginWrongLogin(c, u)
      PROVE  \E o \in Ops : /\ Given(o) /\ op' = [op EXCEPT ![c] = o]
                            /\ o.next = "failed" /\ ~o.lock => account[o.user].failed <= 3
  <2> DEFINE o == [kind |-> "login", user |-> u, password |-> None, lock |-> Locks(u),
                   id |-> None, pair |-> None, next |-> "failed"]
  <2>1. account[u] \in Accounts
    BY DEF TypeOK
  <2>2. o \in Ops
    BY DEF Ops, Locks
  <2>3. ~Locks(u) => account[u].failed <= 3
    BY <2>1 DEF Locks, Accounts
  <2>4. op' = [op EXCEPT ![c] = o]
    BY <1>2 DEF BeginWrongLogin, Begin
  <2>5. Given(o) /\ (~o.lock => account[o.user].failed <= 3)
    BY <2>3 DEF Given
  <2> QED
    BY <2>2, <2>4, <2>5
<1>3. ASSUME NEW u \in Users, BeginLogin(c, u)
      PROVE  \E o \in Ops : /\ Given(o) /\ op' = [op EXCEPT ![c] = o]
                            /\ o.next = "failed" /\ ~o.lock => account[o.user].failed <= 3
  <2> DEFINE o == [kind |-> "login", user |-> u, password |-> account[u].password,
                   lock |-> FALSE, id |-> None, pair |-> None, next |-> "login"]
  <2>1. account[u].password \in Passwords
    BY DEF TypeOK, Accounts
  <2>2. o \in Ops /\ Given(o) /\ o.next # "failed"
    BY <2>1 DEF Ops, Given
  <2>3. op' = [op EXCEPT ![c] = o]
    BY <1>3 DEF BeginLogin, Begin
  <2> QED
    BY <2>2, <2>3
<1>4. ASSUME NEW i \in Pairs, NEW k \in {"refresh", "request", "logout"}, Stored(i),
             BeginByToken(c, i, k)
      PROVE  \E o \in Ops : /\ Given(o) /\ op' = [op EXCEPT ![c] = o]
                            /\ o.next = "failed" /\ ~o.lock => account[o.user].failed <= 3
  <2> DEFINE o == [kind |-> k, user |-> session[i].user, password |-> None, lock |-> FALSE,
                   id |-> i, pair |-> session[i].pair, next |-> "user"]
  <2>1. session[i].user \in Users /\ session[i].pair \in Pairs
    BY <1>4, RowOf DEF Rows
  <2>2. o \in Ops /\ Given(o) /\ o.next # "failed"
    BY <2>1 DEF Ops, Given
  <2>3. op' = [op EXCEPT ![c] = o]
    BY <1>4 DEF BeginByToken, Begin
  <2> QED
    BY <2>2, <2>3
<1> QED
  BY <1>1, <1>2, <1>3, <1>4 DEF Begins

LEMMA GoneOn ==
  ASSUME TypeOK, KnownInv, NEW c \in Clients, RecordLogin(c) \/ ReadUser(c), op'[c] # Idle
  PROVE  /\ op' = [op EXCEPT ![c].next = op'[c].next]
         /\ op'[c] \in Ops /\ Given(op'[c]) /\ op'[c].next \in {"issue", "revoke"}
<1>1. op[c] # Idle /\ op[c] \in Ops /\ Given(op[c])
  BY UnderWay DEF RecordLogin, ReadUser, At, KnownInv
<1>2. ~End(c)
  BY DEF End, TypeOK
<1>3. PICK step \in {"issue", "revoke"} : Go(c, step) /\ (op[c].kind = "login" => step = "issue")
  <2>1. CASE RecordLogin(c)
    BY <2>1 DEF RecordLogin
  <2>2. CASE ReadUser(c)
    <3>1. op[c].kind \in {"request", "refresh", "logout"}
      BY <1>1, <2>2 DEF ReadUser, At, Given, Ops
    <3> QED
      BY <1>2, <2>2, <3>1 DEF ReadUser
  <2> QED
    BY <2>1, <2>2
<1>4. op'[c] = [op[c] EXCEPT !.next = step] /\ op' = [op EXCEPT ![c].next = step]
  BY <1>3 DEF Go, TypeOK
<1>5. op[c].kind = "login" => op[c].password \in Passwords
  BY <1>1 DEF RecordLogin, ReadUser, At, Given
<1>6. op'[c] \in Ops /\ op'[c].next = step
  BY <1>1, <1>4 DEF Ops
<1>7. Given(op'[c])
  BY <1>1, <1>3, <1>4, <1>5 DEF Given, Ops
<1> QED
  BY <1>3, <1>4, <1>6, <1>7

\* Every step but a beginning leaves each request where it is, ends it, or takes it on.
OpsGoOn ==
  \A c \in Clients : op'[c] # Idle =>
    \/ op'[c] = op[c]
    \/ op'[c] \in Ops /\ Given(op'[c]) /\ op'[c].next # "failed"

LEMMA GoesOn ==
  ASSUME TypeOK, KnownInv, NEW c \in Clients, RecordLogin(c) \/ ReadUser(c)
  PROVE  op' \in [Clients -> Ops \cup {Idle}] /\ OpsGoOn
<1>1. CASE op'[c] = Idle
  <2>1. op' = [op EXCEPT ![c] = op'[c]]
    <3>1. CASE RecordLogin(c)
      BY <3>1 DEF RecordLogin, Go, TypeOK
    <3>2. CASE ReadUser(c)
      <4>1. op[c] # Idle /\ op[c] \in Ops /\ Given(op[c]) /\ op[c].next = "user"
        BY <3>2, UnderWay DEF ReadUser, At, KnownInv
      <4>2. op[c].kind \in {"request", "refresh", "logout"}
        BY <4>1 DEF Given, Ops
      <4> QED
        BY <3>2, <4>2 DEF ReadUser, Go, End, TypeOK
    <3> QED
      BY <3>1, <3>2
  <2> QED
    BY <1>1, <2>1 DEF TypeOK, OpsGoOn
<1>2. CASE op'[c] # Idle
  BY <1>2, GoneOn DEF TypeOK, OpsGoOn
<1> QED
  BY <1>1, <1>2

LEMMA OpsNext ==
  ASSUME TypeOK, KnownInv, [Next]_vars
  PROVE  /\ op' \in [Clients -> Ops \cup {Idle}]
         /\ OpsGoOn \/ \E c \in Clients : Begins(c)
<1>1. CASE UNCHANGED op
  BY <1>1 DEF TypeOK, OpsGoOn
<1>2. ASSUME NEW c \in Clients, Begins(c) PROVE op' \in [Clients -> Ops \cup {Idle}]
  BY <1>2, BeginsOp DEF TypeOK
<1>3. ASSUME NEW c \in Clients, End(c) PROVE op' \in [Clients -> Ops \cup {Idle}] /\ OpsGoOn
  BY <1>3 DEF End, TypeOK, OpsGoOn
<1>4. ASSUME NEW c \in Clients, RecordLogin(c) \/ ReadUser(c)
      PROVE  op' \in [Clients -> Ops \cup {Idle}] /\ OpsGoOn
  BY <1>4, GoesOn
<1> QED
  BY <1>1, <1>2, <1>3, <1>4 DEF Next, vars, Request, Begins, RecordFailedLogin, Logout, Refuse,
     CreateSession, Refresh, Administer, ChangePassword, Deactivate, Activate, Pass, LockPasses,
     SessionPasses, DeleteExpired

LEMMA KnownNext ==
  ASSUME TypeOK, KnownInv, [Next]_vars
  PROVE  KnownInv'
<1>1. ASSUME NEW c \in Clients, Begins(c) PROVE KnownInv'
  BY <1>1, BeginsOp DEF KnownInv, TypeOK
<1>2. CASE OpsGoOn
  BY <1>2 DEF OpsGoOn, KnownInv
<1> QED
  BY <1>1, <1>2, OpsNext

-------------------------------------------------------------------------------
(* The rows.                                                               *)

RowsKeep == \A i \in Pairs : session'[i] # None =>
              /\ Stored(i)
              /\ session'[i].user = session[i].user /\ session'[i].pair = session[i].pair
              /\ session'[i].password = session[i].password
              /\ session'[i].late = session[i].late
              /\ ~session'[i].revoked => ~session[i].revoked

RowsTyped == session' \in [Pairs -> Rows \cup {None}]

\* No pair is signed.
Quiet == RowsKeep /\ RowsTyped /\ UNCHANGED <<issued, successor>>

LEMMA Revoked ==
  ASSUME TypeOK, NEW S, \A i \in Pairs : i \in S => Stored(i), session' = RevokeRows(S)
  PROVE  /\ RowsKeep /\ RowsTyped
         /\ \A i \in Pairs : session'[i] # None /\ ~session'[i].revoked => i \notin S
<1>1. ASSUME NEW i \in Pairs, i \in S
      PROVE  /\ session[i] \in Rows /\ session'[i] \in Rows
             /\ session'[i] = [session[i] EXCEPT !.revoked = TRUE]
  <2>1. session[i] \in Rows
    BY <1>1, RowOf
  <2>2. session'[i] = [session[i] EXCEPT !.revoked = TRUE]
    BY <1>1 DEF RevokeRows
  <2>3. [session[i] EXCEPT !.revoked = TRUE] \in Rows
    BY <2>1 DEF Rows
  <2> QED
    BY <2>1, <2>2, <2>3
<1>2. ASSUME NEW i \in Pairs, i \notin S PROVE session'[i] = session[i]
  BY <1>2 DEF RevokeRows
<1>3. RowsTyped
  BY <1>1, <1>2 DEF RevokeRows, RowsTyped, TypeOK
<1>4. ASSUME NEW i \in Pairs, i \in S
      PROVE  /\ session'[i].user = session[i].user /\ session'[i].pair = session[i].pair
             /\ session'[i].password = session[i].password
             /\ session'[i].late = session[i].late /\ session'[i].revoked = TRUE
  <2>1. session[i] \in Rows /\ session'[i] = [session[i] EXCEPT !.revoked = TRUE]
    BY <1>1, <1>4
  <2> QED
    BY <2>1 DEF Rows
<1>5. ASSUME NEW i \in Pairs, session'[i] # None
      PROVE  /\ Stored(i)
             /\ session'[i].user = session[i].user /\ session'[i].pair = session[i].pair
             /\ session'[i].password = session[i].password
             /\ session'[i].late = session[i].late
             /\ ~session'[i].revoked => ~session[i].revoked /\ i \notin S
  <2>1. CASE i \in S
    BY <1>4, <2>1
  <2>2. CASE i \notin S
    BY <1>2, <1>5, <2>2 DEF Stored
  <2> QED
    BY <2>1, <2>2
<1> QED
  BY <1>3, <1>5 DEF RowsKeep

\* The row a login writes, and the one a refresh rotates.
LEMMA LoginRow ==
  ASSUME TypeOK, KnownInv, NEW c \in Clients, NEW p \in Pairs \ issued, CreateSession(c, p)
  PROVE  /\ session'[p] = NewRow(c, p) /\ NewRow(c, p) \in Rows
         /\ \A i \in Pairs \ {p} : session'[i] = session[i]
         /\ RowsTyped /\ UNCHANGED <<account, successor>> /\ issued' = issued \cup {p}
<1>1. op[c] \in Ops /\ op[c].password \in Passwords
  BY UnderWay DEF CreateSession, At, KnownInv, Given
<1>2. NewRow(c, p) \in Rows
  BY <1>1 DEF NewRow, Rows, Ops, Overtaken
<1> QED
  BY <1>2 DEF CreateSession, TypeOK, RowsTyped

LEMMA RefreshRow ==
  ASSUME TypeOK, KnownInv, NEW c \in Clients, NEW p \in Pairs \ issued, Refresh(c, p)
  PROVE  LET i == op[c].id IN
         /\ i \in Pairs /\ Stored(i) /\ session[i] \in Rows /\ session'[i] \in Rows
         /\ session'[i] = [session[i] EXCEPT !.pair = p, !.passed = FALSE]
         /\ \A j \in Pairs \ {i} : session'[j] = session[j]
         /\ RowsTyped /\ UNCHANGED account /\ issued' = issued \cup {p}
         /\ successor' = [successor EXCEPT ![session[i].pair] = p]
<1>1. op[c].id \in Pairs /\ Stored(op[c].id) /\ session[op[c].id].pair = op[c].pair
  BY DEF Refresh, At, SamePair, KnownInv, Given
<1>2. session[op[c].id] \in Rows
  BY <1>1, RowOf
<1>3. [session[op[c].id] EXCEPT !.pair = p, !.passed = FALSE] \in Rows
  BY <1>2 DEF Rows
<1>4. session' = [session EXCEPT ![op[c].id] =
                    [session[op[c].id] EXCEPT !.pair = p, !.passed = FALSE]]
  BY DEF Refresh, Rotated
<1> QED
  BY <1>1, <1>2, <1>3, <1>4 DEF Refresh, TypeOK, RowsTyped

\* Every step is of one of these kinds.
Signs == \E c \in Clients, p \in Pairs \ issued : CreateSession(c, p) \/ Refresh(c, p)

LEMMA StepKinds ==
  ASSUME TypeOK, [Next]_vars
  PROVE  Quiet \/ Signs
<1>1. ASSUME session' = session, issued' = issued, successor' = successor PROVE Quiet
  BY <1>1 DEF Quiet, RowsKeep, RowsTyped, TypeOK, Stored
<1>2. ASSUME NEW c \in Clients, Begins(c) PROVE Quiet
  <2>1. session' = session /\ issued' = issued /\ successor' = successor
    BY <1>2, BeginsOp
  <2> QED
    BY <1>1, <2>1
<1>3. ASSUME NEW c \in Clients, RecordFailedLogin(c) \/ RecordLogin(c) \/ ReadUser(c) \/ Refuse(c)
      PROVE  Quiet
  <2>1. session' = session /\ issued' = issued /\ successor' = successor
    BY <1>3 DEF RecordFailedLogin, RecordLogin, ReadUser, Refuse, pairVars
  <2> QED
    BY <1>1, <2>1
<1>4. ASSUME NEW c \in Clients, Logout(c) PROVE Quiet
  BY <1>4, Revoked DEF Logout, Presented, Unrevoked, Quiet, pairVars
<1>5. ASSUME NEW u \in Users, ChangePassword(u) \/ Deactivate(u) PROVE Quiet
  BY <1>5, Revoked DEF ChangePassword, Deactivate, HeldBy, Unrevoked, Quiet, pairVars
<1>6. ASSUME NEW u \in Users, Activate(u) \/ LockPasses(u) PROVE Quiet
  <2>1. session' = session /\ issued' = issued /\ successor' = successor
    BY <1>6 DEF Activate, LockPasses, pairVars
  <2> QED
    BY <1>1, <2>1
<1>7. ASSUME NEW i \in Pairs, SessionPasses(i) PROVE Quiet
  <2>1. /\ Stored(i) /\ session[i] \in Rows
        /\ session' = [session EXCEPT ![i] = [session[i] EXCEPT !.passed = TRUE]]
    BY <1>7, RowOf DEF SessionPasses
  <2>2. [session[i] EXCEPT !.passed = TRUE] \in Rows
    BY <2>1 DEF Rows
  <2>3. RowsTyped
    BY <2>1, <2>2 DEF RowsTyped, TypeOK
  <2>4. RowsKeep
    BY <2>1 DEF RowsKeep, Rows, TypeOK, Stored
  <2> QED
    BY <1>7, <2>3, <2>4 DEF SessionPasses, Quiet, pairVars
<1>8. CASE DeleteExpired
  <2>1. RowsTyped
    BY <1>8 DEF DeleteExpired, RowsTyped, TypeOK
  <2>2. RowsKeep
    BY <1>8 DEF DeleteExpired, RowsKeep, Stored
  <2> QED
    BY <1>8, <2>1, <2>2 DEF DeleteExpired, Quiet, pairVars
<1> QED
  BY <1>1, <1>2, <1>3, <1>4, <1>5, <1>6, <1>7, <1>8
     DEF Next, vars, Request, Begins, Signs, Administer, Pass

-------------------------------------------------------------------------------
(* Types.                                                                  *)

LEMMA TypeInit == Init => TypeOK
  BY AdminAssumption DEF Init, TypeOK, Accounts, Passwords

\* What a step may write into an account.
LEMMA AccountsNext ==
  ASSUME TypeOK, KnownInv, [Next]_vars
  PROVE  account' \in [Users -> Accounts] /\ guesses' \in [Users -> Nat] /\ passed' \in Nat
<1>1. CASE UNCHANGED <<account, guesses>> /\ passed' \in {passed, passed + 1}
  BY <1>1 DEF TypeOK
<1>2. ASSUME NEW c \in Clients, Begins(c)
      PROVE  UNCHANGED <<account, guesses>> /\ passed' \in {passed, passed + 1}
  BY <1>2, BeginsOp
<1>3. ASSUME NEW u \in Users, NEW r \in Accounts, account' = [account EXCEPT ![u] = r]
      PROVE  account' \in [Users -> Accounts]
  BY <1>3 DEF TypeOK
<1>4. ASSUME NEW c \in Clients, RecordFailedLogin(c)
      PROVE  account' \in [Users -> Accounts] /\ guesses' \in [Users -> Nat] /\ passed' \in Nat
  <2> DEFINE u == op[c].user
  <2>1. op[c] \in Ops
    BY <1>4, UnderWay DEF RecordFailedLogin, At
  <2>2. u \in Users /\ account[u] \in Accounts /\ op[c].lock \in BOOLEAN
    BY <2>1 DEF Ops, TypeOK
  <2>3. [account[u] EXCEPT !.failed = @ + 1, !.locked = @ \/ op[c].lock] \in Accounts
    <3>1. ASSUME NEW b \in BOOLEAN
          PROVE  [account[u] EXCEPT !.failed = @ + 1, !.locked = b] \in Accounts
      <4>1. account[u].failed + 1 \in Nat
        BY <2>2 DEF Accounts
      <4>2. [account[u] EXCEPT !.locked = b] \in Accounts
        BY <2>2 DEF Accounts
      <4> QED
        BY <2>2, <4>1, <4>2 DEF Accounts
    <3>2. PICK b \in BOOLEAN : b = (account[u].locked \/ op[c].lock)
      OBVIOUS
    <3>3. [account[u] EXCEPT !.failed = @ + 1, !.locked = b] \in Accounts
      BY <3>1
    <3> QED
      BY <3>2, <3>3, Zenon
  <2>4. account' = [account EXCEPT ![u] =
                      [account[u] EXCEPT !.failed = @ + 1, !.locked = @ \/ op[c].lock]]
    BY <1>4 DEF RecordFailedLogin
  <2>5. guesses' \in [Users -> Nat]
    BY <1>4, <2>2 DEF RecordFailedLogin, TypeOK
  <2> QED
    BY <1>3, <1>4, <2>2, <2>3, <2>4, <2>5 DEF RecordFailedLogin, TypeOK
<1>5. ASSUME NEW c \in Clients, RecordLogin(c)
      PROVE  account' \in [Users -> Accounts] /\ guesses' \in [Users -> Nat] /\ passed' \in Nat
  <2> DEFINE u == op[c].user
  <2>1. op[c] \in Ops
    BY <1>5, UnderWay DEF RecordLogin, At
  <2>2. u \in Users /\ account[u] \in Accounts
    BY <2>1 DEF Ops, TypeOK
  <2>3. [account[u] EXCEPT !.failed = 0, !.locked = FALSE] \in Accounts
    BY <2>2 DEF Accounts
  <2>4. account' = [account EXCEPT ![u] = [account[u] EXCEPT !.failed = 0, !.locked = FALSE]]
    BY <1>5 DEF RecordLogin
  <2>5. guesses' \in [Users -> Nat]
    BY <1>5, <2>2 DEF RecordLogin, TypeOK
  <2> QED
    BY <1>3, <1>5, <2>2, <2>3, <2>4, <2>5 DEF RecordLogin, TypeOK
<1>6. ASSUME NEW u \in Users, ChangePassword(u) \/ Deactivate(u) \/ Activate(u) \/ LockPasses(u)
      PROVE  account' \in [Users -> Accounts] /\ guesses' \in [Users -> Nat] /\ passed' \in Nat
  <2>1. account[u] \in Accounts
    BY DEF TypeOK
  <2>2. account[u].password < MaxPasswords => account[u].password + 1 \in Passwords
    BY <2>1, AdminAssumption DEF Accounts, Passwords
  <2>3. account[u].password < MaxPasswords => [account[u] EXCEPT !.password = @ + 1] \in Accounts
    BY <2>1, <2>2 DEF Accounts
  <2>4. /\ [account[u] EXCEPT !.active = FALSE] \in Accounts
        /\ [account[u] EXCEPT !.active = TRUE] \in Accounts
        /\ [account[u] EXCEPT !.locked = FALSE] \in Accounts
    BY <2>1 DEF Accounts
  <2>5. UNCHANGED guesses /\ passed' \in {passed, passed + 1}
    BY <1>6 DEF ChangePassword, Deactivate, Activate, LockPasses
  <2>6. account' \in [Users -> Accounts]
    BY <1>3, <1>6, <2>3, <2>4 DEF ChangePassword, Deactivate, Activate, LockPasses
  <2> QED
    BY <2>5, <2>6 DEF TypeOK
<1> QED
  BY <1>1, <1>2, <1>4, <1>5, <1>6 DEF Next, vars, Request, Begins, ReadUser, Logout, Refuse,
     CreateSession, Refresh, Administer, Pass, SessionPasses, DeleteExpired

LEMMA TypeNext ==
  ASSUME TypeOK, KnownInv, [Next]_vars
  PROVE  TypeOK'
<1>1. CASE Quiet
  BY <1>1, OpsNext, AccountsNext DEF Quiet, RowsTyped, TypeOK
<1>2. ASSUME NEW c \in Clients, NEW p \in Pairs \ issued, CreateSession(c, p) PROVE TypeOK'
  BY <1>2, LoginRow, OpsNext, AccountsNext DEF RowsTyped, TypeOK
<1>3. ASSUME NEW c \in Clients, NEW p \in Pairs \ issued, Refresh(c, p) PROVE TypeOK'
  <2>1. /\ RowsTyped /\ issued' = issued \cup {p}
        /\ \E i \in Pairs : session[i] \in Rows
                            /\ successor' = [successor EXCEPT ![session[i].pair] = p]
    BY <1>3, RefreshRow
  <2>2. successor' \in [Pairs -> Pairs \cup {None}]
    BY <2>1 DEF TypeOK
  <2> QED
    BY <2>1, <2>2, OpsNext, AccountsNext DEF RowsTyped, TypeOK
<1> QED
  BY <1>1, <1>2, <1>3, StepKinds DEF Signs

-------------------------------------------------------------------------------
(* What a session rests on.                                                *)

Rests(i) == Unrevoked(i) /\ ~session[i].late =>
              /\ account[session[i].user].active
              /\ account[session[i].user].password = session[i].password

\* Rows that keep what they rest on, while nothing is taken from under them.
LEMMA RestsStay ==
  ASSUME SessionsRest, RowsKeep,
         \A i \in Pairs : Stored(i) /\ session'[i] # None /\ ~session'[i].revoked =>
           /\ account[session[i].user].active => account'[session[i].user].active
           /\ account'[session[i].user].password = account[session[i].user].password
  PROVE  SessionsRest'
  BY DEF SessionsRest, RowsKeep, Unrevoked, Stored

LEMMA RestNext ==
  ASSUME TypeOK, KnownInv, SessionsRest, [Next]_vars
  PROVE  SessionsRest'
<1>1. \A i \in Pairs : Stored(i) => session[i].user \in Users
  BY RowOf DEF Rows
<1>2. ASSUME NEW c \in Clients, NEW p \in Pairs \ issued, CreateSession(c, p) PROVE SessionsRest'
  <2>1. /\ session'[p] = NewRow(c, p) /\ \A i \in Pairs \ {p} : session'[i] = session[i]
        /\ UNCHANGED account
    BY <1>2, LoginRow
  <2>2. /\ session'[p].user = op[c].user /\ session'[p].password = op[c].password
        /\ session'[p].late = Overtaken(c)
    BY <2>1 DEF NewRow
  <2>3. Rests(p)'
    BY <2>1, <2>2 DEF Rests, Unrevoked, Overtaken
  <2>4. ASSUME NEW j \in Pairs \ {p} PROVE Rests(j)'
    BY <2>1 DEF SessionsRest, Rests, Unrevoked, Stored
  <2> QED
    BY <2>3, <2>4 DEF SessionsRest, Rests
<1>3. ASSUME NEW c \in Clients, NEW p \in Pairs \ issued, Refresh(c, p) PROVE SessionsRest'
  <2>1. PICK i \in Pairs :
        /\ Stored(i) /\ UNCHANGED account /\ session[i] \in Rows
        /\ session'[i] = [session[i] EXCEPT !.pair = p, !.passed = FALSE]
        /\ \A j \in Pairs \ {i} : session'[j] = session[j]
    BY <1>3, RefreshRow
  <2>2. /\ session'[i].user = session[i].user /\ session'[i].password = session[i].password
        /\ session'[i].late = session[i].late /\ session'[i].revoked = session[i].revoked
    BY <2>1 DEF Rows
  <2>3. Rests(i)'
    BY <2>1, <2>2 DEF SessionsRest, Rests, Unrevoked, Stored
  <2>4. ASSUME NEW j \in Pairs \ {i} PROVE Rests(j)'
    BY <2>1 DEF SessionsRest, Rests, Unrevoked, Stored
  <2> QED
    BY <2>3, <2>4 DEF SessionsRest, Rests
<1>4. ASSUME NEW u \in Users, ChangePassword(u) \/ Deactivate(u) PROVE SessionsRest'
  <2>1. /\ RowsKeep
        /\ \A i \in Pairs : session'[i] # None /\ ~session'[i].revoked => i \notin HeldBy(u)
    BY <1>4, Revoked DEF ChangePassword, Deactivate, HeldBy, Unrevoked
  <2>2. \A i \in Pairs : Stored(i) /\ session'[i] # None /\ ~session'[i].revoked
                         => session[i].user # u
    BY <2>1 DEF HeldBy, Unrevoked, RowsKeep
  <2>3. \A v \in Users \ {u} : account'[v] = account[v]
    BY <1>4 DEF ChangePassword, Deactivate, TypeOK
  <2> QED
    BY <1>1, <2>1, <2>2, <2>3, RestsStay
<1>5. ASSUME RowsKeep,
             \A v \in Users : /\ account[v].active => account'[v].active
                              /\ account'[v].password = account[v].password
      PROVE  SessionsRest'
  BY <1>1, <1>5, RestsStay
<1>6. ASSUME NEW c \in Clients, RecordFailedLogin(c) \/ RecordLogin(c) PROVE SessionsRest'
  <2>1. op[c] \in Ops
    BY <1>6, UnderWay DEF RecordFailedLogin, RecordLogin, At
  <2>2. ASSUME NEW v \in Users
        PROVE  account'[v].active = account[v].active /\ account'[v].password = account[v].password
    <3>1. account \in [Users -> Accounts] /\ account[v] \in Accounts /\ op[c].user \in Users
      BY <2>1 DEF TypeOK, Ops
    <3>2. CASE v = op[c].user
      BY <1>6, <3>1, <3>2 DEF RecordFailedLogin, RecordLogin, Accounts
    <3>3. CASE v # op[c].user
      BY <1>6, <3>1, <3>3 DEF RecordFailedLogin, RecordLogin
    <3> QED
      BY <3>2, <3>3
  <2>3. RowsKeep
    BY <1>6 DEF RecordFailedLogin, RecordLogin, RowsKeep, Stored
  <2> QED
    BY <1>5, <2>2, <2>3
<1>7. ASSUME NEW u \in Users, Activate(u) \/ LockPasses(u) PROVE SessionsRest'
  <2>1. \A v \in Users : /\ account[v].active => account'[v].active
                         /\ account'[v].password = account[v].password
    BY <1>7 DEF Activate, LockPasses, TypeOK, Accounts
  <2>2. RowsKeep
    BY <1>7 DEF Activate, LockPasses, RowsKeep, Stored
  <2> QED
    BY <1>5, <2>1, <2>2
<1>8. ASSUME Quiet, UNCHANGED account PROVE SessionsRest'
  BY <1>5, <1>8 DEF Quiet
<1>9. ASSUME NEW c \in Clients, Begins(c) PROVE UNCHANGED account
  BY <1>9, BeginsOp
<1>10. ASSUME NEW c \in Clients, Begins(c) \/ ReadUser(c) \/ Logout(c) \/ Refuse(c)
       PROVE  SessionsRest'
  <2>1. UNCHANGED account
    BY <1>9, <1>10 DEF ReadUser, Logout, Refuse
  <2>2. UNCHANGED issued
    BY <1>10, BeginsOp DEF ReadUser, Logout, Refuse, pairVars
  <2>3. ~Signs
    BY <2>2 DEF Signs, CreateSession, Refresh
  <2>4. Quiet
    BY <1>10, <2>3, StepKinds DEF Next, Request, Begins
  <2> QED
    BY <1>8, <2>1, <2>4
<1>11. CASE DeleteExpired \/ (\E i \in Pairs : SessionPasses(i)) \/ UNCHANGED vars
  <2>1. UNCHANGED account /\ UNCHANGED issued
    BY <1>11 DEF DeleteExpired, SessionPasses, vars, pairVars
  <2>2. ~Signs
    BY <2>1 DEF Signs, CreateSession, Refresh
  <2> QED
    BY <1>8, <2>1, <2>2, StepKinds
<1> QED
  BY <1>2, <1>3, <1>4, <1>6, <1>7, <1>10, <1>11
     DEF Next, Request, Begins, Administer, Pass

-------------------------------------------------------------------------------
(* Pairs.                                                                  *)

LEMMA PairsNext ==
  ASSUME TypeOK, KnownInv, PairsInv, [Next]_vars
  PROVE  PairsInv'
<1>1. CASE Quiet
  BY <1>1 DEF Quiet, RowsKeep, PairsInv, Stored
<1>2. ASSUME NEW c \in Clients, NEW p \in Pairs \ issued, CreateSession(c, p) PROVE PairsInv'
  <2>1. /\ session'[p] = NewRow(c, p) /\ \A i \in Pairs \ {p} : session'[i] = session[i]
        /\ UNCHANGED successor /\ issued' = issued \cup {p}
    BY <1>2, LoginRow
  <2>2. session'[p].pair = p
    BY <2>1 DEF NewRow
  <2> QED
    BY <2>1, <2>2 DEF PairsInv, Stored
<1>3. ASSUME NEW c \in Clients, NEW p \in Pairs \ issued, Refresh(c, p) PROVE PairsInv'
  <2> DEFINE i == op[c].id
  <2>1. /\ i \in Pairs /\ Stored(i) /\ session[i] \in Rows
        /\ session'[i] = [session[i] EXCEPT !.pair = p, !.passed = FALSE]
        /\ \A j \in Pairs \ {i} : session'[j] = session[j]
        /\ issued' = issued \cup {p}
        /\ successor' = [successor EXCEPT ![session[i].pair] = p]
    BY <1>3, RefreshRow
  <2>2. session'[i].pair = p /\ session[i].pair \in Pairs
    BY <2>1 DEF Rows
  <2>3. \A q \in Pairs : successor'[q] = IF q = session[i].pair THEN p ELSE successor[q]
    BY <2>1, <2>2 DEF TypeOK
  <2>4. \A j \in Pairs : Stored(j)' => Stored(j) /\ (j # i => session[j].pair # session[i].pair)
    BY <2>1 DEF PairsInv, Stored
  <2>5. \A j \in Pairs : Stored(j)' => /\ j \in issued'
                                      /\ session'[j].pair \in issued'
                                      /\ successor'[session'[j].pair] = None
    <3>1. ASSUME NEW j \in Pairs \ {i}, Stored(j)
          PROVE  /\ session[j].pair \in Pairs /\ session[j].pair # session[i].pair
                 /\ session[j].pair \in issued /\ successor[session[j].pair] = None
      BY <2>1, <3>1, RowOf DEF PairsInv, Rows
    <3>2. i \in issued /\ successor[p] = None /\ p # session[i].pair
      BY <2>1 DEF PairsInv
    <3>3. i \in issued' /\ session'[i].pair \in issued' /\ successor'[session'[i].pair] = None
      BY <2>1, <2>2, <2>3, <3>2
    <3>4. ASSUME NEW j \in Pairs \ {i}, Stored(j)'
          PROVE  j \in issued' /\ session'[j].pair \in issued' /\ successor'[session'[j].pair] = None
      BY <2>1, <2>3, <2>4, <3>1, <3>4 DEF PairsInv
    <3> QED
      BY <3>3, <3>4
  <2>6. ASSUME NEW j \in Pairs, NEW l \in Pairs, Stored(j)', Stored(l)',
               session'[j].pair = session'[l].pair
        PROVE  j = l
    <3>1. ASSUME NEW q \in Pairs \ {i}, Stored(q) PROVE session[q].pair # p
      BY <3>1 DEF PairsInv
    <3>2. ASSUME NEW q \in Pairs \ {i}, Stored(q)'
          PROVE  Stored(q) /\ session'[q].pair = session[q].pair /\ session'[q].pair # p
      BY <2>1, <2>4, <3>1, <3>2
    <3>3. CASE j = i \/ l = i
      BY <2>2, <2>6, <3>2, <3>3
    <3>4. CASE j # i /\ l # i
      BY <2>6, <3>2, <3>4 DEF PairsInv
    <3> QED
      BY <3>3, <3>4
  <2> QED
    BY <2>1, <2>2, <2>3, <2>5, <2>6 DEF PairsInv
<1> QED
  BY <1>1, <1>2, <1>3, StepKinds DEF Signs

-------------------------------------------------------------------------------
(* Wrong passwords.                                                        *)

LEMMA PendingFinite ==
  ASSUME NEW S \in SUBSET Clients
  PROVE  /\ IsFiniteSet(S) /\ Cardinality(S) \in Nat
         /\ Cardinality(Clients) \in Nat /\ Cardinality(S) <= Cardinality(Clients)
  BY AdminAssumption, FS_Subset, FS_CardinalityType

\* No wrong password begins, and none is counted or forgiven.
LEMMA GuessStays ==
  ASSUME TypeOK, GuessInv, OpsGoOn, account' \in [Users -> Accounts],
         \A u \in Users : guesses'[u] = guesses[u] /\ account'[u].failed = account[u].failed
  PROVE  GuessInv'
<1>1. SUFFICES ASSUME NEW u \in Users
               PROVE  guesses[u] + Cardinality(Pending(u)') <= Cardinality(Clients) + 3
  BY DEF GuessInv
<1>2. Pending(u)' \subseteq Pending(u)
  BY DEF OpsGoOn, Pending
<1>3. Cardinality(Pending(u)') <= Cardinality(Pending(u))
  BY <1>2, PendingFinite, FS_Subset DEF Pending
<1>4. /\ Cardinality(Pending(u)') \in Nat /\ Cardinality(Pending(u)) \in Nat
      /\ Cardinality(Clients) \in Nat /\ guesses[u] \in Nat
  BY <1>2, PendingFinite DEF Pending, TypeOK
<1> QED
  BY <1>3, <1>4 DEF GuessInv

LEMMA GuessBegins ==
  ASSUME TypeOK, GuessInv, NEW c \in Clients, Begins(c)
  PROVE  GuessInv'
<1>1. PICK o \in Ops : /\ op' = [op EXCEPT ![c] = o]
                       /\ o.next = "failed" /\ ~o.lock => account[o.user].failed <= 3
  BY BeginsOp
<1>2. account' = account /\ guesses' = guesses
  BY BeginsOp
<1>3. SUFFICES ASSUME NEW u \in Users
               PROVE  guesses[u] + Cardinality(Pending(u)') <= Cardinality(Clients) + 3
  BY <1>2 DEF GuessInv
<1>4. /\ Pending(u)' \in SUBSET Clients /\ Pending(u) \in SUBSET Clients
      /\ guesses[u] \in Nat /\ account[u].failed \in Nat
  BY DEF Pending, TypeOK, Accounts
<1>5. CASE o.next = "failed" /\ ~o.lock /\ o.user = u
  BY <1>1, <1>4, <1>5, PendingFinite DEF GuessInv
<1>6. CASE ~(o.next = "failed" /\ ~o.lock /\ o.user = u)
  <2>1. op'[c] = o /\ \A d \in Clients \ {c} : op'[d] = op[d]
    BY <1>1 DEF TypeOK
  <2>2. Pending(u)' \subseteq Pending(u)
    BY <1>6, <2>1 DEF Pending
  <2>3. Cardinality(Pending(u)') <= Cardinality(Pending(u))
    BY <1>4, <2>2, PendingFinite, FS_Subset
  <2> QED
    BY <1>4, <2>3, PendingFinite DEF GuessInv
<1> QED
  BY <1>5, <1>6

LEMMA GuessCounted ==
  ASSUME TypeOK, GuessInv, NEW c \in Clients, RecordFailedLogin(c)
  PROVE  GuessInv'
<1>1. PICK v \in Users : /\ op[c] # Idle /\ op[c].next = "failed" /\ op[c] \in Ops
                         /\ op[c].user = v /\ op[c].lock \in BOOLEAN
  BY UnderWay DEF RecordFailedLogin, At, Ops
<1>2. op'[c] = Idle /\ \A d \in Clients \ {c} : op'[d] = op[d]
  BY DEF RecordFailedLogin, End, TypeOK
<1>3. /\ guesses'[v] = (IF op[c].lock THEN 0 ELSE guesses[v] + 1)
      /\ \A u \in Users \ {v} : guesses'[u] = guesses[u]
  BY <1>1 DEF RecordFailedLogin, TypeOK
<1>4. /\ account'[v].failed = account[v].failed + 1
      /\ \A u \in Users \ {v} : account'[u] = account[u]
  BY <1>1 DEF RecordFailedLogin, TypeOK, Accounts
<1>5. ASSUME NEW u \in Users
      PROVE  /\ Pending(u)' \in SUBSET Clients /\ Pending(u) \in SUBSET Clients
             /\ Pending(u)' \subseteq Pending(u)
             /\ guesses[u] \in Nat /\ account[u].failed \in Nat
  BY <1>1, <1>2 DEF Pending, TypeOK, Accounts
<1>6. ASSUME NEW u \in Users \ {v}
      PROVE  /\ guesses'[u] <= account'[u].failed
             /\ guesses'[u] + Cardinality(Pending(u)') <= Cardinality(Clients) + 3
  <2>1. Cardinality(Pending(u)') <= Cardinality(Pending(u))
    BY <1>5, PendingFinite, FS_Subset
  <2> QED
    BY <1>3, <1>4, <1>5, <2>1, PendingFinite DEF GuessInv
<1>7. /\ guesses'[v] <= account'[v].failed
      /\ guesses'[v] + Cardinality(Pending(v)') <= Cardinality(Clients) + 3
  <2> DEFINE P == Pending(v)
             Q == Pending(v)'
  <2>1. /\ Q \in SUBSET Clients /\ P \in SUBSET Clients
        /\ guesses[v] \in Nat /\ account[v].failed \in Nat
    BY <1>1, <1>5
  <2>2. /\ Cardinality(Q) \in Nat /\ Cardinality(P) \in Nat /\ Cardinality(Clients) \in Nat
        /\ Cardinality(Q) <= Cardinality(Clients) /\ IsFiniteSet(P)
    BY <2>1, PendingFinite
  <2>3. /\ guesses[v] <= account[v].failed
        /\ guesses[v] + Cardinality(P) <= Cardinality(Clients) + 3
    BY <1>1 DEF GuessInv
  <2>4. CASE op[c].lock
    <3>1. guesses'[v] = 0
      BY <1>3, <2>4
    <3> QED
      BY ONLY <1>4, <2>1, <2>2, <3>1
  <2>5. CASE ~op[c].lock
    <3>1. c \in P
      BY <1>1, <2>5 DEF Pending
    <3>2. ASSUME NEW d \in Clients PROVE d \in Q <=> d \in P /\ d # c
      BY <1>2 DEF Pending
    <3>3. Q = P \ {c}
      BY <2>1, <3>2
    <3>4. Cardinality(Q) = Cardinality(P) - 1
      BY <2>2, <3>1, <3>3, FS_RemoveElement
    <3>5. guesses'[v] = guesses[v] + 1
      BY <1>3, <2>5
    <3> QED
      BY <1>4, <2>1, <2>2, <2>3, <3>4, <3>5
  <2> QED
    BY <2>4, <2>5
<1>8. ASSUME NEW u \in Users
      PROVE  /\ guesses'[u] <= account'[u].failed
             /\ guesses'[u] + Cardinality(Pending(u)') <= Cardinality(Clients) + 3
  <2>1. CASE u = v
    BY <1>7, <2>1
  <2>2. CASE u # v
    BY <1>6, <2>2
  <2> QED
    BY <2>1, <2>2
<1> QED
  BY <1>8 DEF GuessInv

LEMMA GuessForgiven ==
  ASSUME TypeOK, KnownInv, GuessInv, NEW c \in Clients, RecordLogin(c)
  PROVE  GuessInv'
<1> DEFINE v == op[c].user
<1>1. op[c] # Idle /\ op[c] \in Ops /\ v \in Users
  BY UnderWay DEF RecordLogin, At, Ops
<1>2. op' = [op EXCEPT ![c] = [op[c] EXCEPT !.next = "issue"]]
  BY DEF RecordLogin, Go
<1>3. op'[c].next = "issue" /\ \A d \in Clients \ {c} : op'[d] = op[d]
  BY <1>1, <1>2 DEF TypeOK, Ops
<1>4. guesses'[v] = 0 /\ \A u \in Users \ {v} : guesses'[u] = guesses[u]
  BY <1>1 DEF RecordLogin, TypeOK
<1>5. account'[v].failed = 0 /\ \A u \in Users \ {v} : account'[u] = account[u]
  BY <1>1 DEF RecordLogin, TypeOK, Accounts
<1>6. ASSUME NEW u \in Users
      PROVE  /\ Pending(u)' \in SUBSET Clients /\ Pending(u) \in SUBSET Clients
             /\ Pending(u)' \subseteq Pending(u)
             /\ guesses[u] \in Nat /\ account[u].failed \in Nat
  BY <1>3 DEF Pending, TypeOK, Accounts
<1>7. ASSUME NEW u \in Users
      PROVE  /\ guesses'[u] <= account'[u].failed
             /\ guesses'[u] + Cardinality(Pending(u)') <= Cardinality(Clients) + 3
  <2>1. Cardinality(Pending(u)') <= Cardinality(Pending(u))
    BY <1>6, PendingFinite, FS_Subset
  <2>2. CASE u = v
    BY <1>4, <1>5, <1>6, <2>2, PendingFinite
  <2>3. CASE u # v
    <3>1. guesses'[u] = guesses[u] /\ account'[u] = account[u]
      BY <1>4, <1>5, <2>3
    <3> QED
      BY <1>6, <2>1, <3>1, PendingFinite DEF GuessInv
  <2> QED
    BY <2>2, <2>3
<1> QED
  BY <1>7 DEF GuessInv

LEMMA GuessNext ==
  ASSUME TypeOK, KnownInv, GuessInv, [Next]_vars
  PROVE  GuessInv'
<1>1. account' \in [Users -> Accounts]
  BY AccountsNext
<1>2. CASE OpsGoOn /\ UNCHANGED <<account, guesses>>
  BY <1>1, <1>2, GuessStays
<1>3. ASSUME NEW c \in Clients, End(c) PROVE OpsGoOn
  BY <1>3 DEF End, TypeOK, OpsGoOn
<1>4. ASSUME NEW c \in Clients, ReadUser(c) PROVE OpsGoOn
  BY <1>4, GoesOn
<1>5. ASSUME NEW u \in Users, ChangePassword(u) \/ Deactivate(u) \/ Activate(u) \/ LockPasses(u)
      PROVE  GuessInv'
  <2>1. \A v \in Users : guesses'[v] = guesses[v] /\ account'[v].failed = account[v].failed
    BY <1>5 DEF ChangePassword, Deactivate, Activate, LockPasses, TypeOK, Accounts
  <2>2. OpsGoOn
    BY <1>5 DEF ChangePassword, Deactivate, Activate, LockPasses, OpsGoOn
  <2> QED
    BY <1>1, <2>1, <2>2, GuessStays
<1>6. ASSUME NEW c \in Clients,
             ReadUser(c) \/ Logout(c) \/ Refuse(c)
               \/ (\E p \in Pairs \ issued : CreateSession(c, p) \/ Refresh(c, p))
      PROVE  GuessInv'
  BY <1>2, <1>3, <1>4, <1>6 DEF ReadUser, Logout, Refuse, CreateSession, Refresh
<1>7. CASE UNCHANGED <<account, guesses, op>>
  BY <1>2, <1>7 DEF OpsGoOn
<1> QED
  BY <1>5, <1>6, <1>7, GuessBegins, GuessCounted, GuessForgiven
     DEF Next, vars, Request, Begins, Administer, Pass, SessionPasses, DeleteExpired

-------------------------------------------------------------------------------
(* The theorems.                                                           *)

LEMMA LInit == Init => LInv
<1>1. SUFFICES ASSUME Init PROVE LInv
  OBVIOUS
<1>2. TypeOK
  BY <1>1, TypeInit
<1>3. KnownInv /\ SessionsRest /\ PairsInv
  BY <1>1 DEF Init, KnownInv, SessionsRest, PairsInv, Unrevoked, Stored
<1>4. GuessInv
  <2>1. SUFFICES ASSUME NEW u \in Users
                 PROVE  /\ guesses[u] <= account[u].failed
                        /\ guesses[u] + Cardinality(Pending(u)) <= Cardinality(Clients) + 3
    BY DEF GuessInv
  <2>2. guesses[u] = 0 /\ account[u].failed = 0
    BY <1>1 DEF Init
  <2>3. Pending(u) \in SUBSET Clients
    BY DEF Pending
  <2> QED
    BY <2>2, <2>3, PendingFinite
<1> QED
  BY <1>2, <1>3, <1>4 DEF LInv

LEMMA LInductive == Spec => []LInv
<1>1. LInv /\ [Next]_vars => LInv'
  BY TypeNext, KnownNext, RestNext, PairsNext, GuessNext DEF LInv
<1> QED
  BY <1>1, LInit, PTL DEF Spec

\* Every variable has its type (admin_users and admin_sessions, service/identity/admin_auth.go).
THEOREM AdminTypeCorrect == Spec => []TypeOK
<1>1. LInv => TypeOK
  BY DEF LInv
<1> QED
  BY <1>1, LInductive, PTL

\* No change of password and no deactivation leaves a session behind but one whose login
\* it overtook, whatever refreshes are under way (admin_user.go).
THEOREM AdminSessionsRest == Spec => []SessionsRest
<1>1. LInv => SessionsRest
  BY DEF LInv
<1> QED
  BY <1>1, LInductive, PTL

\* However many requests race each other, no more wrong passwords are counted between two
\* locks or logins than four and one for each other request (IssuePasswordToken,
\* RecordFailedLogin).
THEOREM GuessesLimited == Spec => []GuessesBounded
<1>1. LInv => GuessesBounded
  <2>1. SUFFICES ASSUME LInv, NEW u \in Users PROVE guesses[u] <= Cardinality(Clients) + 3
    BY DEF GuessesBounded
  <2>2. Pending(u) \in SUBSET Clients /\ guesses[u] \in Nat
    BY <2>1 DEF Pending, LInv, TypeOK
  <2>3. guesses[u] + Cardinality(Pending(u)) <= Cardinality(Clients) + 3
    BY <2>1 DEF LInv, GuessInv
  <2> QED
    BY <2>2, <2>3, PendingFinite
<1> QED
  BY <1>1, LInductive, PTL

-------------------------------------------------------------------------------
(* AdminSessions implements Sessions.                                      *)

LEMMA LiveIssued ==
  ASSUME PairsInv
  PROVE  live \subseteq issued
  BY DEF PairsInv, live, Unrevoked

\* A step that signs nothing ends some of the live pairs, or none.
LEMMA QuietFinishes ==
  ASSUME PairsInv, Quiet
  PROVE  Promised!Finish
<1>1. live' \subseteq live
  <2>1. SUFFICES ASSUME NEW p, NEW i \in Pairs, Unrevoked(i)', session'[i].pair = p
                 PROVE  p \in live
    BY DEF live
  <2>2. Unrevoked(i) /\ session[i].pair = p
    BY <2>1 DEF Quiet, RowsKeep, Unrevoked, Stored
  <2> QED
    BY <2>2 DEF live
<1> QED
  BY <1>1, LiveIssued DEF Promised!Finish, ended, Quiet

LEMMA LoginIssues ==
  ASSUME TypeOK, KnownInv, PairsInv, NEW c \in Clients, NEW p \in Pairs \ issued, CreateSession(c, p)
  PROVE  Promised!Issue(p)
<1>1. /\ session'[p] = NewRow(c, p) /\ \A i \in Pairs \ {p} : session'[i] = session[i]
      /\ UNCHANGED successor /\ issued' = issued \cup {p}
  BY LoginRow
<1>2. session'[p].pair = p /\ ~session'[p].revoked /\ session'[p] # None
  <2>1. NewRow(c, p) \in Rows
    BY LoginRow
  <2>2. session'[p] # None
    BY <1>1, <2>1, AdminAssumption
  <2>3. session'[p].pair = p /\ session'[p].revoked = FALSE
    BY <1>1 DEF NewRow
  <2> QED
    BY <2>2, <2>3
<1>3. live' = live \cup {p}
  <2>1. ASSUME NEW q PROVE q \in live' <=> q \in live \/ q = p
    BY <1>1, <1>2 DEF live, Unrevoked, Stored, PairsInv
  <2> QED
    BY <2>1
<1> QED
  BY <1>1, <1>3, LiveIssued DEF Promised!Issue, Promised!Fresh, ended

LEMMA RefreshExchanges ==
  ASSUME TypeOK, KnownInv, PairsInv, NEW c \in Clients, NEW p \in Pairs \ issued, Refresh(c, p)
  PROVE  \E old \in Pairs : Promised!Exchange(old, p) \/ Promised!ExchangeLate(old, p)
<1>1. PICK i \in Pairs :
        /\ Stored(i) /\ session[i] \in Rows /\ session'[i] \in Rows
        /\ session'[i] = [session[i] EXCEPT !.pair = p, !.passed = FALSE]
        /\ \A j \in Pairs \ {i} : session'[j] = session[j]
        /\ issued' = issued \cup {p}
        /\ successor' = [successor EXCEPT ![session[i].pair] = p]
  BY RefreshRow
<1> DEFINE old == session[i].pair
<1>2. old \in Pairs /\ old \in issued /\ successor[old] = None /\ old # p
  BY <1>1 DEF Rows, PairsInv
<1>3. session'[i].pair = p /\ session'[i].revoked = session[i].revoked /\ session'[i] # None
  BY <1>1, AdminAssumption DEF Rows
<1>4. \A j \in Pairs \ {i} : Unrevoked(j) => session[j].pair # old /\ session[j].pair # p
  BY <1>1 DEF PairsInv, Unrevoked
<1>5. /\ Unrevoked(i)' <=> Unrevoked(i)
      /\ \A j \in Pairs \ {i} : /\ Unrevoked(j)' <=> Unrevoked(j)
                              /\ session'[j].pair = session[j].pair
  BY <1>1, <1>3 DEF Unrevoked, Stored
<1>6. CASE ~session[i].revoked
  <2>1. old \in live
    BY <1>1, <1>2, <1>6 DEF live, Unrevoked
  <2>2. ASSUME NEW q PROVE q \in live' <=> (q \in live /\ q # old) \/ q = p
    <3>1. q \in live' => (q \in live /\ q # old) \/ q = p
      BY <1>3, <1>4, <1>5 DEF live
    <3>2. q \in live /\ q # old => q \in live'
      BY <1>5 DEF live
    <3>3. p \in live'
      BY <1>1, <1>3, <1>6, <1>5 DEF live, Unrevoked
    <3> QED
      BY <3>1, <3>2, <3>3
  <2>3. live' = (live \ {old}) \cup {p}
    BY <2>2
  <2>4. old \in live /\ p \in Pairs \ (live \cup ended) /\ ended' = ended \cup {old}
    BY <1>1, <1>2, <2>1, <2>3, LiveIssued DEF ended
  <2> QED
    BY <1>1, <1>2, <2>3, <2>4 DEF Promised!Exchange, Promised!Fresh
<1>7. CASE session[i].revoked
  <2>1. old \notin live
    BY <1>1, <1>4, <1>7 DEF live, Unrevoked
  <2>2. ASSUME NEW q PROVE q \in live' <=> q \in live
    <3>1. ~Unrevoked(i)
      BY <1>7 DEF Unrevoked
    <3> QED
      BY <1>5, <3>1 DEF live
  <2>3. live' = live
    BY <2>2
  <2>4. /\ old \in ended /\ p \in Pairs \ (live \cup ended) /\ ended' = ended \cup {p}
        /\ UNCHANGED live
    BY <1>1, <1>2, <2>1, <2>3, LiveIssued DEF ended
  <2> QED
    BY <1>1, <1>2, <2>4 DEF Promised!ExchangeLate, Promised!Fresh
<1> QED
  BY <1>2, <1>6, <1>7

LEMMA RefinesStep ==
  LInv /\ [Next]_vars => [Promised!Next]_(Promised!pairVars)
<1>1. SUFFICES ASSUME LInv, [Next]_vars PROVE [Promised!Next]_(Promised!pairVars)
  OBVIOUS
<1>2. CASE Quiet
  BY <1>1, <1>2, QuietFinishes DEF LInv, Promised!Next
<1>3. ASSUME NEW c \in Clients, NEW p \in Pairs \ issued, CreateSession(c, p) PROVE Promised!Next
  BY <1>1, <1>3, LoginIssues DEF LInv, Promised!Next
<1>4. ASSUME NEW c \in Clients, NEW p \in Pairs \ issued, Refresh(c, p) PROVE Promised!Next
  BY <1>1, <1>4, RefreshExchanges DEF LInv, Promised!Next
<1> QED
  BY <1>1, <1>2, <1>3, <1>4, StepKinds DEF LInv, Signs

LEMMA RefinesInit == Init => Promised!Init
  BY DEF Init, Promised!Init, live, ended, Unrevoked, Stored

\* However refreshes, logouts, changes of password and expiries interleave, a pair is
\* exchanged at most once and never authorizes again once it has ended (Rotate,
\* repository/admin.go).
THEOREM AdminImplements == Spec => ImplementsSessions
  BY RefinesInit, RefinesStep, LInductive, PTL DEF Spec, Promised!Spec, ImplementsSessions

-------------------------------------------------------------------------------
(* What the promise comes to, by the abstract module alone.                *)

PromisedInv ==
  /\ successor \in [Pairs -> Pairs \cup {None}]
  /\ Promised!OneLine

PromisedKept ==
  /\ ended \subseteq ended'
  /\ \A p \in Pairs : successor[p] # None => successor'[p] = successor[p]

LEMMA PairsAreSome == None \notin Pairs
  BY AdminAssumption

LEMMA PromisedStart == Promised!Init => PromisedInv
  BY DEF Promised!Init, PromisedInv, Promised!OneLine

\* A fresh pair is nobody's successor yet, and one that is live has none.
LEMMA PromisedStep ==
  PromisedInv /\ [Promised!Next]_(Promised!pairVars) => PromisedInv' /\ PromisedKept
<1> SUFFICES ASSUME PromisedInv, [Promised!Next]_(Promised!pairVars)
             PROVE  PromisedInv' /\ PromisedKept
  OBVIOUS
<1> USE DEF PromisedInv, Promised!OneLine, PromisedKept
<1>1. ASSUME NEW p \in Pairs, Promised!Issue(p) PROVE PromisedInv' /\ PromisedKept
  BY <1>1 DEF Promised!Issue, Promised!Fresh
<1>2. ASSUME NEW p \in Pairs, NEW q \in Pairs,
             Promised!Exchange(p, q) \/ Promised!ExchangeLate(p, q)
      PROVE  PromisedInv' /\ PromisedKept
  <2>1. /\ q \in Pairs \ (live \cup ended) /\ p # q
        /\ successor' = [successor EXCEPT ![p] = q] /\ successor[p] = None
        /\ live' \cup ended' = live \cup ended \cup {q}
        /\ live' \cap ended' = {} /\ p \in ended' /\ ended \subseteq ended'
    BY <1>2, PairsAreSome DEF Promised!Exchange, Promised!ExchangeLate, Promised!Fresh
  <2>2. \A r \in Pairs : successor'[r] = IF r = p THEN q ELSE successor[r]
    BY <2>1
  <2>3. \A r \in Pairs : successor[r] # None => successor[r] # q
    BY <2>1
  <2>4. successor' \in [Pairs -> Pairs \cup {None}]
    BY <2>1
  <2>5. \A r \in Pairs : successor'[r] # None => r \in ended' /\ successor'[r] \in live' \cup ended'
    BY <2>1, <2>2
  <2>6. \A r, s \in Pairs : successor'[r] = successor'[s] /\ successor'[r] # None => r = s
    BY <2>2, <2>3, PairsAreSome
  <2>7. \A r \in Pairs : successor[r] # None => successor'[r] = successor[r]
    BY <2>1, <2>2
  <2> QED
    BY <2>1, <2>4, <2>5, <2>6, <2>7
<1>3. ASSUME Promised!Finish PROVE PromisedInv' /\ PromisedKept
  BY <1>3 DEF Promised!Finish
<1>4. CASE UNCHANGED Promised!pairVars
  BY <1>4 DEF Promised!pairVars
<1> QED
  BY <1>1, <1>2, <1>3, <1>4 DEF Promised!Next

LEMMA PromiseHeld == ImplementsSessions => []Promised!OneLine /\ Promised!EndedForGood
<1>1. PromisedInv => Promised!OneLine
  BY DEF PromisedInv
<1>2. PromisedKept => /\ ended \subseteq ended'
                      /\ \A p \in Pairs : successor[p] # None => successor'[p] = successor[p]
  BY DEF PromisedKept
<1> QED
  BY <1>1, <1>2, PromisedStart, PromisedStep, PTL
     DEF ImplementsSessions, Promised!Spec, Promised!EndedForGood

\* So the pairs of an administrator's session are one line, of which the last alone may
\* authorize, however often a refresh token is used, and whoever uses it.
THEOREM AdminPairsOneLine == Spec => []Promised!OneLine /\ Promised!EndedForGood
  BY AdminImplements, PromiseHeld, PTL
===============================================================================
