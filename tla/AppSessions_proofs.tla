-------------------------- MODULE AppSessions_proofs --------------------------
(***************************************************************************)
(* What the run of AppSessions checks for two requests on one credential,  *)
(* proved for every set of requests, applications, credentials and pairs.  *)
(***************************************************************************)
EXTENDS AppSessions, TLAPS

-------------------------------------------------------------------------------
(* The inductive invariant.                                                *)

\* Sessions and requests name credentials that exist, and a request what it has read.
Given(o) ==
  IF o.kind = "grant" THEN o.secret \in Secrets
                      ELSE o.id \in Pairs /\ o.pair \in Pairs

KnownInv ==
  /\ \A i \in Pairs : Stored(i) => Exists(session[i].cred)
  /\ \A c \in Clients : op[c] # Idle => Exists(op[c].cred) /\ Given(op[c])

\* What a doomed request is going to be refused for.
Doom(o) ==
  \/ cred[o.cred].passed
  \/ ~app[AppOf[o.cred]]
  \/ o.next = "credential" /\ ~cred[o.cred].active

DoomedInv ==
  \A c \in Clients : op[c] # Idle /\ op[c].doomed => op[c].next # "issue" /\ Doom(op[c])

\* A row holds a pair that was issued and has not been exchanged, and no other row does.
PairsInv ==
  /\ \A i \in Pairs : Stored(i) =>
       i \in issued /\ session[i].pair \in issued /\ successor[session[i].pair] = None
  /\ \A i, j \in Pairs : Stored(i) /\ Stored(j) /\ session[i].pair = session[j].pair => i = j
  /\ \A p \in Pairs : successor[p] # None => p \in issued

SInv == TypeOK /\ KnownInv /\ DoomedInv /\ SessionsRest /\ RevokedStopsWorking /\ PairsInv

-------------------------------------------------------------------------------
(* What is taken from the types.                                           *)

LEMMA UnderWay ==
  ASSUME TypeOK, NEW c \in Clients, op[c] # Idle
  PROVE  op[c] \in Ops
  BY DEF TypeOK

LEMMA RowOf ==
  ASSUME TypeOK, NEW i \in Pairs, Stored(i)
  PROVE  session[i] \in Rows
  BY DEF TypeOK, Stored

LEMMA CredOf ==
  ASSUME TypeOK, NEW k \in Creds, Exists(k)
  PROVE  cred[k] \in Credentials
  BY DEF TypeOK, Exists

-------------------------------------------------------------------------------
(* How the requests under way may change.                                  *)

\* One of them begins.
Begun(c, o) == op[c] = Idle /\ o \in Ops /\ op' = [op EXCEPT ![c] = o]

LEMMA BegunGrant ==
  ASSUME TypeOK, NEW c \in Clients, NEW k \in Creds, BeginGrant(c, k)
  PROVE  \E o \in Ops : /\ Begun(c, o) /\ o.kind = "grant" /\ o.cred = k /\ Exists(k)
                        /\ o.secret = cred[k].secret /\ o.next = "app"
                        /\ o.doomed = ~Usable(k) /\ cred[k].active
<1> DEFINE o == [kind |-> "grant", cred |-> k, secret |-> cred[k].secret,
                 id |-> None, pair |-> None, next |-> "app", doomed |-> ~Usable(k)]
<1>1. cred[k] \in Credentials
  BY CredOf DEF BeginGrant
<1>2. o \in Ops
  BY <1>1 DEF Credentials, Ops
<1>3. Begun(c, o)
  BY <1>2 DEF BeginGrant, Begin, Begun
<1> QED
  BY <1>2, <1>3 DEF BeginGrant

LEMMA BegunByToken ==
  ASSUME TypeOK, NEW c \in Clients, NEW i \in Pairs, Stored(i),
         BeginRefresh(c, i) \/ BeginRequest(c, i)
  PROVE  \E o \in Ops : /\ Begun(c, o) /\ o.kind # "grant" /\ o.cred = session[i].cred
                        /\ o.id = i /\ o.pair = session[i].pair /\ o.pair \in Pairs
                        /\ o.next = "credential" /\ o.doomed = ~Usable(session[i].cred)
<1>1. session[i] \in Rows
  BY RowOf
<1>2. SUFFICES ASSUME NEW kind \in {"refresh", "request"},
                      Begin(c, [kind |-> kind, cred |-> session[i].cred, secret |-> None,
                                id |-> i, pair |-> session[i].pair, next |-> "credential",
                                doomed |-> ~Usable(session[i].cred)])
               PROVE  \E o \in Ops :
                        /\ Begun(c, o) /\ o.kind # "grant" /\ o.cred = session[i].cred
                        /\ o.id = i /\ o.pair = session[i].pair /\ o.pair \in Pairs
                        /\ o.next = "credential" /\ o.doomed = ~Usable(session[i].cred)
  BY DEF BeginRefresh, BeginRequest
<1> DEFINE o == [kind |-> kind, cred |-> session[i].cred, secret |-> None,
                 id |-> i, pair |-> session[i].pair, next |-> "credential",
                 doomed |-> ~Usable(session[i].cred)]
<1>3. o \in Ops
  BY <1>1 DEF Rows, Ops
<1>4. Begun(c, o)
  BY <1>2, <1>3 DEF Begin, Begun
<1> QED
  BY <1>1, <1>3, <1>4 DEF Rows

\* The fields that a step of a request leaves alone.
Same(o, q) == /\ o.kind = q.kind /\ o.cred = q.cred /\ o.secret = q.secret
              /\ o.id = q.id /\ o.pair = q.pair

LEMMA GoneOn ==
  ASSUME TypeOK, NEW c \in Clients, NEW step \in {"app", "issue"}, op[c] # Idle, Go(c, step)
  PROVE  /\ op'[c] \in Ops /\ op'[c] # Idle
         /\ Same(op'[c], op[c]) /\ op'[c].next = step /\ op'[c].doomed = op[c].doomed
         /\ \A d \in Clients \ {c} : op'[d] = op[d]
         /\ op' \in [Clients -> Ops \cup {Idle}]
<1>1. op[c] \in Ops
  BY UnderWay
<1>2. op' = [op EXCEPT ![c] = [op[c] EXCEPT !.next = step]]
  BY DEF Go
<1>3. [op[c] EXCEPT !.next = step] \in Ops /\ [op[c] EXCEPT !.next = step] # Idle
  BY <1>1 DEF Ops, Idle
<1>4. op'[c] = [op[c] EXCEPT !.next = step]
  BY <1>2 DEF TypeOK
<1> QED
  BY <1>1, <1>2, <1>3, <1>4 DEF TypeOK, Ops, Same

LEMMA Ended ==
  ASSUME TypeOK, NEW c \in Clients, End(c)
  PROVE  /\ op'[c] = Idle
         /\ \A d \in Clients \ {c} : op'[d] = op[d]
         /\ op' \in [Clients -> Ops \cup {Idle}]
  BY DEF TypeOK, End

LEMMA Spared ==
  ASSUME TypeOK, NEW S, Spare(S)
  PROVE  /\ op' \in [Clients -> Ops \cup {Idle}]
         /\ \A c \in Clients :
              /\ op'[c] = Idle <=> op[c] = Idle
              /\ op[c] # Idle => /\ Same(op'[c], op[c]) /\ op'[c].next = op[c].next
                                 /\ op'[c].doomed => op[c].doomed /\ op[c].cred \notin S
<1>1. SUFFICES ASSUME NEW c \in Clients
               PROVE  /\ op'[c] \in Ops \cup {Idle}
                      /\ op'[c] = Idle <=> op[c] = Idle
                      /\ op[c] # Idle => /\ Same(op'[c], op[c]) /\ op'[c].next = op[c].next
                                         /\ op'[c].doomed => op[c].doomed /\ op[c].cred \notin S
  BY DEF Spare
<1>2. CASE op[c] = Idle
  BY <1>2 DEF Spare
<1>3. CASE op[c] # Idle /\ op[c].cred \in S
  <2>1. op[c] \in Ops /\ op'[c] = [op[c] EXCEPT !.doomed = FALSE]
    BY <1>3, UnderWay DEF Spare
  <2>2. op'[c] \in Ops /\ op'[c] # Idle
    BY <2>1 DEF Ops, Idle
  <2> QED
    BY <1>3, <2>1, <2>2 DEF Ops, Same
<1>4. CASE op[c] # Idle /\ op[c].cred \notin S
  BY <1>4, UnderWay DEF Spare, Same
<1> QED
  BY <1>2, <1>3, <1>4

-------------------------------------------------------------------------------
(* Types.                                                                  *)

LEMMA TypeInit == Init => TypeOK
  BY AppAssumption DEF Init, TypeOK

LEMMA NewRowType ==
  ASSUME TypeOK, KnownInv, NEW c \in Clients, NEW p \in Pairs,
         op[c] # Idle, op[c].kind = "grant"
  PROVE  NewRow(c, p) \in Rows
<1>1. op[c] \in Ops /\ op[c].secret \in Secrets
  BY UnderWay DEF KnownInv, Given
<1> QED
  BY <1>1 DEF NewRow, Rows, Ops, Overtaken

LEMMA RevokedType ==
  ASSUME TypeOK, NEW S
  PROVE  RevokeWhere(S) \in [Pairs -> Rows \cup {None}]
<1>1. SUFFICES ASSUME NEW i \in Pairs PROVE RevokeWhere(S)[i] \in Rows \cup {None}
  BY DEF RevokeWhere
<1>2. CASE Stored(i)
  BY <1>2, RowOf DEF RevokeWhere, Rows
<1>3. CASE ~Stored(i)
  BY <1>3 DEF RevokeWhere, Stored
<1> QED
  BY <1>2, <1>3

\* A credential that is written is a credential, and is there.
LEMMA CredType ==
  ASSUME TypeOK, NEW k \in Creds, NEW r \in Credentials, cred' = [cred EXCEPT ![k] = r]
  PROVE  /\ cred' \in [Creds -> Credentials \cup {None}]
         /\ cred'[k] = r /\ r # None
         /\ \A l \in Creds \ {k} : cred'[l] = cred[l]
  BY AppAssumption DEF TypeOK

LEMMA RotatedCred ==
  ASSUME TypeOK, NEW k \in Creds, RotateCredential(k)
  PROVE  \E r \in Credentials : cred' = [cred EXCEPT ![k] = r]
<1> DEFINE r == [cred[k] EXCEPT !.active = TRUE, !.secret = cred[k].secret + 1]
<1>1. cred[k] \in Credentials /\ cred[k].secret < MaxSecret
  BY CredOf DEF RotateCredential
<1>2. cred[k].secret + 1 \in Secrets
  BY <1>1, AppAssumption DEF Credentials, Secrets
<1>3. r \in Credentials
  BY <1>1, <1>2 DEF Credentials
<1>4. cred' = [cred EXCEPT ![k] = r]
  BY <1>1 DEF RotateCredential, TypeOK, Credentials
<1> QED
  BY <1>3, <1>4

LEMMA TypeRequest ==
  ASSUME TypeOK, KnownInv, NEW c \in Clients, Request(c)
  PROVE  TypeOK'
<1>1. ASSUME NEW k \in Creds, BeginGrant(c, k) PROVE TypeOK'
  <2>1. op' \in [Clients -> Ops \cup {Idle}]
    BY <1>1, BegunGrant DEF Begun, TypeOK
  <2> QED
    BY <1>1, <2>1 DEF TypeOK, BeginGrant, Begin, rowVars
<1>2. ASSUME NEW i \in Pairs, Stored(i), BeginRefresh(c, i) \/ BeginRequest(c, i) PROVE TypeOK'
  <2>1. op' \in [Clients -> Ops \cup {Idle}]
    BY <1>2, BegunByToken DEF Begun, TypeOK
  <2> QED
    BY <1>2, <2>1 DEF TypeOK, BeginRefresh, BeginRequest, Begin, rowVars
<1>3. CASE ReadCredential(c)
  <2>1. op' \in [Clients -> Ops \cup {Idle}]
    BY <1>3, GoneOn DEF ReadCredential, At
  <2> QED
    BY <1>3, <2>1 DEF TypeOK, ReadCredential, rowVars
<1>4. CASE ReadApp(c)
  <2>1. op' \in [Clients -> Ops \cup {Idle}]
    BY <1>4, GoneOn, Ended DEF ReadApp, At
  <2>2. admitted' \subseteq Clients
    BY <1>4 DEF ReadApp, TypeOK
  <2> QED
    BY <1>4, <2>1, <2>2 DEF TypeOK, ReadApp, rowVars
<1>5. CASE Refuse(c)
  <2>1. op' \in [Clients -> Ops \cup {Idle}]
    BY <1>5, Ended DEF Refuse
  <2> QED
    BY <1>5, <2>1 DEF TypeOK, Refuse, rowVars
<1>6. ASSUME NEW p \in Pairs \ issued, Grant(c, p) PROVE TypeOK'
  <2>1. op' \in [Clients -> Ops \cup {Idle}]
    BY <1>6, Ended DEF Grant
  <2>2. NewRow(c, p) \in Rows
    BY <1>6, NewRowType DEF Grant, At
  <2>3. session' \in [Pairs -> Rows \cup {None}]
    BY <1>6, <2>2 DEF Grant, TypeOK
  <2> QED
    BY <1>6, <2>1, <2>3 DEF TypeOK, Grant
<1>7. ASSUME NEW p \in Pairs \ issued, Refresh(c, p) PROVE TypeOK'
  <2>1. op' \in [Clients -> Ops \cup {Idle}]
    BY <1>7, Ended DEF Refresh
  <2>2. op[c].id \in Pairs /\ op[c].pair \in Pairs /\ Stored(op[c].id)
    BY <1>7 DEF Refresh, At, SamePair, KnownInv, Given
  <2>3. [session[op[c].id] EXCEPT !.pair = p, !.passed = FALSE] \in Rows
    BY <2>2, RowOf DEF Rows
  <2>4. session' \in [Pairs -> Rows \cup {None}]
    BY <1>7, <2>2, <2>3 DEF Refresh, Rotated, TypeOK
  <2>5. successor' \in [Pairs -> Pairs \cup {None}]
    BY <1>7, <2>2 DEF Refresh, TypeOK
  <2> QED
    BY <1>7, <2>1, <2>4, <2>5 DEF TypeOK, Refresh
<1> QED
  BY <1>1, <1>2, <1>3, <1>4, <1>5, <1>6, <1>7 DEF Request

LEMMA TypeAdminister ==
  ASSUME TypeOK, Administer
  PROVE  TypeOK'
<1>1. ASSUME NEW k \in Creds, CreateCredential(k) PROVE TypeOK'
  <2>1. [active |-> TRUE, secret |-> 1, passed |-> FALSE] \in Credentials
    BY AppAssumption DEF Credentials, Secrets
  <2>2. cred' \in [Creds -> Credentials \cup {None}]
    BY <1>1, <2>1, CredType DEF CreateCredential
  <2> QED
    BY <1>1, <2>2 DEF TypeOK, CreateCredential
<1>2. ASSUME NEW k \in Creds, RevokeCredential(k) PROVE TypeOK'
  <2>1. [cred[k] EXCEPT !.active = FALSE] \in Credentials
    BY <1>2, CredOf DEF RevokeCredential, Credentials
  <2>2. cred' \in [Creds -> Credentials \cup {None}]
    BY <1>2, <2>1, CredType DEF RevokeCredential
  <2>3. session' \in [Pairs -> Rows \cup {None}]
    BY <1>2, RevokedType DEF RevokeCredential, RevokedWith
  <2> QED
    BY <1>2, <2>2, <2>3 DEF TypeOK, RevokeCredential
<1>3. ASSUME NEW k \in Creds, RotateCredential(k) PROVE TypeOK'
  <2>1. PICK r \in Credentials : cred' = [cred EXCEPT ![k] = r]
    BY <1>3, RotatedCred
  <2>2. cred' \in [Creds -> Credentials \cup {None}]
    BY <2>1, CredType
  <2>3. session' \in [Pairs -> Rows \cup {None}]
    BY <1>3, RevokedType DEF RotateCredential, RevokedWith
  <2>4. op' \in [Clients -> Ops \cup {Idle}]
    BY <1>3, Spared DEF RotateCredential
  <2> QED
    BY <1>3, <2>2, <2>3, <2>4 DEF TypeOK, RotateCredential
<1>4. ASSUME NEW a \in Apps, Suspend(a) PROVE TypeOK'
  <2>1. session' \in [Pairs -> Rows \cup {None}]
    BY <1>4, RevokedType DEF Suspend
  <2> QED
    BY <1>4, <2>1 DEF TypeOK, Suspend
<1>5. ASSUME NEW a \in Apps, Activate(a) PROVE TypeOK'
  <2>1. op' \in [Clients -> Ops \cup {Idle}]
    BY <1>5, Spared DEF Activate
  <2> QED
    BY <1>5, <2>1 DEF TypeOK, Activate
<1> QED
  BY <1>1, <1>2, <1>3, <1>4, <1>5 DEF Administer

LEMMA TypeTime ==
  ASSUME TypeOK, Pass \/ DeleteExpired
  PROVE  TypeOK'
<1>1. ASSUME NEW k \in Creds, CredentialPasses(k) PROVE TypeOK'
  <2>1. [cred[k] EXCEPT !.passed = TRUE] \in Credentials
    BY <1>1, CredOf DEF CredentialPasses, Credentials
  <2>2. cred' \in [Creds -> Credentials \cup {None}]
    BY <1>1, <2>1, CredType DEF CredentialPasses
  <2> QED
    BY <1>1, <2>2 DEF TypeOK, CredentialPasses
<1>2. ASSUME NEW i \in Pairs, SessionPasses(i) PROVE TypeOK'
  <2>1. [session[i] EXCEPT !.passed = TRUE] \in Rows
    BY <1>2, RowOf DEF SessionPasses, Rows
  <2>2. session' \in [Pairs -> Rows \cup {None}]
    BY <1>2, <2>1 DEF TypeOK, SessionPasses
  <2> QED
    BY <1>2, <2>2 DEF TypeOK, SessionPasses
<1>3. CASE DeleteExpired
  <2>1. session' \in [Pairs -> Rows \cup {None}]
    BY <1>3 DEF TypeOK, DeleteExpired
  <2> QED
    BY <1>3, <2>1 DEF TypeOK, DeleteExpired
<1> QED
  BY <1>1, <1>2, <1>3 DEF Pass

LEMMA TypeNext ==
  ASSUME TypeOK, KnownInv, [Next]_vars
  PROVE  TypeOK'
<1>1. CASE UNCHANGED vars
  BY <1>1 DEF vars, TypeOK
<1> QED
  BY <1>1, TypeRequest, TypeAdminister, TypeTime DEF Next

-------------------------------------------------------------------------------
(* The steps in which no request begins and no pair is signed.             *)

OpsKeep  == \A c \in Clients : op'[c] # Idle => op[c] # Idle /\ Same(op'[c], op[c])
RowsKeep == \A i \in Pairs : session'[i] # None =>
              /\ Stored(i)
              /\ session'[i].cred = session[i].cred /\ session'[i].pair = session[i].pair
              /\ session'[i].secret = session[i].secret /\ session'[i].late = session[i].late
              /\ ~session'[i].revoked => ~session[i].revoked
CredsKeep == \A k \in Creds : Exists(k) => cred'[k] # None

Quiet == OpsKeep /\ RowsKeep /\ CredsKeep /\ UNCHANGED <<issued, successor>>

LEMMA RevokedKeeps ==
  ASSUME TypeOK, NEW S, session' = RevokeWhere(S)
  PROVE  RowsKeep /\ \A i \in Pairs : session'[i] # None /\ session[i].cred \in S
                                      => session'[i].revoked
<1>1. SUFFICES ASSUME NEW i \in Pairs, session'[i] # None
               PROVE  /\ Stored(i)
                      /\ session'[i].cred = session[i].cred /\ session'[i].pair = session[i].pair
                      /\ session'[i].secret = session[i].secret /\ session'[i].late = session[i].late
                      /\ ~session'[i].revoked => ~session[i].revoked
                      /\ session[i].cred \in S => session'[i].revoked
  BY DEF RowsKeep
<1>2. Stored(i)
  BY <1>1 DEF RevokeWhere, Stored
<1>3. session[i] \in Rows
  BY <1>2, RowOf
<1> QED
  BY <1>2, <1>3 DEF RevokeWhere, Rows

LEMMA SparedKeeps ==
  ASSUME TypeOK, NEW S, Spare(S)
  PROVE  OpsKeep
  BY Spared DEF OpsKeep

LEMMA QuietRequest ==
  ASSUME TypeOK, NEW c \in Clients, ReadCredential(c) \/ ReadApp(c) \/ Refuse(c)
  PROVE  Quiet /\ UNCHANGED <<app, cred, session>>
<1>1. UNCHANGED <<app, cred, session, issued, successor>>
  BY DEF ReadCredential, ReadApp, Refuse, rowVars
<1>2. (\E step \in {"app", "issue"} : op[c] # Idle /\ Go(c, step)) \/ End(c)
  BY DEF ReadCredential, ReadApp, Refuse, At
<1>3. OpsKeep
  BY <1>2, GoneOn, Ended DEF OpsKeep, Same
<1>4. RowsKeep /\ CredsKeep
  BY <1>1 DEF RowsKeep, CredsKeep, Stored, Exists
<1> QED
  BY <1>1, <1>3, <1>4 DEF Quiet

LEMMA QuietAdminister ==
  ASSUME TypeOK, Administer
  PROVE  Quiet
<1>1. ASSUME NEW k \in Creds, CreateCredential(k) PROVE Quiet
  <2>1. CredsKeep
    BY <1>1 DEF CreateCredential, CredsKeep, TypeOK, Exists
  <2> QED
    BY <1>1, <2>1 DEF CreateCredential, Quiet, OpsKeep, RowsKeep, Same, Stored
<1>2. ASSUME NEW k \in Creds, RevokeCredential(k) PROVE Quiet
  <2>1. [cred[k] EXCEPT !.active = FALSE] \in Credentials
    BY <1>2, CredOf DEF RevokeCredential, Credentials
  <2>2. CredsKeep
    BY <1>2, <2>1, CredType DEF RevokeCredential, CredsKeep, Exists
  <2>3. RowsKeep
    BY <1>2, RevokedKeeps DEF RevokeCredential, RevokedWith
  <2> QED
    BY <1>2, <2>2, <2>3 DEF RevokeCredential, Quiet, OpsKeep, Same
<1>3. ASSUME NEW k \in Creds, RotateCredential(k) PROVE Quiet
  <2>1. PICK r \in Credentials : cred' = [cred EXCEPT ![k] = r]
    BY <1>3, RotatedCred
  <2>2. CredsKeep
    BY <2>1, CredType DEF CredsKeep, Exists
  <2>3. RowsKeep
    BY <1>3, RevokedKeeps DEF RotateCredential, RevokedWith
  <2> QED
    BY <1>3, <2>2, <2>3, SparedKeeps DEF RotateCredential, Quiet
<1>4. ASSUME NEW a \in Apps, Suspend(a) PROVE Quiet
  <2>1. RowsKeep
    BY <1>4, RevokedKeeps DEF Suspend
  <2> QED
    BY <1>4, <2>1 DEF Suspend, Quiet, OpsKeep, CredsKeep, Exists, Same
<1>5. ASSUME NEW a \in Apps, Activate(a) PROVE Quiet
  BY <1>5, SparedKeeps DEF Activate, Quiet, RowsKeep, CredsKeep, Exists, Stored
<1> QED
  BY <1>1, <1>2, <1>3, <1>4, <1>5 DEF Administer

LEMMA QuietTime ==
  ASSUME TypeOK, Pass \/ DeleteExpired
  PROVE  Quiet
<1>1. ASSUME NEW k \in Creds, CredentialPasses(k) PROVE Quiet
  <2>1. [cred[k] EXCEPT !.passed = TRUE] \in Credentials
    BY <1>1, CredOf DEF CredentialPasses, Credentials
  <2>2. CredsKeep
    BY <1>1, <2>1, CredType DEF CredentialPasses, CredsKeep, Exists
  <2> QED
    BY <1>1, <2>2 DEF CredentialPasses, Quiet, OpsKeep, RowsKeep, Same, Stored
<1>2. ASSUME NEW i \in Pairs, SessionPasses(i) PROVE Quiet
  <2>1. session[i] \in Rows /\ session' = [session EXCEPT ![i] = [session[i] EXCEPT !.passed = TRUE]]
    BY <1>2, RowOf DEF SessionPasses
  <2>2. RowsKeep
    BY <1>2, <2>1 DEF SessionPasses, RowsKeep, Rows, TypeOK, Stored
  <2> QED
    BY <1>2, <2>2 DEF SessionPasses, Quiet, OpsKeep, CredsKeep, Same, Exists
<1>3. CASE DeleteExpired
  <2>1. RowsKeep
    BY <1>3 DEF DeleteExpired, RowsKeep, Stored
  <2> QED
    BY <1>3, <2>1 DEF DeleteExpired, Quiet, OpsKeep, CredsKeep, Same, Exists
<1> QED
  BY <1>1, <1>2, <1>3 DEF Pass

\* The other steps: a request begins, a grant stores its row, a refresh rotates one.
Begins(c) == \/ \E k \in Creds : BeginGrant(c, k)
             \/ \E i \in Pairs : Stored(i) /\ (BeginRefresh(c, i) \/ BeginRequest(c, i))

LEMMA BeginsOp ==
  ASSUME TypeOK, KnownInv, NEW c \in Clients, Begins(c)
  PROVE  /\ UNCHANGED <<app, cred, session, issued, successor, admitted>>
         /\ \A d \in Clients \ {c} : op'[d] = op[d]
         /\ op'[c] \in Ops /\ Given(op'[c]) /\ Exists(op'[c].cred)
         /\ op'[c].next # "issue"
         /\ op'[c].doomed => Doom(op'[c])
<1>1. ASSUME NEW k \in Creds, BeginGrant(c, k)
      PROVE  /\ \A d \in Clients \ {c} : op'[d] = op[d]
             /\ op'[c] \in Ops /\ Given(op'[c]) /\ Exists(op'[c].cred)
             /\ op'[c].next # "issue"
             /\ op'[c].doomed => Doom(op'[c])
  <2>1. PICK o \in Ops : /\ Begun(c, o) /\ o.kind = "grant" /\ o.cred = k /\ Exists(k)
                         /\ o.secret = cred[k].secret /\ o.next = "app"
                         /\ o.doomed = ~Usable(k) /\ cred[k].active
    BY <1>1, BegunGrant
  <2>2. op'[c] = o /\ \A d \in Clients \ {c} : op'[d] = op[d]
    BY <2>1 DEF Begun, TypeOK
  <2>3. o.secret \in Secrets
    BY <2>1, CredOf DEF Credentials
  <2>4. o.doomed => Doom(o)
    BY <2>1 DEF Usable, Doom
  <2> QED
    BY <2>1, <2>2, <2>3, <2>4 DEF Given
<1>2. ASSUME NEW i \in Pairs, Stored(i), BeginRefresh(c, i) \/ BeginRequest(c, i)
      PROVE  /\ \A d \in Clients \ {c} : op'[d] = op[d]
             /\ op'[c] \in Ops /\ Given(op'[c]) /\ Exists(op'[c].cred)
             /\ op'[c].next # "issue"
             /\ op'[c].doomed => Doom(op'[c])
  <2>1. PICK o \in Ops : /\ Begun(c, o) /\ o.kind # "grant" /\ o.cred = session[i].cred
                         /\ o.id = i /\ o.pair = session[i].pair /\ o.pair \in Pairs
                         /\ o.next = "credential" /\ o.doomed = ~Usable(session[i].cred)
    BY <1>2, BegunByToken
  <2>2. op'[c] = o /\ \A d \in Clients \ {c} : op'[d] = op[d]
    BY <2>1 DEF Begun, TypeOK
  <2>3. Exists(o.cred)
    BY <1>2, <2>1 DEF KnownInv
  <2>4. o.doomed => Doom(o)
    BY <2>1, <2>3 DEF Usable, Doom
  <2> QED
    BY <2>1, <2>2, <2>3, <2>4 DEF Given
<1> QED
  BY <1>1, <1>2 DEF Begins, BeginGrant, BeginRefresh, BeginRequest, Begin, rowVars

\* The row a grant or a refresh writes.
LEMMA GrantRow ==
  ASSUME TypeOK, KnownInv, NEW c \in Clients, NEW p \in Pairs \ issued, Grant(c, p)
  PROVE  /\ session'[p] = NewRow(c, p) /\ \A i \in Pairs \ {p} : session'[i] = session[i]
         /\ OpsKeep /\ UNCHANGED <<app, cred, successor>> /\ issued' = issued \cup {p}
         /\ op[c] \in Ops /\ Exists(op[c].cred)
<1>1. OpsKeep
  BY Ended DEF Grant, OpsKeep, Same
<1> QED
  BY <1>1, UnderWay DEF Grant, At, TypeOK, KnownInv

LEMMA RefreshRow ==
  ASSUME TypeOK, KnownInv, NEW c \in Clients, NEW p \in Pairs \ issued, Refresh(c, p)
  PROVE  LET i == op[c].id IN
         /\ i \in Pairs /\ Stored(i) /\ session[i].pair = op[c].pair /\ session[i] \in Rows
         /\ session'[i] = [session[i] EXCEPT !.pair = p, !.passed = FALSE]
         /\ \A j \in Pairs \ {i} : session'[j] = session[j]
         /\ OpsKeep /\ UNCHANGED <<app, cred>> /\ issued' = issued \cup {p}
         /\ successor' = [successor EXCEPT ![session[i].pair] = p]
<1>1. OpsKeep
  BY Ended DEF Refresh, OpsKeep, Same
<1>2. op[c].id \in Pairs /\ Stored(op[c].id)
  BY DEF Refresh, At, SamePair, KnownInv, Given
<1> QED
  BY <1>1, <1>2, RowOf DEF Refresh, SamePair, Rotated, TypeOK

\* Every step is of one of these kinds.
Signs == \E c \in Clients, p \in Pairs \ issued : Grant(c, p) \/ Refresh(c, p)

LEMMA StepKinds ==
  ASSUME TypeOK, [Next]_vars
  PROVE  Quiet \/ (\E c \in Clients : Begins(c)) \/ Signs
<1>1. CASE UNCHANGED vars
  BY <1>1 DEF vars, Quiet, OpsKeep, RowsKeep, CredsKeep, Same, Stored, Exists
<1> QED
  BY <1>1, QuietRequest, QuietAdminister, QuietTime DEF Next, Request, Begins, Signs

-------------------------------------------------------------------------------
(* What sessions and requests name.                                        *)

LEMMA KnownNext ==
  ASSUME TypeOK, KnownInv, [Next]_vars
  PROVE  KnownInv'
<1>1. CASE Quiet
  <2>1. \A k \in Creds : Exists(k) => Exists(k)'
    BY <1>1 DEF Quiet, CredsKeep, Exists
  <2>2. ASSUME NEW i \in Pairs, Stored(i)' PROVE Exists(session[i].cred)'
    BY <1>1, <2>1, <2>2, RowOf DEF Quiet, RowsKeep, KnownInv, Stored, Rows
  <2>3. ASSUME NEW c \in Clients, op'[c] # Idle PROVE Exists(op[c].cred)' /\ Given(op[c])'
    <3>1. op[c] # Idle /\ Same(op'[c], op[c])
      BY <1>1, <2>3 DEF Quiet, OpsKeep
    <3>2. op[c].cred \in Creds
      BY <3>1, UnderWay DEF Ops
    <3> QED
      BY <2>1, <3>1, <3>2 DEF KnownInv, Same, Given
  <2> QED
    BY <2>2, <2>3 DEF KnownInv
<1>2. ASSUME NEW c \in Clients, Begins(c) PROVE KnownInv'
  BY <1>2, BeginsOp DEF KnownInv, Exists, Stored, Given
<1>3. ASSUME OpsKeep, UNCHANGED cred
      PROVE  \A c \in Clients : op'[c] # Idle => Exists(op[c].cred)' /\ Given(op[c])'
  BY <1>3 DEF KnownInv, OpsKeep, Same, Given, Exists
<1>4. ASSUME NEW c \in Clients, NEW p \in Pairs \ issued, Grant(c, p) PROVE KnownInv'
  <2>0. session'[p] = NewRow(c, p) /\ Exists(op[c].cred) /\ UNCHANGED cred /\ OpsKeep
    BY <1>4, GrantRow
  <2>1. session'[p].cred = op[c].cred
    BY <2>0 DEF NewRow
  <2>2. \A i \in Pairs \ {p} : session'[i] = session[i]
    BY <1>4, GrantRow
  <2>3. \A i \in Pairs : Stored(i)' => Exists(session[i].cred)'
    BY <2>0, <2>1, <2>2 DEF KnownInv, Stored, Exists
  <2> QED
    BY <1>3, <2>0, <2>3 DEF KnownInv
<1>5. ASSUME NEW c \in Clients, NEW p \in Pairs \ issued, Refresh(c, p) PROVE KnownInv'
  <2> DEFINE i == op[c].id
  <2>1. /\ i \in Pairs /\ Stored(i) /\ UNCHANGED cred /\ OpsKeep /\ session[i] \in Rows
        /\ session'[i] = [session[i] EXCEPT !.pair = p, !.passed = FALSE]
        /\ \A j \in Pairs \ {i} : session'[j] = session[j]
    BY <1>5, RefreshRow
  <2>2. session'[i].cred = session[i].cred
    BY <2>1 DEF Rows
  <2>3. \A j \in Pairs : Stored(j)' => Exists(session[j].cred)'
    BY <2>1, <2>2 DEF KnownInv, Stored, Exists
  <2> QED
    BY <1>3, <2>1, <2>3 DEF KnownInv
<1> QED
  BY <1>1, <1>2, <1>4, <1>5, StepKinds DEF Signs

-------------------------------------------------------------------------------
(* Doomed requests.                                                        *)

\* A request that stays where it is stays doomed by what it was doomed by, as long as
\* its credential and application only get worse.
LEMMA DoomedStays ==
  ASSUME TypeOK, DoomedInv,
         \A c \in Clients : op'[c] # Idle /\ op'[c].doomed =>
           /\ op[c] # Idle /\ Same(op'[c], op[c]) /\ op[c].doomed /\ op'[c].next = op[c].next
           /\ cred[op[c].cred].passed => cred'[op[c].cred].passed
           /\ ~cred[op[c].cred].active => ~cred'[op[c].cred].active
           /\ ~app[AppOf[op[c].cred]] => ~app'[AppOf[op[c].cred]]
  PROVE  DoomedInv'
  BY DEF DoomedInv, Doom, Same

LEMMA DoomedNext ==
  ASSUME TypeOK, KnownInv, DoomedInv, [Next]_vars
  PROVE  DoomedInv'
<1>1. CASE UNCHANGED vars
  BY <1>1 DEF vars, DoomedInv, Doom
<1>2. ASSUME NEW c \in Clients, Begins(c) PROVE DoomedInv'
  BY <1>2, BeginsOp DEF DoomedInv, Doom
<1>3. ASSUME NEW c \in Clients, ReadCredential(c) PROVE DoomedInv'
  <2>1. /\ op[c] # Idle /\ op'[c].next = "app" /\ Same(op'[c], op[c])
        /\ op'[c].doomed = op[c].doomed
        /\ \A d \in Clients \ {c} : op'[d] = op[d]
    BY <1>3, GoneOn DEF ReadCredential, At
  <2>2. UNCHANGED <<app, cred>> /\ cred[op[c].cred].active
    BY <1>3 DEF ReadCredential, CredentialActive, rowVars
  <2> QED
    BY <2>1, <2>2 DEF DoomedInv, Doom, Same
<1>4. ASSUME NEW c \in Clients, ReadApp(c) PROVE DoomedInv'
  <2>1. ~op[c].doomed
    BY <1>4 DEF ReadApp, At, DoomedInv, Doom
  <2>2. /\ op'[c] # Idle => op'[c].doomed = op[c].doomed
        /\ \A d \in Clients \ {c} : op'[d] = op[d]
    BY <1>4, GoneOn, Ended DEF ReadApp, At
  <2> QED
    BY <1>4, <2>1, <2>2 DEF ReadApp, rowVars, DoomedInv, Doom
<1>5. ASSUME NEW c \in Clients, Refuse(c) PROVE DoomedInv'
  BY <1>5, Ended DEF Refuse, rowVars, DoomedInv, Doom
<1>6. ASSUME NEW c \in Clients, NEW p \in Pairs, Grant(c, p) \/ Refresh(c, p) PROVE DoomedInv'
  BY <1>6, Ended DEF Grant, Refresh, DoomedInv, Doom
<1>7. ASSUME NEW k \in Creds, CreateCredential(k) PROVE DoomedInv'
  <2>1. \A c \in Clients : op[c] # Idle => op[c].cred \in Creds \ {k}
    BY <1>7, UnderWay DEF CreateCredential, KnownInv, Ops
  <2> QED
    BY <1>7, <2>1, DoomedStays DEF CreateCredential, Same, TypeOK
<1>8. ASSUME NEW k \in Creds, RevokeCredential(k) \/ CredentialPasses(k) PROVE DoomedInv'
  <2>1. cred[k] \in Credentials
    BY <1>8, CredOf DEF RevokeCredential, CredentialPasses
  <2>2. /\ \A l \in Creds : cred[l].passed => cred'[l].passed
        /\ \A l \in Creds : ~cred[l].active => ~cred'[l].active
    BY <1>8, <2>1 DEF RevokeCredential, CredentialPasses, Credentials, TypeOK
  <2>3. \A c \in Clients : op[c] # Idle => op[c].cred \in Creds
    BY UnderWay DEF Ops
  <2> QED
    BY <1>8, <2>2, <2>3, DoomedStays DEF RevokeCredential, CredentialPasses, Same
<1>9. ASSUME NEW k \in Creds, RotateCredential(k) PROVE DoomedInv'
  <2>1. \A c \in Clients : op[c] # Idle => op[c].cred \in Creds
    BY UnderWay DEF Ops
  <2>2. \A l \in Creds \ {k} : cred'[l] = cred[l]
    BY <1>9 DEF RotateCredential, TypeOK
  <2> QED
    BY <1>9, <2>1, <2>2, Spared, DoomedStays DEF RotateCredential
<1>10. ASSUME NEW a \in Apps, Suspend(a) PROVE DoomedInv'
  <2>1. \A b \in Apps : ~app[b] => ~app'[b]
    BY <1>10 DEF Suspend, TypeOK
  <2>2. \A c \in Clients : op[c] # Idle => AppOf[op[c].cred] \in Apps
    BY UnderWay, AppAssumption DEF Ops
  <2> QED
    BY <1>10, <2>1, <2>2, DoomedStays DEF Suspend, Same
<1>11. ASSUME NEW a \in Apps, Activate(a) PROVE DoomedInv'
  <2>1. \A b \in Apps \ {a} : app'[b] = app[b]
    BY <1>11 DEF Activate, TypeOK
  <2>2. \A c \in Clients : op[c] # Idle => op[c].cred \in Creds /\ AppOf[op[c].cred] \in Apps
    BY UnderWay, AppAssumption DEF Ops
  <2> QED
    BY <1>11, <2>1, <2>2, Spared, DoomedStays DEF Activate, CredsOf
<1>12. ASSUME NEW i \in Pairs, SessionPasses(i) PROVE DoomedInv'
  BY <1>12 DEF SessionPasses, DoomedInv, Doom
<1>13. CASE DeleteExpired
  BY <1>13 DEF DeleteExpired, DoomedInv, Doom
<1> QED
  BY <1>1, <1>2, <1>3, <1>4, <1>5, <1>6, <1>7, <1>8, <1>9, <1>10, <1>11, <1>12, <1>13
     DEF Next, Request, Begins, Administer, Pass

LEMMA AdmittedNext ==
  ASSUME TypeOK, DoomedInv, RevokedStopsWorking, [Next]_vars
  PROVE  RevokedStopsWorking'
<1>1. ASSUME NEW c \in Clients, ReadApp(c) PROVE RevokedStopsWorking'
  <2>1. ~op[c].doomed
    BY <1>1 DEF ReadApp, At, DoomedInv, Doom
  <2> QED
    BY <1>1, <2>1 DEF ReadApp, RevokedStopsWorking
<1> QED
  BY <1>1 DEF RevokedStopsWorking, Next, vars, Request, BeginGrant, BeginRefresh, BeginRequest,
       Begin, ReadCredential, Refuse, Grant, Refresh, Administer, CreateCredential,
       RevokeCredential, RotateCredential, Suspend, Activate, Pass, CredentialPasses,
       SessionPasses, DeleteExpired

-------------------------------------------------------------------------------
(* What a session rests on.                                                *)

Rests(i) == Unrevoked(i) /\ ~session[i].late =>
              /\ cred[session[i].cred].active
              /\ cred[session[i].cred].secret = session[i].secret
              /\ app[AppOf[session[i].cred]]

\* Rows that keep what they rest on, while nothing is taken from under them.
LEMMA RestsStay ==
  ASSUME SessionsRest, RowsKeep,
         \A i \in Pairs : Stored(i) /\ session'[i] # None /\ ~session'[i].revoked =>
           /\ cred[session[i].cred].active => cred'[session[i].cred].active
           /\ cred'[session[i].cred].secret = cred[session[i].cred].secret
           /\ app[AppOf[session[i].cred]] => app'[AppOf[session[i].cred]]
  PROVE  SessionsRest'
  BY DEF SessionsRest, RowsKeep, Unrevoked, Stored

LEMMA RestNext ==
  ASSUME TypeOK, KnownInv, SessionsRest, [Next]_vars
  PROVE  SessionsRest'
<1>1. CASE UNCHANGED <<app, cred, session>>
  BY <1>1 DEF SessionsRest, Unrevoked, Stored
<1>2. ASSUME NEW c \in Clients, NEW p \in Pairs \ issued, Grant(c, p) PROVE SessionsRest'
  <2>1. /\ session'[p] = NewRow(c, p) /\ \A i \in Pairs \ {p} : session'[i] = session[i]
        /\ UNCHANGED <<app, cred>>
    BY <1>2, GrantRow
  <2>2. /\ session'[p].cred = op[c].cred /\ session'[p].secret = op[c].secret
        /\ session'[p].late = Overtaken(c)
    BY <2>1 DEF NewRow
  <2>3. Rests(p)'
    BY <2>1, <2>2 DEF Rests, Unrevoked, Overtaken
  <2>4. ASSUME NEW j \in Pairs \ {p} PROVE Rests(j)'
    BY <2>1 DEF SessionsRest, Rests, Unrevoked, Stored
  <2> QED
    BY <2>3, <2>4 DEF SessionsRest, Rests
<1>3. ASSUME NEW c \in Clients, NEW p \in Pairs \ issued, Refresh(c, p) PROVE SessionsRest'
  <2>1. PICK i \in Pairs :
        /\ Stored(i) /\ UNCHANGED <<app, cred>> /\ session[i] \in Rows
        /\ session'[i] = [session[i] EXCEPT !.pair = p, !.passed = FALSE]
        /\ \A j \in Pairs \ {i} : session'[j] = session[j]
    BY <1>3, RefreshRow
  <2>2. /\ session'[i].cred = session[i].cred /\ session'[i].secret = session[i].secret
        /\ session'[i].late = session[i].late /\ session'[i].revoked = session[i].revoked
    BY <2>1 DEF Rows
  <2>3. Rests(i)'
    BY <2>1, <2>2 DEF SessionsRest, Rests, Unrevoked, Stored
  <2>4. ASSUME NEW j \in Pairs \ {i} PROVE Rests(j)'
    BY <2>1 DEF SessionsRest, Rests, Unrevoked, Stored
  <2> QED
    BY <2>3, <2>4 DEF SessionsRest, Rests
<1>4. ASSUME NEW k \in Creds, CreateCredential(k) PROVE SessionsRest'
  <2>1. \A i \in Pairs : Stored(i) => session[i].cred \in Creds \ {k}
    BY <1>4, RowOf DEF CreateCredential, KnownInv, Rows
  <2>2. RowsKeep
    BY <1>4 DEF CreateCredential, RowsKeep, Stored
  <2> QED
    BY <1>4, <2>1, <2>2, RestsStay DEF CreateCredential, TypeOK
<1>5. ASSUME NEW k \in Creds, RevokeCredential(k) \/ RotateCredential(k) PROVE SessionsRest'
  <2>1. /\ RowsKeep
        /\ \A i \in Pairs : session'[i] # None /\ session[i].cred \in {k} => session'[i].revoked
    BY <1>5, RevokedKeeps DEF RevokeCredential, RotateCredential, RevokedWith
  <2>2. \A l \in Creds \ {k} : cred'[l] = cred[l]
    BY <1>5 DEF RevokeCredential, RotateCredential, TypeOK
  <2>3. \A i \in Pairs : Stored(i) => session[i].cred \in Creds
    BY RowOf DEF Rows
  <2>4. UNCHANGED app
    BY <1>5 DEF RevokeCredential, RotateCredential
  <2> QED
    BY <2>1, <2>2, <2>3, <2>4, RestsStay
<1>6. ASSUME NEW a \in Apps, Suspend(a) PROVE SessionsRest'
  <2>1. /\ RowsKeep
        /\ \A i \in Pairs : session'[i] # None /\ session[i].cred \in CredsOf(a)
                            => session'[i].revoked
    BY <1>6, RevokedKeeps DEF Suspend
  <2>2. \A b \in Apps \ {a} : app'[b] = app[b]
    BY <1>6 DEF Suspend, TypeOK
  <2>3. \A i \in Pairs : Stored(i) => session[i].cred \in Creds /\ AppOf[session[i].cred] \in Apps
    BY RowOf, AppAssumption DEF Rows
  <2>4. UNCHANGED cred
    BY <1>6 DEF Suspend
  <2> QED
    BY <2>1, <2>2, <2>3, <2>4, RestsStay DEF CredsOf
<1>7. ASSUME NEW a \in Apps, Activate(a) PROVE SessionsRest'
  <2>1. \A b \in Apps : app[b] => app'[b]
    BY <1>7 DEF Activate, TypeOK
  <2>2. \A i \in Pairs : Stored(i) => AppOf[session[i].cred] \in Apps
    BY RowOf, AppAssumption DEF Rows
  <2>3. RowsKeep
    BY <1>7 DEF Activate, RowsKeep, Stored
  <2> QED
    BY <1>7, <2>1, <2>2, <2>3, RestsStay DEF Activate
<1>8. ASSUME NEW k \in Creds, CredentialPasses(k) PROVE SessionsRest'
  <2>1. \A l \in Creds : cred'[l].active = cred[l].active /\ cred'[l].secret = cred[l].secret
    BY <1>8, CredOf DEF CredentialPasses, Credentials, TypeOK
  <2>2. RowsKeep
    BY <1>8 DEF CredentialPasses, RowsKeep, Stored
  <2>3. \A i \in Pairs : Stored(i) => session[i].cred \in Creds
    BY RowOf DEF Rows
  <2> QED
    BY <1>8, <2>1, <2>2, <2>3, RestsStay DEF CredentialPasses
<1>9. ASSUME (\E i \in Pairs : SessionPasses(i)) \/ DeleteExpired PROVE SessionsRest'
  <2>1. RowsKeep
    BY <1>9, QuietTime DEF Pass, Quiet
  <2> QED
    BY <1>9, <2>1, RestsStay DEF SessionPasses, DeleteExpired
<1> QED
  BY <1>1, <1>2, <1>3, <1>4, <1>5, <1>6, <1>7, <1>8, <1>9, QuietRequest, BeginsOp
     DEF Next, vars, Request, Begins, Administer, Pass

-------------------------------------------------------------------------------
(* Pairs.                                                                  *)

LEMMA PairsNext ==
  ASSUME TypeOK, KnownInv, PairsInv, [Next]_vars
  PROVE  PairsInv'
<1>1. CASE Quiet
  BY <1>1 DEF Quiet, RowsKeep, PairsInv, Stored
<1>2. ASSUME NEW c \in Clients, Begins(c) PROVE PairsInv'
  BY <1>2, BeginsOp DEF PairsInv, Stored
<1>3. ASSUME NEW c \in Clients, NEW p \in Pairs \ issued, Grant(c, p) PROVE PairsInv'
  <2>1. /\ session'[p] = NewRow(c, p) /\ \A i \in Pairs \ {p} : session'[i] = session[i]
        /\ UNCHANGED successor /\ issued' = issued \cup {p}
    BY <1>3, GrantRow
  <2>2. session'[p].pair = p
    BY <2>1 DEF NewRow
  <2> QED
    BY <2>1, <2>2 DEF PairsInv, Stored
<1>4. ASSUME NEW c \in Clients, NEW p \in Pairs \ issued, Refresh(c, p) PROVE PairsInv'
  <2> DEFINE i == op[c].id
  <2>1. /\ i \in Pairs /\ Stored(i) /\ session[i] \in Rows
        /\ session'[i] = [session[i] EXCEPT !.pair = p, !.passed = FALSE]
        /\ \A j \in Pairs \ {i} : session'[j] = session[j]
        /\ issued' = issued \cup {p}
        /\ successor' = [successor EXCEPT ![session[i].pair] = p]
    BY <1>4, RefreshRow
  <2>2. session'[i].pair = p /\ session[i].pair \in Pairs
    BY <2>1 DEF Rows
  <2>3. \A q \in Pairs : successor'[q] = IF q = session[i].pair THEN p ELSE successor[q]
    BY <2>1, <2>2 DEF TypeOK
  <2>4. \A j \in Pairs : Stored(j)' => Stored(j) /\ (j # i => session[j].pair # session[i].pair)
    BY <2>1 DEF PairsInv, Stored
  <2>5. \A j \in Pairs : Stored(j)' => /\ j \in issued'
                                      /\ session'[j].pair \in issued'
                                      /\ successor'[session'[j].pair] = None
    <3>1. ASSUME NEW j \in Pairs \ {i}, Stored(j)
          PROVE  /\ session[j].pair \in Pairs /\ session[j].pair # session[i].pair
                 /\ session[j].pair \in issued /\ successor[session[j].pair] = None
      BY <2>1, <3>1, RowOf DEF PairsInv, Rows
    <3>2. i \in issued /\ successor[p] = None /\ p # session[i].pair
      BY <2>1 DEF PairsInv
    <3>3. i \in issued' /\ session'[i].pair \in issued' /\ successor'[session'[i].pair] = None
      BY <2>1, <2>2, <2>3, <3>2
    <3>4. ASSUME NEW j \in Pairs \ {i}, Stored(j)'
          PROVE  j \in issued' /\ session'[j].pair \in issued' /\ successor'[session'[j].pair] = None
      BY <2>1, <2>3, <2>4, <3>1, <3>4 DEF PairsInv
    <3> QED
      BY <3>3, <3>4
  <2>6. ASSUME NEW j \in Pairs, NEW l \in Pairs, Stored(j)', Stored(l)',
               session'[j].pair = session'[l].pair
        PROVE  j = l
    <3>1. ASSUME NEW q \in Pairs \ {i}, Stored(q) PROVE session[q].pair # p
      BY <3>1 DEF PairsInv
    <3>2. ASSUME NEW q \in Pairs \ {i}, Stored(q)'
          PROVE  Stored(q) /\ session'[q].pair = session[q].pair /\ session'[q].pair # p
      BY <2>1, <2>4, <3>1, <3>2
    <3>3. CASE j = i \/ l = i
      BY <2>2, <2>6, <3>2, <3>3
    <3>4. CASE j # i /\ l # i
      BY <2>6, <3>2, <3>4 DEF PairsInv
    <3> QED
      BY <3>3, <3>4
  <2> QED
    BY <2>1, <2>2, <2>3, <2>5, <2>6 DEF PairsInv
<1> QED
  BY <1>1, <1>2, <1>3, <1>4, StepKinds DEF Signs

-------------------------------------------------------------------------------

LEMMA SInit == Init => SInv
<1>1. SUFFICES ASSUME Init PROVE SInv
  OBVIOUS
<1>2. TypeOK
  BY <1>1, TypeInit
<1>3. KnownInv /\ DoomedInv /\ SessionsRest /\ RevokedStopsWorking /\ PairsInv
  BY <1>1 DEF Init, KnownInv, DoomedInv, SessionsRest, RevokedStopsWorking, PairsInv,
              Stored, Unrevoked
<1> QED
  BY <1>2, <1>3 DEF SInv

LEMMA SInductive == Spec => []SInv
<1>1. SInv /\ [Next]_vars => SInv'
  BY TypeNext, KnownNext, DoomedNext, RestNext, AdmittedNext, PairsNext DEF SInv
<1> QED
  BY <1>1, SInit, PTL DEF Spec

\* Every variable has its type (app_credentials and app_sessions, service/identity/app_auth.go).
THEOREM AppTypeCorrect == Spec => []TypeOK
<1>1. SInv => TypeOK
  BY DEF SInv
<1> QED
  BY <1>1, SInductive, PTL

\* No revocation, rotation or suspension leaves a session behind but one whose grant it
\* overtook, whatever refreshes are under way (app_app.go, RevokeWhere's callers).
THEOREM AppSessionsRest == Spec => []SessionsRest
<1>1. SInv => SessionsRest
  BY DEF SInv
<1> QED
  BY <1>1, SInductive, PTL

\* A request that begins under a credential that may not be used, and stays so, is not
\* let through (identity and fromCredential, app_auth.go).
THEOREM RevokedNeverAdmitted == Spec => []RevokedStopsWorking
<1>1. SInv => RevokedStopsWorking
  BY DEF SInv
<1> QED
  BY <1>1, SInductive, PTL

-------------------------------------------------------------------------------
(* AppSessions implements Sessions.                                        *)

LEMMA LiveIssued ==
  ASSUME PairsInv
  PROVE  live \subseteq issued
  BY DEF PairsInv, live, Unrevoked

\* A step that signs nothing ends some of the live pairs, or none.
LEMMA QuietFinishes ==
  ASSUME PairsInv, Quiet
  PROVE  Promised!Finish
<1>1. live' \subseteq live
  <2>1. SUFFICES ASSUME NEW p, NEW i \in Pairs, Unrevoked(i)', session'[i].pair = p
                 PROVE  p \in live
    BY DEF live
  <2>2. Unrevoked(i) /\ session[i].pair = p
    BY <2>1 DEF Quiet, RowsKeep, Unrevoked, Stored
  <2> QED
    BY <2>2 DEF live
<1> QED
  BY <1>1, LiveIssued DEF Promised!Finish, ended, Quiet

LEMMA GrantIssues ==
  ASSUME TypeOK, KnownInv, PairsInv, NEW c \in Clients, NEW p \in Pairs \ issued, Grant(c, p)
  PROVE  Promised!Issue(p)
<1>1. /\ session'[p] = NewRow(c, p) /\ \A i \in Pairs \ {p} : session'[i] = session[i]
      /\ UNCHANGED successor /\ issued' = issued \cup {p}
  BY GrantRow
<1>2. session'[p].pair = p /\ ~session'[p].revoked /\ session'[p] # None
  <2>1. NewRow(c, p) \in Rows
    BY NewRowType DEF Grant, At
  <2>2. session'[p] # None
    BY <1>1, <2>1, AppAssumption
  <2>3. session'[p].pair = p /\ session'[p].revoked = FALSE
    BY <1>1 DEF NewRow
  <2> QED
    BY <2>2, <2>3
<1>3. live' = live \cup {p}
  <2>1. ASSUME NEW q PROVE q \in live' <=> q \in live \/ q = p
    BY <1>1, <1>2 DEF live, Unrevoked, Stored, PairsInv
  <2> QED
    BY <2>1
<1> QED
  BY <1>1, <1>3, LiveIssued DEF Promised!Issue, Promised!Fresh, ended

LEMMA RefreshExchanges ==
  ASSUME TypeOK, KnownInv, PairsInv, NEW c \in Clients, NEW p \in Pairs \ issued, Refresh(c, p)
  PROVE  \E old \in Pairs : Promised!Exchange(old, p) \/ Promised!ExchangeLate(old, p)
<1>1. PICK i \in Pairs :
        /\ Stored(i) /\ session[i] \in Rows
        /\ session'[i] = [session[i] EXCEPT !.pair = p, !.passed = FALSE]
        /\ \A j \in Pairs \ {i} : session'[j] = session[j]
        /\ issued' = issued \cup {p}
        /\ successor' = [successor EXCEPT ![session[i].pair] = p]
  BY RefreshRow
<1> DEFINE old == session[i].pair
<1>2. old \in Pairs /\ old \in issued /\ successor[old] = None /\ old # p
  BY <1>1 DEF Rows, PairsInv
<1>3. session'[i].pair = p /\ session'[i].revoked = session[i].revoked /\ session'[i] # None
  <2>1. session'[i] \in Rows
    BY <1>1 DEF Rows
  <2> QED
    BY <1>1, <2>1, AppAssumption DEF Rows
<1>4. \A j \in Pairs \ {i} : Unrevoked(j) => session[j].pair # old /\ session[j].pair # p
  BY <1>1 DEF PairsInv, Unrevoked
<1>5. /\ Unrevoked(i)' <=> Unrevoked(i)
      /\ \A j \in Pairs \ {i} : /\ Unrevoked(j)' <=> Unrevoked(j)
                              /\ session'[j].pair = session[j].pair
  BY <1>1, <1>3 DEF Unrevoked, Stored
<1>6. CASE ~session[i].revoked
  <2>1. old \in live
    BY <1>1, <1>2, <1>6 DEF live, Unrevoked
  <2>2. ASSUME NEW q PROVE q \in live' <=> (q \in live /\ q # old) \/ q = p
    <3>1. q \in live' => (q \in live /\ q # old) \/ q = p
      BY <1>3, <1>4, <1>5 DEF live
    <3>2. q \in live /\ q # old => q \in live'
      BY <1>5 DEF live
    <3>3. p \in live'
      BY <1>1, <1>3, <1>6, <1>5 DEF live, Unrevoked
    <3> QED
      BY <3>1, <3>2, <3>3
  <2>3. live' = (live \ {old}) \cup {p}
    BY <2>2
  <2>4. old \in live /\ p \in Pairs \ (live \cup ended) /\ ended' = ended \cup {old}
    BY <1>1, <1>2, <2>1, <2>3, LiveIssued DEF ended
  <2> QED
    BY <1>1, <1>2, <2>3, <2>4 DEF Promised!Exchange, Promised!Fresh
<1>7. CASE session[i].revoked
  <2>1. old \notin live
    BY <1>1, <1>4, <1>7 DEF live, Unrevoked
  <2>2. ASSUME NEW q PROVE q \in live' <=> q \in live
    <3>1. ~Unrevoked(i)
      BY <1>7 DEF Unrevoked
    <3> QED
      BY <1>5, <3>1 DEF live
  <2>3. live' = live
    BY <2>2
  <2>4. /\ old \in ended /\ p \in Pairs \ (live \cup ended) /\ ended' = ended \cup {p}
        /\ UNCHANGED live
    BY <1>1, <1>2, <2>1, <2>3, LiveIssued DEF ended
  <2> QED
    BY <1>1, <1>2, <2>4 DEF Promised!ExchangeLate, Promised!Fresh
<1> QED
  BY <1>2, <1>6, <1>7

LEMMA RefinesStep ==
  SInv /\ [Next]_vars => [Promised!Next]_(Promised!pairVars)
<1>1. SUFFICES ASSUME SInv, [Next]_vars PROVE [Promised!Next]_(Promised!pairVars)
  OBVIOUS
<1>2. CASE Quiet
  BY <1>1, <1>2, QuietFinishes DEF SInv, Promised!Next
<1>3. ASSUME NEW c \in Clients, Begins(c) PROVE UNCHANGED Promised!pairVars
  <2>1. UNCHANGED <<session, issued, successor>>
    BY <1>1, <1>3, BeginsOp DEF SInv
  <2> QED
    BY <2>1 DEF Promised!pairVars, live, ended, Unrevoked, Stored
<1>4. ASSUME NEW c \in Clients, NEW p \in Pairs \ issued, Grant(c, p) PROVE Promised!Next
  BY <1>1, <1>4, GrantIssues DEF SInv, Promised!Next
<1>5. ASSUME NEW c \in Clients, NEW p \in Pairs \ issued, Refresh(c, p) PROVE Promised!Next
  BY <1>1, <1>5, RefreshExchanges DEF SInv, Promised!Next
<1> QED
  BY <1>1, <1>2, <1>3, <1>4, <1>5, StepKinds DEF SInv, Signs

LEMMA RefinesInit == Init => Promised!Init
  BY DEF Init, Promised!Init, live, ended, Unrevoked, Stored

\* However refreshes, revocations and expiries interleave, a pair is exchanged at most
\* once and never authorizes again once it has ended (Rotate, repository/app.go).
THEOREM AppImplements == Spec => ImplementsSessions
  BY RefinesInit, RefinesStep, SInductive, PTL DEF Spec, Promised!Spec, ImplementsSessions

-------------------------------------------------------------------------------
(* What the promise comes to, by the abstract module alone.                *)

PromisedInv ==
  /\ successor \in [Pairs -> Pairs \cup {None}]
  /\ Promised!OneLine

PromisedKept ==
  /\ ended \subseteq ended'
  /\ \A p \in Pairs : successor[p] # None => successor'[p] = successor[p]

LEMMA PairsAreSome == None \notin Pairs
  BY AppAssumption

LEMMA PromisedStart == Promised!Init => PromisedInv
  BY DEF Promised!Init, PromisedInv, Promised!OneLine

\* A fresh pair is nobody's successor yet, and one that is live has none.
LEMMA PromisedStep ==
  PromisedInv /\ [Promised!Next]_(Promised!pairVars) => PromisedInv' /\ PromisedKept
<1> SUFFICES ASSUME PromisedInv, [Promised!Next]_(Promised!pairVars)
             PROVE  PromisedInv' /\ PromisedKept
  OBVIOUS
<1> USE DEF PromisedInv, Promised!OneLine, PromisedKept
<1>1. ASSUME NEW p \in Pairs, Promised!Issue(p) PROVE PromisedInv' /\ PromisedKept
  BY <1>1 DEF Promised!Issue, Promised!Fresh
<1>2. ASSUME NEW p \in Pairs, NEW q \in Pairs,
             Promised!Exchange(p, q) \/ Promised!ExchangeLate(p, q)
      PROVE  PromisedInv' /\ PromisedKept
  <2>1. /\ q \in Pairs \ (live \cup ended) /\ p # q
        /\ successor' = [successor EXCEPT ![p] = q] /\ successor[p] = None
        /\ live' \cup ended' = live \cup ended \cup {q}
        /\ live' \cap ended' = {} /\ p \in ended' /\ ended \subseteq ended'
    BY <1>2, PairsAreSome DEF Promised!Exchange, Promised!ExchangeLate, Promised!Fresh
  <2>2. \A r \in Pairs : successor'[r] = IF r = p THEN q ELSE successor[r]
    BY <2>1
  <2>3. \A r \in Pairs : successor[r] # None => successor[r] # q
    BY <2>1
  <2>4. successor' \in [Pairs -> Pairs \cup {None}]
    BY <2>1
  <2>5. \A r \in Pairs : successor'[r] # None => r \in ended' /\ successor'[r] \in live' \cup ended'
    BY <2>1, <2>2
  <2>6. \A r, s \in Pairs : successor'[r] = successor'[s] /\ successor'[r] # None => r = s
    BY <2>2, <2>3, PairsAreSome
  <2>7. \A r \in Pairs : successor[r] # None => successor'[r] = successor[r]
    BY <2>1, <2>2
  <2> QED
    BY <2>1, <2>4, <2>5, <2>6, <2>7
<1>3. ASSUME Promised!Finish PROVE PromisedInv' /\ PromisedKept
  BY <1>3 DEF Promised!Finish
<1>4. CASE UNCHANGED Promised!pairVars
  BY <1>4 DEF Promised!pairVars
<1> QED
  BY <1>1, <1>2, <1>3, <1>4 DEF Promised!Next

LEMMA PromiseHeld == ImplementsSessions => []Promised!OneLine /\ Promised!EndedForGood
<1>1. PromisedInv => Promised!OneLine
  BY DEF PromisedInv
<1>2. PromisedKept => /\ ended \subseteq ended'
                      /\ \A p \in Pairs : successor[p] # None => successor'[p] = successor[p]
  BY DEF PromisedKept
<1> QED
  BY <1>1, <1>2, PromisedStart, PromisedStep, PTL
     DEF ImplementsSessions, Promised!Spec, Promised!EndedForGood

\* So the pairs of an application's session are one line, of which the last alone may
\* authorize, however often a refresh token is used, and whoever uses it.
THEOREM AppPairsOneLine == Spec => []Promised!OneLine /\ Promised!EndedForGood
  BY AppImplements, PromiseHeld, PTL
===============================================================================
