---------------------------- MODULE FleetProofs ----------------------------
(***************************************************************************)
(* IInv is an inductive invariant of Fleet, for any number of requests and *)
(* any bounds on ids.  What the steps have in common comes first: where a  *)
(* goroutine may go, and what an Update may do to the rows.                *)
(***************************************************************************)
EXTENDS Fleet, TLAPS

----------------------------------------------------------------------------
(* Tables.                                                                 *)

\* A row more, of the table's type, leaves the table typed.
LEMMA PutTyped ==
  ASSUME NEW S, NEW T, NEW f, IsPartial(f, S, T), NEW x \in S, NEW v \in T
  PROVE  IsPartial(Put(f, x, v), S, T) /\ DOMAIN Put(f, x, v) = DOMAIN f \cup {x}
  BY DEF IsPartial, Put

\* So does a row fewer.
LEMMA WithoutTyped ==
  ASSUME NEW S, NEW T, NEW f, IsPartial(f, S, T), NEW X
  PROVE  /\ IsPartial(Without(f, X), S, T)
         /\ DOMAIN Without(f, X) = DOMAIN f \ X
         /\ \A x \in DOMAIN f \ X : Without(f, X)[x] = f[x]
  BY DEF IsPartial, Without, Restrict

\* An id given to a new row is in no row.
LEMMA NextIdIsNew ==
  ASSUME NEW f, NEW id \in Nat, NextId(id, f)
  PROVE  id \notin DOMAIN f
  BY DEF NextId

----------------------------------------------------------------------------
(* Control.                                                                *)

\* The variables of goroutines and clients, and where goroutines come from.
ControlOK ==
    /\ pc \in [Request -> Calls]
    /\ kind \in [Request -> AllKinds]
    /\ local \in [Request -> Local]
    /\ answer \in [Request -> Answers]
    /\ EmailInv

Onward ==
    \A r \in Request :
        /\ pc'[r] \in Unopened => pc[r] \in Unopened
        /\ pc'[r] \in Unissued => pc[r] \in Unissued

\* A call later than the opening of an account or the beginning of a session
\* leads to later ones, and with an address to whoever needs one.
LEMMA GotoOnward ==
  ASSUME ControlOK, NEW r \in Request, NEW from, NEW to \in Calls \ {"auth"},
         Goto(r, from, to),
         to \in Unopened => from \in Unopened,
         to \in Unissued => from \in Unissued,
         NEW new \in Local, local' = [local EXCEPT ![r] = new],
         to \in {"lookup", "append"} => new.email \in Email,
         UNCHANGED <<kind, answer>>
  PROVE  ControlOK' /\ Onward
  <1>1. pc' = [pc EXCEPT ![r] = to] /\ pc[r] = from
    BY DEF Goto
  <1>2. EmailInv'
    BY <1>1 DEF EmailInv, ControlOK
  <1>3. Onward
    BY <1>1 DEF ControlOK, Onward
  <1> QED BY <1>1, <1>2, <1>3 DEF ControlOK

\* The same for a call that changes none of the goroutine's variables.
LEMMA MoveOnward ==
  ASSUME ControlOK, NEW r \in Request, NEW from, NEW to \in Calls \ {"auth", "lookup"},
         Goto(r, from, to),
         to \in Unopened => from \in {"lookup", "append"},
         to \in Unissued => from \in Unissued,
         UNCHANGED <<kind, answer, local>>
  PROVE  ControlOK' /\ Onward
  <1>1. pc' = [pc EXCEPT ![r] = to] /\ pc[r] = from
    BY DEF Goto
  <1>2. EmailInv'
    BY <1>1 DEF EmailInv, ControlOK, Unopened
  <1>3. Onward
    BY <1>1 DEF ControlOK, Onward, Unopened
  <1> QED BY <1>1, <1>2, <1>3 DEF ControlOK

LEMMA AnswerOnward ==
  ASSUME ControlOK, NEW r \in Request, NEW a \in Answers, Answer(r, a), UNCHANGED kind
  PROVE  ControlOK' /\ Onward
  <1>1. local' \in [Request -> Local]
    BY DEF Answer, ControlOK, Unset, Local, Token
  <1>2. /\ pc' = [pc EXCEPT ![r] = "done"]
        /\ \A q \in Request \ {r} : local'[q] = local[q]
    BY DEF Answer, ControlOK
  <1>3. EmailInv'
    BY <1>2 DEF EmailInv, ControlOK
  <1>4. Onward
    BY <1>2 DEF Onward, ControlOK, Unopened, Unissued
  <1>5. pc' \in [Request -> Calls] /\ answer' \in [Request -> Answers]
    BY DEF Answer, ControlOK, Calls
  <1> QED BY <1>1, <1>3, <1>4, <1>5 DEF ControlOK

LEMMA ControlTyped ==
  ASSUME IInv
  PROVE  ControlOK
  BY DEF IInv, TypeOK, ControlOK

----------------------------------------------------------------------------
(* Steps that change no row.                                               *)

LEMMA ControlStep ==
  ASSUME IInv, ControlOK', Onward, UNCHANGED <<tables, made, history>>
  PROVE  IInv'
  <1>1. TypeOK' /\ EmailInv'
    BY DEF IInv, TypeOK, ControlOK, tables, history
  <1>2. Accepted(users, prefs)' /\ MadeInv'
    BY DEF IInv, Accepted, MadeInv, tables
  <1>3. AccountInv'
    BY DEF IInv, AccountInv, Onward, tables, history
  <1> QED BY <1>1, <1>2, <1>3 DEF IInv

\* The handler gives up without an Update, or its closure does.
LEMMA AnswerStep ==
  ASSUME IInv, NEW r \in Request, NEW a \in Answers, Answer(r, a),
         UNCHANGED <<tables, kind, made, history>>
  PROVE  IInv'
  BY ControlTyped, AnswerOnward, ControlStep

----------------------------------------------------------------------------
(* Update.                                                                 *)

TablesOK(us, dv, dr, vs) ==
    /\ IsPartial(us, UserId, User)
    /\ IsPartial(dv, DeviceId, Device)
    /\ IsPartial(dr, DriverId, {0} \cup UserId)
    /\ IsPartial(vs, VehicleId, {0} \cup UserId)

\* No Update adds an account or moves one to another row.
SameAccounts(us) ==
    \A u \in DOMAIN us : u \in DOMAIN users /\ us[u].account = users[u].account

\* What it does to the invariant, but for the devices its client is told of.
LEMMA ReplaceStep ==
  ASSUME IInv, ControlOK', Onward,
         NEW us, NEW ps, NEW dv, NEW dr, NEW vs, NEW ok \in BOOLEAN,
         TablesOK(us, dv, dr, vs), SameAccounts(us),
         Replace(us, ps, dv, dr, vs, ok), UNCHANGED history,
         MadeInv', made' \in [Request -> SUBSET DeviceId]
  PROVE  IInv'
  <1>1. TypeOK'
    <2>1. UNCHANGED <<opened, issued>> /\ ControlOK'
      BY DEF history
    <2>2. CASE ok
      <3>1. ps \subseteq UserId
        BY <2>2 DEF Replace, Accepted, TablesOK, IsPartial
      <3> QED BY <2>1, <2>2, <3>1 DEF IInv, TypeOK, TablesOK, Replace, ControlOK
    <2>3. CASE ~ok
      BY <2>1, <2>3 DEF IInv, TypeOK, Replace, ControlOK
    <2> QED BY <2>2, <2>3
  <1>2. Accepted(users, prefs)'
    BY DEF IInv, Replace, Accepted
  <1>3. AccountInv'
    <2>1. /\ \A u \in DOMAIN users' : u \in DOMAIN users /\ users'[u].account = users[u].account
          /\ UNCHANGED <<sessions, opened, issued>>
      BY DEF Replace, SameAccounts, history
    <2> QED BY <2>1 DEF IInv, AccountInv, Onward
  <1> QED BY <1>1, <1>2, <1>3 DEF IInv, ControlOK

\* An Update of a handler that makes no device.
LEMMA CommitStep ==
  ASSUME IInv, NEW r \in Request, NEW a \in Answers,
         NEW us, NEW ps, NEW dv, NEW dr, NEW vs,
         TablesOK(us, dv, dr, vs), SameAccounts(us), DOMAIN devices \subseteq DOMAIN dv,
         Commit(r, us, ps, dv, dr, vs, a), UNCHANGED <<kind, made, history>>
  PROVE  IInv'
  <1>1. PICK ok \in BOOLEAN :
          /\ Replace(us, ps, dv, dr, vs, ok)
          /\ IF ok THEN Goto(r, "update", "audit") /\ UNCHANGED <<answer, local>>
                   ELSE Answer(r, a)
    BY DEF Commit
  <1>2. ControlOK' /\ Onward
    <2>1. CASE ok
      BY <1>1, <2>1, ControlTyped, MoveOnward DEF Calls, Unopened, Unissued
    <2>2. CASE ~ok
      BY <1>1, <2>2, ControlTyped, AnswerOnward
    <2> QED BY <2>1, <2>2
  <1>3. MadeInv' /\ made' \in [Request -> SUBSET DeviceId]
    BY <1>1 DEF IInv, TypeOK, MadeInv, Replace
  <1> QED BY <1>1, <1>2, <1>3, ReplaceStep

----------------------------------------------------------------------------
(* Requests arrive, and are authenticated.                                 *)

LEMMA ArriveStep ==
  ASSUME IInv, NEW r \in Request, NEW k \in Kinds, NEW e \in Email, Arrive(r, k, e)
  PROVE  IInv'
  <1>1. ControlOK /\ k \in AllKinds
    BY ControlTyped, FleetAssumption
  <1> DEFINE to == IF k \in {"signup", "login"} THEN "lookup" ELSE "auth"
  <1>2. /\ pc[r] = "idle" /\ pc' = [pc EXCEPT ![r] = to]
        /\ kind' = [kind EXCEPT ![r] = k]
        /\ local' = [local EXCEPT ![r].email = IF k \in Addressed THEN e ELSE NoEmail]
        /\ UNCHANGED answer
    BY DEF Arrive, Goto
  <1>3. pc' \in [Request -> Calls] /\ kind' \in [Request -> AllKinds]
    BY <1>1, <1>2 DEF ControlOK, Calls
  <1>4. local' \in [Request -> Local]
    BY <1>1, <1>2, ZenonT(40) DEF ControlOK, Local
  <1>5. local'[r].email = (IF k \in Addressed THEN e ELSE NoEmail)
    BY <1>1, <1>2 DEF ControlOK, Local
  <1>6. EmailInv'
    BY <1>1, <1>2, <1>5 DEF EmailInv, ControlOK, Addressed
  <1>7. Onward
    BY <1>1, <1>2 DEF Onward, ControlOK, Unopened, Unissued
  <1> QED BY <1>1, <1>2, <1>3, <1>4, <1>6, <1>7, ControlStep DEF ControlOK, Arrive

LEMMA FirstCallTyped ==
  ASSUME NEW k \in AllKinds
  PROVE  /\ FirstCall(k) \in {"delete_session", "lookup", "admin", "view", "update"}
         /\ FirstCall(k) = "lookup" => k \in Addressed
  BY DEF FirstCall, Addressed

LEMMA AuthenticateStep ==
  ASSUME IInv, NEW r \in Request, NEW t \in Token, Authenticate(r, t)
  PROVE  IInv'
  <1>1. UNCHANGED <<tables, kind, made, history>> /\ ControlOK /\ local[r] \in Local
    BY ControlTyped DEF Authenticate, ControlOK
  <1>2. CASE /\ t \in DOMAIN sessions
             /\ Goto(r, "auth", FirstCall(kind[r]))
             /\ local' = [local EXCEPT ![r].owner = sessions[t],
                                ![r].token = IF kind[r] = "logout" THEN t ELSE @]
             /\ UNCHANGED answer
    <2> DEFINE new == [local[r] EXCEPT !.owner = sessions[t],
                                       !.token = IF kind[r] = "logout" THEN t ELSE @]
    <2>1. /\ FirstCall(kind[r]) \in {"delete_session", "lookup", "admin", "view", "update"}
          /\ FirstCall(kind[r]) = "lookup" => kind[r] \in Addressed
      BY <1>1, FirstCallTyped DEF ControlOK
    <2>2. sessions[t] \in UserId
      BY <1>2 DEF IInv, TypeOK, IsPartial
    <2>3. new \in Local /\ new.email = local[r].email
      BY <1>1, <2>2 DEF Local
    <2>4. local' = [local EXCEPT ![r] = new]
      BY <1>1, <1>2 DEF ControlOK, Local
    <2>5. FirstCall(kind[r]) = "lookup" => new.email \in Email
      BY <1>1, <1>2, <2>1, <2>3 DEF EmailInv, ControlOK, Goto
    <2> HIDE DEF new
    <2> DEFINE to == FirstCall(kind[r])
    <2>6. /\ to \in Calls \ {"auth"} /\ Goto(r, "auth", to)
          /\ to \in Unopened => "auth" \in Unopened
          /\ to \in Unissued => "auth" \in Unissued
          /\ to \in {"lookup", "append"} => new.email \in Email
      BY <1>2, <2>1, <2>5 DEF Calls, Unopened, Unissued
    <2> HIDE DEF to
    <2>7. ControlOK' /\ Onward
      BY <1>1, <1>2, <2>3, <2>4, <2>6, GotoOnward
    <2> QED BY <1>1, <2>7, ControlStep
  <1>3. CASE /\ Goto(r, "auth", "delete_session")
             /\ local' = [local EXCEPT ![r].token = t]
             /\ UNCHANGED answer
    <2> DEFINE new == [local[r] EXCEPT !.token = t]
    <2>1. new \in Local
      BY <1>1 DEF Local
    <2>2. local' = [local EXCEPT ![r] = new]
      BY <1>1, <1>3 DEF ControlOK, Local
    <2> HIDE DEF new
    <2> DEFINE to == "delete_session"
    <2>3. to \in Calls \ {"auth"} /\ to \notin Unissued /\ to \notin Unopened
      BY DEF Calls, Unopened, Unissued
    <2>4. Goto(r, "auth", to) /\ to \notin {"lookup", "append"}
      BY <1>3
    <2> HIDE DEF to
    <2>5. ControlOK' /\ Onward
      BY <1>1, <1>3, <2>1, <2>2, <2>3, <2>4, GotoOnward
    <2> QED BY <1>1, <2>5, ControlStep
  <1>4. CASE Answer(r, "unauthorized")
    BY <1>1, <1>4, AnswerStep DEF Answers
  <1> QED BY <1>2, <1>3, <1>4 DEF Authenticate

----------------------------------------------------------------------------
(* Accounts and sessions.                                                  *)

LEMMA LookUpStep ==
  ASSUME IInv, NEW r \in Request, LookUp(r)
  PROVE  IInv'
  <1>1. UNCHANGED <<tables, kind, made, history>> /\ ControlOK /\ local[r] \in Local
    BY ControlTyped DEF LookUp, ControlOK
  <1>2. CASE Goto(r, "lookup", "append") /\ UNCHANGED <<answer, local>>
    BY <1>1, <1>2, MoveOnward, ControlStep DEF Calls, Unopened, Unissued
  <1>3. ASSUME NEW a \in Answers, Answer(r, a)
        PROVE  IInv'
    BY <1>1, <1>3, AnswerStep
  <1>4. CASE /\ \E u \in UserId :
                   /\ HasEmail(u, local[r].email)
                   /\ local' = [local EXCEPT ![r].owner = u,
                         ![r].account = IF kind[r] = "login"
                                        THEN users[u].account ELSE @]
             /\ Goto(r, "lookup", IF kind[r] = "login" THEN "session" ELSE "update")
             /\ UNCHANGED answer
    <2>1. PICK u \in UserId :
            /\ HasEmail(u, local[r].email)
            /\ local' = [local EXCEPT ![r].owner = u,
                  ![r].account = IF kind[r] = "login" THEN users[u].account ELSE @]
      BY <1>4
    <2> DEFINE new == [local[r] EXCEPT !.owner = u,
                  !.account = IF kind[r] = "login" THEN users[u].account ELSE @]
    <2>2. users[u].account \in Account
      BY <2>1 DEF HasEmail, IInv, TypeOK, IsPartial, User
    <2>3. new \in Local
      BY <1>1, <2>2 DEF Local
    <2>4. local' = [local EXCEPT ![r] = new]
      BY <1>1, <2>1 DEF ControlOK, Local
    <2> HIDE DEF new
    <2> DEFINE to == IF kind[r] = "login" THEN "session" ELSE "update"
    <2>5. /\ Goto(r, "lookup", to)
          /\ to \in Calls \ {"auth"} /\ to \notin Unopened
          /\ "lookup" \in Unissued /\ to \notin {"lookup", "append"}
      BY <1>4 DEF Calls, Unopened, Unissued
    <2> HIDE DEF to
    <2>6. ControlOK' /\ Onward
      BY <1>1, <1>4, <2>3, <2>4, <2>5, GotoOnward
    <2> QED BY <1>1, <2>6, ControlStep
  <1> QED BY <1>2, <1>3, <1>4 DEF LookUp, Answers

LEMMA RereadStep ==
  ASSUME IInv, NEW r \in Request, Reread(r)
  PROVE  IInv'
  <1>1. UNCHANGED <<tables, kind, made, history, answer>> /\ ControlOK /\ local[r] \in Local
    BY ControlTyped DEF Reread, ControlOK
  <1>2. PICK u \in {0} \cup UserId :
          local' = [local EXCEPT ![r].owner = u, ![r].account = r]
    BY DEF Reread
  <1> DEFINE new == [local[r] EXCEPT !.owner = u, !.account = r]
  <1>3. new \in Local
    BY <1>1 DEF Local, Account
  <1>4. local' = [local EXCEPT ![r] = new]
    BY <1>1, <1>2 DEF ControlOK, Local
  <1> HIDE DEF new
  <1> DEFINE to == IF kind[r] = "signup" THEN "session" ELSE "audit"
  <1>5. /\ Goto(r, "reread", to)
        /\ to \in Calls \ {"auth"} /\ to \notin Unopened
        /\ "reread" \in Unissued /\ to \notin {"lookup", "append"}
    BY DEF Reread, Calls, Unopened, Unissued
  <1> HIDE DEF to
  <1>6. ControlOK' /\ Onward
    BY <1>1, <1>3, <1>4, <1>5, GotoOnward
  <1> QED BY <1>1, <1>6, ControlStep

\* What AppendUser does to the rows.
LEMMA AppendUserEffect ==
  ASSUME IInv, NEW r \in Request, AppendUser(r)
  PROVE  \/ UNCHANGED <<tables, history>>
         \/ /\ \E u \in UserId \ DOMAIN users, role \in Role :
                  users' = Put(users, u, [email |-> local[r].email, role |-> role,
                                          account |-> r])
            /\ ~Registered(local[r].email)
            /\ opened' = opened \cup {r} /\ pc[r] = "append" /\ pc'[r] = "reread"
            /\ UNCHANGED <<sessions, prefs, devices, drivers, vehicles, issued>>
  <1>1. UNCHANGED <<sessions, prefs, devices, drivers, vehicles, issued>>
    BY DEF AppendUser
  <1>2. CASE UNCHANGED <<users, opened>>
    BY <1>1, <1>2 DEF tables, history
  <1>3. CASE /\ ~Registered(local[r].email)
             /\ \E u \in UserId, role \in Role :
                   /\ NextId(u, users)
                   /\ users' = Put(users, u, [email |-> local[r].email,
                                              role |-> role, account |-> r])
             /\ opened' = opened \cup {r}
             /\ Goto(r, "append", "reread")
    <2>1. pc[r] = "append" /\ pc'[r] = "reread"
      BY <1>3 DEF Goto, IInv, TypeOK
    <2>2. PICK u \in UserId, role \in Role :
            /\ NextId(u, users)
            /\ users' = Put(users, u, [email |-> local[r].email,
                                       role |-> role, account |-> r])
      BY <1>3
    <2>3. u \notin DOMAIN users
      BY <2>2, FleetAssumption, NextIdIsNew DEF UserId
    <2> QED BY <1>1, <1>3, <2>1, <2>2, <2>3
  <1> QED BY <1>2, <1>3 DEF AppendUser

LEMMA AppendUserStep ==
  ASSUME IInv, NEW r \in Request, AppendUser(r)
  PROVE  IInv'
  <1>1. ControlOK' /\ Onward /\ UNCHANGED <<kind, made>>
    <2>1. CASE Goto(r, "append", "reread") /\ UNCHANGED <<answer, local>>
      BY <2>1, ControlTyped, MoveOnward DEF AppendUser, Calls, Unopened, Unissued
    <2>2. CASE Answer(r, "error")
      BY <2>2, ControlTyped, AnswerOnward DEF AppendUser, Answers
    <2> QED BY <2>1, <2>2 DEF AppendUser
  <1>2. CASE UNCHANGED <<tables, history>>
    BY <1>1, <1>2, ControlStep
  <1>3. CASE /\ \E u \in UserId \ DOMAIN users, role \in Role :
                  users' = Put(users, u, [email |-> local[r].email, role |-> role,
                                          account |-> r])
             /\ ~Registered(local[r].email)
             /\ opened' = opened \cup {r} /\ pc[r] = "append" /\ pc'[r] = "reread"
             /\ UNCHANGED <<sessions, prefs, devices, drivers, vehicles, issued>>
    <2>1. PICK u \in UserId \ DOMAIN users, role \in Role :
            users' = Put(users, u, [email |-> local[r].email, role |-> role,
                                    account |-> r])
      BY <1>3
    <2> DEFINE row == [email |-> local[r].email, role |-> role, account |-> r]
    <2>2. /\ DOMAIN users' = DOMAIN users \cup {u}
          /\ users'[u] = row
          /\ \A v \in DOMAIN users : users'[v] = users[v]
      BY <2>1 DEF Put
    <2>3. local[r].email \in Email
      BY <1>3 DEF IInv, EmailInv
    <2>4. IsPartial(users', UserId, User)
      <3>1. row \in User
        BY <2>3 DEF User, Account
      <3> HIDE DEF row
      <3> QED BY <2>1, <3>1, PutTyped DEF IInv, TypeOK, row
    <2>5. TypeOK'
      BY <1>1, <1>3, <2>4 DEF IInv, TypeOK, ControlOK, Account
    <2>6. Accepted(users, prefs)'
      <3>1. \A v \in DOMAIN users : users[v].email # local[r].email
        BY <1>3 DEF Registered, HasEmail, IInv, TypeOK, IsPartial
      <3> QED BY <1>3, <2>2, <3>1 DEF IInv, Accepted
    <2>7. AccountInv'
      <3>1. \A v \in DOMAIN users : users[v].account # r
        BY <1>3 DEF IInv, AccountInv, Unopened
      <3>2. \A u1, v \in DOMAIN users' :
              users'[u1].account = users'[v].account => u1 = v
        BY <2>2, <3>1 DEF IInv, AccountInv
      <3>3. \A v \in DOMAIN users' : users'[v].account \in opened'
        BY <1>3, <2>2 DEF IInv, AccountInv
      <3>4. \A q \in Request : pc'[q] \in Unopened => q \notin opened'
        BY <1>1, <1>3 DEF IInv, AccountInv, Onward, Unopened
      <3>5. \A q \in Request : pc'[q] \in Unissued => q \notin issued'
        BY <1>1, <1>3 DEF IInv, AccountInv, Onward
      <3> QED BY <1>3, <3>2, <3>3, <3>4, <3>5 DEF IInv, AccountInv
    <2>8. MadeInv'
      BY <1>1, <1>3 DEF IInv, MadeInv
    <2> QED BY <1>1, <2>5, <2>6, <2>7, <2>8 DEF IInv, ControlOK
  <1> QED BY <1>2, <1>3, AppendUserEffect

LEMMA NewSessionStep ==
  ASSUME IInv, NEW r \in Request, NewSession(r)
  PROVE  IInv'
  <1>1. UNCHANGED <<users, prefs, devices, drivers, vehicles, kind, made, opened>>
    BY DEF NewSession
  <1>2. CASE /\ local[r].owner \in DOMAIN users
             /\ sessions' = Put(sessions, r, local[r].owner)
             /\ issued' = issued \cup {r}
             /\ Goto(r, "session", "audit")
             /\ UNCHANGED <<answer, local>>
    <2>1. ControlOK' /\ Onward
      BY <1>1, <1>2, ControlTyped, MoveOnward DEF Calls, Unopened, Unissued
    <2>2. IsPartial(sessions', Token, UserId)
      <3>1. local[r].owner \in UserId /\ r \in Token
        BY <1>2 DEF IInv, TypeOK, IsPartial, Token
      <3>2. IsPartial(sessions, Token, UserId)
        BY DEF IInv, TypeOK
      <3> QED BY <1>2, <3>1, <3>2, PutTyped
    <2>3. TypeOK'
      BY <1>1, <1>2, <2>1, <2>2 DEF IInv, TypeOK, ControlOK, Token
    <2>4. Accepted(users, prefs)'
      BY <1>1, <1>2 DEF IInv, Accepted, Put
    <2>5. AccountInv'
      <3>1. DOMAIN sessions' \subseteq issued'
        BY <1>2 DEF IInv, AccountInv, Put
      <3>2. pc'[r] = "audit"
        BY <1>2 DEF Goto, IInv, TypeOK
      <3>3. \A q \in Request : pc'[q] \in Unissued => q \notin issued'
        BY <1>2, <2>1, <3>2 DEF IInv, AccountInv, Onward, Unissued, Unopened
      <3> QED BY <1>1, <2>1, <3>1, <3>3 DEF IInv, AccountInv, Onward
    <2> QED BY <1>1, <2>1, <2>3, <2>4, <2>5 DEF IInv, ControlOK, MadeInv
  <1>3. CASE Answer(r, "error") /\ UNCHANGED <<sessions, issued>>
    BY <1>1, <1>3, AnswerStep DEF Answers, tables, history
  <1> QED BY <1>2, <1>3 DEF NewSession

LEMMA EndSessionStep ==
  ASSUME IInv, NEW r \in Request, EndSession(r)
  PROVE  IInv'
  <1>1. /\ UNCHANGED <<users, prefs, devices, drivers, vehicles, kind, made, history>>
        /\ sessions' = Without(sessions, {local[r].token})
    BY DEF EndSession
  <1>2. ControlOK' /\ Onward
    <2>1. CASE Goto(r, "delete_session", "audit") /\ UNCHANGED <<answer, local>>
      BY <1>1, <2>1, ControlTyped, MoveOnward DEF Calls, Unopened, Unissued
    <2>2. CASE Answer(r, "ok")
      BY <1>1, <2>2, ControlTyped, AnswerOnward DEF Answers
    <2> QED BY <2>1, <2>2 DEF EndSession
  <1>3. /\ IsPartial(sessions', Token, UserId)
        /\ DOMAIN sessions' \subseteq DOMAIN sessions
        /\ \A t \in DOMAIN sessions' : sessions'[t] = sessions[t]
    <2>1. IsPartial(sessions, Token, UserId)
      BY DEF IInv, TypeOK
    <2>2. /\ IsPartial(sessions', Token, UserId)
          /\ DOMAIN sessions' = DOMAIN sessions \ {local[r].token}
          /\ \A t \in DOMAIN sessions \ {local[r].token} : sessions'[t] = sessions[t]
      BY <1>1, <2>1, WithoutTyped, SMTT(30)
    <2> QED BY <2>2
  <1>4. TypeOK'
    BY <1>1, <1>2, <1>3 DEF IInv, TypeOK, ControlOK, history
  <1>5. Accepted(users, prefs)' /\ MadeInv'
    BY <1>1, <1>3 DEF IInv, Accepted, MadeInv
  <1>6. AccountInv'
    BY <1>1, <1>2, <1>3 DEF IInv, AccountInv, Onward, history
  <1> QED BY <1>2, <1>4, <1>5, <1>6 DEF IInv, ControlOK

----------------------------------------------------------------------------
(* Members, fleets, settings.                                              *)

LEMMA IsAdminStep ==
  ASSUME IInv, NEW r \in Request, IsAdmin(r)
  PROVE  IInv'
  <1>1. UNCHANGED <<tables, kind, made, history>> /\ ControlOK /\ local[r] \in Local
    BY ControlTyped DEF IsAdmin, ControlOK
  <1>2. CASE Answer(r, "forbidden")
    BY <1>1, <1>2, AnswerStep DEF Answers
  <1>3. CASE Goto(r, "admin", "update") /\ UNCHANGED <<answer, local>>
    BY <1>1, <1>3, MoveOnward, ControlStep DEF Calls, Unopened, Unissued
  <1>4. CASE /\ Goto(r, "admin", "update")
             /\ \E u \in {0} \cup UserId : local' = [local EXCEPT ![r].owner = u]
             /\ UNCHANGED answer
    <2>1. PICK u \in {0} \cup UserId : local' = [local EXCEPT ![r].owner = u]
      BY <1>4
    <2> DEFINE new == [local[r] EXCEPT !.owner = u]
               to == "update"
    <2>2. new \in Local
      BY <1>1 DEF Local
    <2>3. local' = [local EXCEPT ![r] = new]
      BY <1>1, <2>1 DEF ControlOK, Local
    <2>4. /\ Goto(r, "admin", to)
          /\ to \in Calls \ {"auth"} /\ to \notin Unopened /\ to \notin Unissued
          /\ to \notin {"lookup", "append"}
      BY <1>4 DEF Calls, Unopened, Unissued
    <2> HIDE DEF new, to
    <2>5. ControlOK' /\ Onward
      BY <1>1, <1>4, <2>2, <2>3, <2>4, GotoOnward
    <2> QED BY <1>1, <2>5, ControlStep
  <1> QED BY <1>2, <1>3, <1>4 DEF IsAdmin

\* The rows as they are may be written again.
LEMMA TablesTyped ==
  ASSUME IInv
  PROVE  TablesOK(users, devices, drivers, vehicles) /\ SameAccounts(users)
  BY DEF IInv, TypeOK, TablesOK, SameAccounts

\* A row may be rewritten with another role or address, or left out.
LEMMA EditedTyped ==
  ASSUME IInv, NEW u \in DOMAIN users, NEW e \in Email, NEW role \in Role
  PROVE  /\ TablesOK([users EXCEPT ![u].role = role], devices, drivers, vehicles)
         /\ SameAccounts([users EXCEPT ![u].role = role])
         /\ TablesOK([users EXCEPT ![u].email = e], devices, drivers, vehicles)
         /\ SameAccounts([users EXCEPT ![u].email = e])
  <1>1. users \in [DOMAIN users -> User] /\ DOMAIN users \subseteq UserId
    BY DEF IInv, TypeOK, IsPartial
  <1>2. IsPartial([users EXCEPT ![u].role = role], UserId, User)
    BY <1>1 DEF IsPartial, User
  <1>3. IsPartial([users EXCEPT ![u].email = e], UserId, User)
    BY <1>1 DEF IsPartial, User
  <1> QED BY <1>1, <1>2, <1>3, TablesTyped DEF TablesOK, SameAccounts, User

LEMMA RemovedTyped ==
  ASSUME IInv, NEW u
  PROVE  /\ TablesOK(Without(users, {u}), devices, drivers, vehicles)
         /\ SameAccounts(Without(users, {u}))
  <1>1. IsPartial(users, UserId, User)
    BY DEF IInv, TypeOK
  <1>2. /\ IsPartial(Without(users, {u}), UserId, User)
        /\ DOMAIN Without(users, {u}) = DOMAIN users \ {u}
        /\ \A x \in DOMAIN users \ {u} : Without(users, {u})[x] = users[x]
    BY <1>1, WithoutTyped
  <1> QED BY <1>2, TablesTyped DEF TablesOK, SameAccounts

LEMMA EditSelfStep ==
  ASSUME IInv, NEW r \in Request, EditSelf(r)
  PROVE  IInv'
  <1>1. UNCHANGED <<kind, made, history>>
    BY DEF EditSelf
  <1>2. ASSUME NEW ok \in BOOLEAN,
               Replace(users, prefs, devices, drivers, vehicles, ok),
               Answer(r, IF ok THEN "ok" ELSE "error")
        PROVE  IInv'
    <2>1. UNCHANGED tables
      BY <1>2 DEF Replace, tables
    <2>2. (IF ok THEN "ok" ELSE "error") \in Answers
      BY DEF Answers
    <2> QED BY <1>1, <1>2, <2>1, <2>2, AnswerStep
  <1>3. CASE GiveUp(r, "error")
    BY <1>1, <1>3, AnswerStep DEF GiveUp, Answers
  <1> QED BY <1>2, <1>3 DEF EditSelf

LEMMA EditMemberStep ==
  ASSUME IInv, NEW r \in Request, EditMember(r)
  PROVE  IInv'
  <1>1. UNCHANGED <<kind, made, history>>
    BY DEF EditMember
  <1>2. ASSUME NEW u \in DOMAIN users, NEW role \in Role,
               Commit(r, [users EXCEPT ![u].role = role], prefs, devices, drivers,
                      vehicles, "not_found")
        PROVE  IInv'
    <2>1. /\ TablesOK([users EXCEPT ![u].role = role], devices, drivers, vehicles)
          /\ SameAccounts([users EXCEPT ![u].role = role])
      <3>1. users[u].email \in Email
        BY DEF IInv, TypeOK, IsPartial, User
      <3> QED BY <3>1, EditedTyped
    <2> QED BY <1>1, <1>2, <2>1, CommitStep DEF Answers
  <1>3. CASE GiveUp(r, "not_found")
    BY <1>1, <1>3, AnswerStep DEF GiveUp, Answers
  <1> QED BY <1>2, <1>3 DEF EditMember

LEMMA DeleteMemberStep ==
  ASSUME IInv, NEW r \in Request, DeleteMember(r)
  PROVE  IInv'
  <1>1. UNCHANGED <<kind, made, history>>
    BY DEF DeleteMember
  <1>2. ASSUME NEW u \in UserId,
               Commit(r, Without(users, {u}), prefs, devices, drivers, vehicles,
                      "not_found")
        PROVE  IInv'
    BY <1>1, <1>2, RemovedTyped, CommitStep DEF Answers
  <1>3. ASSUME NEW a \in Answers, GiveUp(r, a)
        PROVE  IInv'
    BY <1>1, <1>3, AnswerStep DEF GiveUp
  <1> QED BY <1>2, <1>3 DEF DeleteMember, Answers

LEMMA EditFleetStep ==
  ASSUME IInv, NEW r \in Request, EditFleet(r)
  PROVE  IInv'
  <1>1. UNCHANGED <<kind, made, history>>
    BY DEF EditFleet
  <1>2. ASSUME NEW u \in DOMAIN users, NEW e \in Email,
               Commit(r, [users EXCEPT ![u].email = e], prefs, devices, drivers,
                      vehicles, "error")
        PROVE  IInv'
    <2>1. /\ TablesOK([users EXCEPT ![u].email = e], devices, drivers, vehicles)
          /\ SameAccounts([users EXCEPT ![u].email = e])
      <3>1. users[u].role \in Role
        BY DEF IInv, TypeOK, IsPartial, User
      <3> QED BY <3>1, EditedTyped
    <2> QED BY <1>1, <1>2, <2>1, CommitStep DEF Answers
  <1>3. CASE GiveUp(r, "not_found")
    BY <1>1, <1>3, AnswerStep DEF GiveUp, Answers
  <1> QED BY <1>2, <1>3 DEF EditFleet, IsFleet

LEMMA DeleteFleetStep ==
  ASSUME IInv, NEW r \in Request, DeleteFleet(r)
  PROVE  IInv'
  <1>1. UNCHANGED <<kind, made, history>>
    BY DEF DeleteFleet
  <1>2. ASSUME NEW u \in UserId
        PROVE  Commit(r, Without(users, {u}), prefs,
                      [d \in DOMAIN devices |->
                          IF devices[d].owner = u
                          THEN [owner |-> 0, state |-> "manufactured"]
                          ELSE devices[d]],
                      Without(drivers, OwnedBy(drivers, u)),
                      Without(vehicles, OwnedBy(vehicles, u)),
                      "error") => IInv'
    <2> DEFINE dv == [d \in DOMAIN devices |->
                         IF devices[d].owner = u
                         THEN [owner |-> 0, state |-> "manufactured"]
                         ELSE devices[d]]
               dr == Without(drivers, OwnedBy(drivers, u))
               vs == Without(vehicles, OwnedBy(vehicles, u))
    <2>1. IsPartial(dv, DeviceId, Device) /\ DOMAIN dv = DOMAIN devices
      BY DEF IInv, TypeOK, IsPartial, Device
    <2>2. IsPartial(dr, DriverId, {0} \cup UserId) /\ IsPartial(vs, VehicleId, {0} \cup UserId)
      BY WithoutTyped DEF IInv, TypeOK
    <2> HIDE DEF dv, dr, vs
    <2>3. TablesOK(Without(users, {u}), dv, dr, vs) /\ SameAccounts(Without(users, {u}))
      BY <2>1, <2>2, RemovedTyped DEF TablesOK
    <2>4. Commit(r, Without(users, {u}), prefs, dv, dr, vs, "error") => IInv'
      BY <1>1, <2>1, <2>3, CommitStep DEF Answers
    <2> QED BY <2>4 DEF dv, dr, vs
  <1>3. CASE GiveUp(r, "not_found")
    BY <1>1, <1>3, AnswerStep DEF GiveUp, Answers
  <1> QED BY <1>2, <1>3 DEF DeleteFleet

LEMMA SavePrefsStep ==
  ASSUME IInv, NEW r \in Request, SavePrefs(r)
  PROVE  IInv'
  BY TablesTyped, CommitStep DEF SavePrefs, Answers

----------------------------------------------------------------------------
(* Drivers, devices, vehicles.                                             *)

\* A row with an owner may be added to drivers or vehicles.
LEMMA OwnedTyped ==
  ASSUME NEW S, NEW f, IsPartial(f, S, {0} \cup UserId), NEW x \in S,
         NEW r \in Request, local \in [Request -> Local]
  PROVE  IsPartial(Put(f, x, local[r].owner), S, {0} \cup UserId)
  <1>1. local[r].owner \in {0} \cup UserId
    BY DEF Local
  <1> QED BY <1>1, PutTyped

LEMMA CreateDriverStep ==
  ASSUME IInv, NEW r \in Request, CreateDriver(r)
  PROVE  IInv'
  <1>1. PICK d \in DriverId :
          Commit(r, users, prefs, devices, Put(drivers, d, local[r].owner), vehicles,
                 "error")
    BY DEF CreateDriver
  <1> DEFINE dr == Put(drivers, d, local[r].owner)
  <1>2. IsPartial(dr, DriverId, {0} \cup UserId)
    BY OwnedTyped DEF IInv, TypeOK
  <1> HIDE DEF dr
  <1>3. TablesOK(users, devices, dr, vehicles) /\ SameAccounts(users)
    BY <1>2, TablesTyped DEF TablesOK
  <1>4. Commit(r, users, prefs, devices, dr, vehicles, "error")
    BY <1>1 DEF dr
  <1> QED BY <1>3, <1>4, CommitStep DEF CreateDriver, Answers

LEMMA CreateVehicleStep ==
  ASSUME IInv, NEW r \in Request, CreateVehicle(r)
  PROVE  IInv'
  <1>1. PICK v \in VehicleId :
          Commit(r, users, prefs, devices, drivers, Put(vehicles, v, local[r].owner),
                 "error")
    BY DEF CreateVehicle
  <1> DEFINE vs == Put(vehicles, v, local[r].owner)
  <1>2. IsPartial(vs, VehicleId, {0} \cup UserId)
    BY OwnedTyped DEF IInv, TypeOK
  <1> HIDE DEF vs
  <1>3. TablesOK(users, devices, drivers, vs) /\ SameAccounts(users)
    BY <1>2, TablesTyped DEF TablesOK
  <1>4. Commit(r, users, prefs, devices, drivers, vs, "error")
    BY <1>1 DEF vs
  <1> QED BY <1>3, <1>4, CommitStep DEF CreateVehicle, Answers

LEMMA InstallVehicleStep ==
  ASSUME IInv, NEW r \in Request, InstallVehicle(r)
  PROVE  IInv'
  <1> DEFINE dv == [x \in DOMAIN devices |->
                       IF x = local[r].device
                       THEN [devices[x] EXCEPT !.state = "installed"]
                       ELSE devices[x]]
  <1>1. PICK v \in VehicleId :
          Commit(r, users, prefs, dv, drivers, Put(vehicles, v, local[r].owner), "error")
    BY DEF InstallVehicle
  <1> DEFINE vs == Put(vehicles, v, local[r].owner)
  <1>2. IsPartial(vs, VehicleId, {0} \cup UserId)
    BY OwnedTyped DEF IInv, TypeOK
  <1>3. IsPartial(dv, DeviceId, Device) /\ DOMAIN dv = DOMAIN devices
    BY DEF IInv, TypeOK, IsPartial, Device
  <1>4. Commit(r, users, prefs, dv, drivers, vs, "error")
    BY <1>1
  <1> HIDE DEF dv, vs
  <1>5. TablesOK(users, dv, drivers, vs) /\ SameAccounts(users)
    BY <1>2, <1>3, TablesTyped DEF TablesOK
  <1> QED BY <1>3, <1>4, <1>5, CommitStep DEF InstallVehicle, Answers

LEMMA AssignInstalledStep ==
  ASSUME IInv, NEW r \in Request, NEW k,
         NEW state \in {"provisioned", "assigned"}, AssignInstalled(r, k, state)
  PROVE  IInv'
  <1>1. UNCHANGED <<kind, made, history>>
    BY DEF AssignInstalled
  <1>2. ASSUME NEW d \in DOMAIN devices
        PROVE  Commit(r, users, prefs,
                      [devices EXCEPT ![d] =
                          [owner |-> IF k = "link_device" THEN @.owner
                                     ELSE local[r].owner,
                           state |-> state]],
                      drivers, vehicles, "not_found") => IInv'
    <2> DEFINE row == [owner |-> IF k = "link_device" THEN devices[d].owner
                                 ELSE local[r].owner,
                       state |-> state]
               dv == [devices EXCEPT ![d] =
                         [owner |-> IF k = "link_device" THEN @.owner
                                    ELSE local[r].owner,
                          state |-> state]]
    <2>1. devices \in [DOMAIN devices -> Device] /\ DOMAIN devices \subseteq DeviceId
      BY DEF IInv, TypeOK, IsPartial
    <2>2. row \in Device
      BY <2>1 DEF Device, IInv, TypeOK, Local
    <2>3. dv = [devices EXCEPT ![d] = row]
      BY <2>1
    <2> HIDE DEF dv, row
    <2>4. IsPartial(dv, DeviceId, Device) /\ DOMAIN dv = DOMAIN devices
      BY <2>1, <2>2, <2>3 DEF IsPartial
    <2>5. TablesOK(users, dv, drivers, vehicles) /\ SameAccounts(users)
      BY <2>4, TablesTyped DEF TablesOK
    <2>6. Commit(r, users, prefs, dv, drivers, vehicles, "not_found") => IInv'
      BY <1>1, <2>4, <2>5, CommitStep DEF Answers
    <2> QED BY <2>6 DEF dv
  <1>3. CASE GiveUp(r, "not_found")
    BY <1>1, <1>3, AnswerStep DEF GiveUp, Answers
  <1> QED BY <1>2, <1>3 DEF AssignInstalled

\* Rows of devices that are new, with ids that no row has: the client that is
\* told of them is the only one.
LEMMA DevicesMade ==
  ASSUME IInv, ControlOK', Onward, NEW r \in Request,
         NEW new \in SUBSET DeviceId, new \cap DOMAIN devices = {},
         NEW dv, IsPartial(dv, DeviceId, Device), DOMAIN dv = DOMAIN devices \cup new,
         Replace(users, prefs, dv, drivers, vehicles, TRUE),
         made' = [made EXCEPT ![r] = new], UNCHANGED history
  PROVE  IInv'
  <1>1. devices' = dv
    BY DEF Replace
  <1>2. made \in [Request -> SUBSET DeviceId] /\ MadeInv
    BY DEF IInv, TypeOK
  <1>3. MadeInv' /\ made' \in [Request -> SUBSET DeviceId]
    BY <1>1, <1>2 DEF MadeInv
  <1>4. TablesOK(users, dv, drivers, vehicles) /\ SameAccounts(users)
    BY TablesTyped DEF TablesOK
  <1> QED BY <1>3, <1>4, ReplaceStep

LEMMA CreateDeviceStep ==
  ASSUME IInv, NEW r \in Request, CreateDevice(r)
  PROVE  IInv'
  <1>1. PICK d \in DeviceId, ok \in BOOLEAN :
          /\ NextId(d, devices)
          /\ Replace(users, prefs,
                     Put(devices, d, [owner |-> local[r].owner,
                                      state |-> "manufactured"]),
                     drivers, vehicles, ok)
          /\ made' = [made EXCEPT ![r] = {d}]
    BY DEF CreateDevice
  <1>2. ok = TRUE
    BY <1>1 DEF Replace, IInv
  <1> DEFINE row == [owner |-> local[r].owner, state |-> "manufactured"]
             dv == Put(devices, d, row)
  <1>3. row \in Device
    BY DEF Device, IInv, TypeOK, Local
  <1>4. Replace(users, prefs, dv, drivers, vehicles, TRUE)
    BY <1>1, <1>2
  <1> HIDE DEF row
  <1> IsPartial(devices, DeviceId, Device) /\ d \in DeviceId
    BY DEF IInv, TypeOK
  <1>5. IsPartial(dv, DeviceId, Device) /\ DOMAIN dv = DOMAIN devices \cup {d}
    BY <1>3, PutTyped
  <1>6. {d} \in SUBSET DeviceId /\ {d} \cap DOMAIN devices = {}
    BY <1>1, FleetAssumption, NextIdIsNew DEF DeviceId
  <1>7. ControlOK' /\ Onward
    BY ControlTyped, MoveOnward DEF CreateDevice, Calls, Unopened, Unissued
  <1> HIDE DEF dv
  <1> QED BY <1>1, <1>4, <1>5, <1>6, <1>7, DevicesMade DEF CreateDevice

LEMMA CreateBatchStep ==
  ASSUME IInv, NEW r \in Request, CreateBatch(r)
  PROVE  IInv'
  <1>1. PICK first \in DeviceId, last \in DeviceId :
          /\ NextId(first, devices)
          /\ Commit(r, users, prefs,
                    [d \in DOMAIN devices \cup (first .. last) |->
                        IF d \in DOMAIN devices THEN devices[d]
                        ELSE [owner |-> 0, state |-> "manufactured"]],
                    drivers, vehicles, "error")
          /\ made' = [made EXCEPT ![r] = first .. last]
    BY DEF CreateBatch
  <1> DEFINE new == first .. last
             dv == [d \in DOMAIN devices \cup new |->
                       IF d \in DOMAIN devices THEN devices[d]
                       ELSE [owner |-> 0, state |-> "manufactured"]]
  <1>2. Commit(r, users, prefs, dv, drivers, vehicles, "error")
    BY <1>1
  <1>3. new \in SUBSET DeviceId /\ new \cap DOMAIN devices = {}
    <2>1. \A d \in DOMAIN devices : d \in Nat /\ d < first
      BY <1>1 DEF NextId, IInv, TypeOK, IsPartial, DeviceId
    <2> QED BY <2>1, FleetAssumption DEF DeviceId
  <1>4. made' = [made EXCEPT ![r] = new]
    BY <1>1
  <1> HIDE DEF new
  <1>5. IsPartial(dv, DeviceId, Device) /\ DOMAIN dv = DOMAIN devices \cup new
    BY <1>3 DEF IInv, TypeOK, IsPartial, Device
  <1> HIDE DEF dv
  <1>6. PICK ok \in BOOLEAN :
          /\ Replace(users, prefs, dv, drivers, vehicles, ok)
          /\ IF ok THEN Goto(r, "update", "audit") /\ UNCHANGED <<answer, local>>
                   ELSE Answer(r, "error")
    BY <1>2 DEF Commit
  <1>7. ok = TRUE
    BY <1>6 DEF Replace, IInv
  <1>8. ControlOK' /\ Onward
    BY <1>6, <1>7, ControlTyped, MoveOnward DEF CreateBatch, Calls, Unopened, Unissued
  <1> QED BY <1>3, <1>4, <1>5, <1>6, <1>7, <1>8, DevicesMade DEF CreateBatch

LEMMA ViewStep ==
  ASSUME IInv, NEW r \in Request, View(r)
  PROVE  IInv'
  <1>1. UNCHANGED <<tables, kind, answer, made, history>> /\ ControlOK /\ local[r] \in Local
    BY ControlTyped DEF View, ControlOK
  <1>2. CASE UNCHANGED local
    BY <1>1, <1>2, MoveOnward, ControlStep DEF View, Calls, Unopened, Unissued
  <1>3. ASSUME NEW d \in DOMAIN devices,
               local' = [local EXCEPT ![r].device = d,
                                      ![r].owner = IF devices[d].owner = 0 THEN @
                                                   ELSE devices[d].owner]
        PROVE  IInv'
    <2> DEFINE new == [local[r] EXCEPT !.device = d,
                                       !.owner = IF devices[d].owner = 0 THEN @
                                                 ELSE devices[d].owner]
               to == "update"
    <2>1. d \in DeviceId /\ devices[d].owner \in {0} \cup UserId
      BY DEF IInv, TypeOK, IsPartial, Device
    <2>2. new \in Local
      BY <1>1, <2>1 DEF Local
    <2>3. local' = [local EXCEPT ![r] = new]
      BY <1>1, <1>3 DEF ControlOK, Local
    <2>4. /\ Goto(r, "view", to)
          /\ to \in Calls \ {"auth"} /\ to \notin Unopened /\ to \notin Unissued
          /\ to \notin {"lookup", "append"}
      BY DEF View, Calls, Unopened, Unissued
    <2> HIDE DEF new, to
    <2>5. ControlOK' /\ Onward
      BY <1>1, <2>2, <2>3, <2>4, GotoOnward
    <2> QED BY <1>1, <2>5, ControlStep
  <1> QED BY <1>2, <1>3 DEF View

LEMMA AskWithinStep ==
  ASSUME IInv, NEW r \in Request, NEW k, NEW rows, NEW ids, AskWithin(r, k, rows, ids)
  PROVE  IInv'
  <1>1. UNCHANGED <<kind, made, history>>
    BY DEF AskWithin
  <1>2. CASE Goto(r, "update", "stuck") /\ UNCHANGED <<tables, local, answer>>
    BY <1>1, <1>2, ControlTyped, MoveOnward, ControlStep DEF Calls, Unopened, Unissued
  <1>3. CASE GiveUp(r, "not_found")
    BY <1>1, <1>3, AnswerStep DEF GiveUp, Answers
  <1> QED BY <1>2, <1>3 DEF AskWithin

LEMMA RestartStep ==
  ASSUME IInv, Restart
  PROVE  IInv'
  <1>1. ControlOK
    BY ControlTyped
  <1>2. /\ pc' = [q \in Request |-> IF pc[q] = "idle" THEN "idle" ELSE "done"]
        /\ UNCHANGED <<tables, kind, made, history>>
    BY DEF Restart
  <1>3. Onward
    BY <1>2 DEF Onward, Unopened, Unissued
  <1>4. pc' \in [Request -> Calls] /\ EmailInv'
    BY <1>1, <1>2 DEF Calls, EmailInv
  <1>5. answer' \in [Request -> Answers] /\ local' \in [Request -> Local]
    BY <1>1 DEF Restart, ControlOK, Answers, Local, Unset, Token
  <1> QED BY <1>1, <1>2, <1>3, <1>4, <1>5, ControlStep DEF ControlOK

----------------------------------------------------------------------------
(* The invariant.                                                          *)

\* The rows of seedData satisfy it.
LEMMA InitInv ==
  ASSUME Init
  PROVE  IInv
  <1> USE FleetAssumption
  <1>1. PICK e \in Email, f \in Email :
          /\ e # f
          /\ users = [u \in {1, 2} |->
                IF u = 1
                THEN [email |-> e, role |-> "admin", account |-> SeedAdmin]
                ELSE [email |-> f, role |-> "fleet_owner", account |-> SeedOwner]]
    BY DEF Init
  <1>2. /\ IsPartial(users, UserId, User)
        /\ IsPartial(sessions, Token, UserId)
        /\ prefs \subseteq UserId
    BY <1>1 DEF Init, IsPartial, User, UserId, Account, Token
  <1>3. IsPartial(devices, DeviceId, Device)
    BY DEF Init, IsPartial, Device, DeviceId, UserId
  <1>4. /\ IsPartial(drivers, DriverId, {0} \cup UserId)
        /\ IsPartial(vehicles, VehicleId, {0} \cup UserId)
    BY DEF Init, IsPartial, DriverId, VehicleId, UserId
  <1>5. local \in [Request -> Local]
    BY DEF Init, Unset, Local, Token
  <1>6. /\ pc \in [Request -> Calls] /\ kind \in [Request -> AllKinds]
        /\ answer \in [Request -> Answers] /\ made \in [Request -> SUBSET DeviceId]
        /\ opened \subseteq Account /\ issued \subseteq Token
    BY DEF Init, Calls, AllKinds, Answers, Account, Token
  <1>7. Accepted(users, prefs)
    BY <1>1 DEF Init, Accepted
  <1>8. AccountInv
    BY <1>1 DEF Init, AccountInv, Unopened, Unissued
  <1>9. EmailInv /\ MadeInv
    BY DEF Init, EmailInv, MadeInv
  <1> QED BY <1>2, <1>3, <1>4, <1>5, <1>6, <1>7, <1>8, <1>9 DEF IInv, TypeOK

LEMMA NextInv ==
  ASSUME IInv, [Next]_vars
  PROVE  IInv'
  <1>1. CASE UNCHANGED vars
    <2>1. ControlOK' /\ Onward
      BY <1>1, ControlTyped DEF vars, ControlOK, EmailInv, Onward
    <2> QED BY <1>1, <2>1, ControlStep DEF vars
  <1>2. CASE Restart
    BY <1>2, RestartStep
  <1>3. ASSUME NEW r \in Request, NEW k \in Kinds, NEW e \in Email, Arrive(r, k, e)
        PROVE  IInv'
    BY <1>3, ArriveStep
  <1>4. ASSUME NEW r \in Request, Step(r)
        PROVE  IInv'
    <2>1. CASE \E t \in Token : Authenticate(r, t)
      BY <2>1, AuthenticateStep
    <2>2. CASE EndSession(r) \/ LookUp(r) \/ AppendUser(r) \/ Reread(r)
               \/ NewSession(r) \/ IsAdmin(r)
      BY <2>2, EndSessionStep, LookUpStep, AppendUserStep, RereadStep,
         NewSessionStep, IsAdminStep
    <2>3. CASE EditSelf(r) \/ EditMember(r) \/ DeleteMember(r)
               \/ EditFleet(r) \/ DeleteFleet(r) \/ SavePrefs(r)
      BY <2>3, EditSelfStep, EditMemberStep, DeleteMemberStep,
         EditFleetStep, DeleteFleetStep, SavePrefsStep
    <2>4. CASE CreateDriver(r) \/ CreateDevice(r) \/ CreateBatch(r)
               \/ View(r) \/ InstallVehicle(r) \/ CreateVehicle(r)
      BY <2>4, CreateDriverStep, CreateDeviceStep, CreateBatchStep,
         ViewStep, InstallVehicleStep, CreateVehicleStep
    <2>5. CASE LinkDevice(r) \/ AssignInstall(r)
      BY <2>5, AssignInstalledStep DEF LinkDevice, AssignInstall
    <2>6. CASE ChangeDriver(r) \/ FaceOfDriver(r) \/ ChangeDevice(r)
               \/ AssignDevice(r) \/ ChangeVehicle(r)
      BY <2>6, AskWithinStep
         DEF ChangeDriver, FaceOfDriver, ChangeDevice, AssignDevice, ChangeVehicle
    <2>7. CASE Audit(r)
      BY <2>7, AnswerStep DEF Audit, Answers
    <2> QED BY <1>4, <2>1, <2>2, <2>3, <2>4, <2>5, <2>6, <2>7 DEF Step
  <1> QED BY <1>1, <1>2, <1>3, <1>4 DEF Next

\* IInv holds in every reachable state, for any number of requests, addresses
\* and ids.
THEOREM InductiveInvariant == Spec => []IInv
  <1>1. Init => IInv
    BY InitInv
  <1>2. IInv /\ [Next]_vars => IInv'
    BY NextInv
  <1> QED BY <1>1, <1>2, PTL DEF Spec

\* The tables of the store and the goroutines' variables have their types:
\* among them, no user's address is ever empty.
THEOREM TypeCorrect == Spec => []TypeOK
  <1>1. IInv => TypeOK
    BY DEF IInv
  <1> QED BY <1>1, InductiveInvariant, PTL

\* Devices that clients have been told of stay, and are told of once.
THEOREM DevicesKept == Spec => []DeviceKept
  <1>1. IInv => DeviceKept
    BY DEF IInv, MadeInv, DeviceKept
  <1> QED BY <1>1, InductiveInvariant, PTL
============================================================================
