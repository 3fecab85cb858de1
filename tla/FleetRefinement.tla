-------------------------- MODULE FleetRefinement --------------------------
(***************************************************************************)
(* Fleet implements Accounts: every step opens, moves or closes one        *)
(* account, begins or ends one session, or changes neither.  The actions   *)
(* are first reduced to what they do to users and sessions; accounts are   *)
(* then read off the rows.                                                 *)
(***************************************************************************)
EXTENDS FleetProofs

----------------------------------------------------------------------------
(* Accounts and sessions read off the rows.                                *)

\* What is true of rows in every reachable state.
Distinct(us) ==
    /\ \A u, v \in DOMAIN us : us[u].account = us[v].account => u = v
    /\ \A u \in DOMAIN us : us[u].account \in Account /\ us[u].email \in Email

\* An account with a row has the address of the row ...
LEMMA AddressOfRow ==
  ASSUME NEW us, NEW op, Distinct(us), NEW u \in DOMAIN us
  PROVE  AddressIn(us, op)[us[u].account] = us[u].email
  <1> DEFINE a == us[u].account
             w == CHOOSE v \in DOMAIN us : us[v].account = a
  <1>1. w \in DOMAIN us /\ us[w].account = a
    OBVIOUS
  <1>2. w = u
    BY <1>1 DEF Distinct
  <1>3. AddressIn(us, op)[a] = us[w].email
    BY DEF AddressIn, Distinct
  <1> QED BY <1>2, <1>3

\* ... and one without has had one or will have.
LEMMA AddressOfNone ==
  ASSUME NEW us, NEW op, NEW a \in Account, \A u \in DOMAIN us : us[u].account # a
  PROVE  AddressIn(us, op)[a] = IF a \in op THEN Over ELSE NotYet
  BY DEF AddressIn

\* An address that an account has is in a row.
LEMMA RowOfAddress ==
  ASSUME NEW us, NEW op, Distinct(us), NEW a \in Account,
         AddressIn(us, op)[a] \in Email
  PROVE  \E u \in DOMAIN us : us[u].account = a /\ us[u].email = AddressIn(us, op)[a]
  <1>1. PICK u \in DOMAIN us : us[u].account = a
    BY AddressOfNone, FleetAssumption
  <1> QED BY <1>1, AddressOfRow

LEMMA RowsDistinct ==
  ASSUME IInv
  PROVE  /\ Distinct(users)
         /\ \A t \in DOMAIN sessions : sessions[t] \in DOMAIN users
         /\ \A t \in DOMAIN sessions : users[sessions[t]].account \in Account
  BY DEF IInv, TypeOK, IsPartial, User, AccountInv, Accepted, Distinct

LEMMA NextDistinct ==
  ASSUME IInv'
  PROVE  /\ Distinct(users')
         /\ \A t \in DOMAIN sessions' : sessions'[t] \in DOMAIN users'
  BY DEF IInv, TypeOK, IsPartial, User, AccountInv, Accepted, Distinct

LEMMA Mapping ==
  /\ address = AddressIn(users, opened)
  /\ address' = AddressIn(users', opened')
  /\ holder = HolderIn(users, sessions, issued)
  /\ holder' = HolderIn(users', sessions', issued')
  BY DEF address, holder

\* The addresses, and those after a step.
LEMMA NowAddress ==
  ASSUME IInv
  PROVE  /\ \A v \in DOMAIN users : address[users[v].account] = users[v].email
         /\ \A a \in Account :
               (\A v \in DOMAIN users : users[v].account # a)
                  => address[a] = IF a \in opened THEN Over ELSE NotYet
  BY RowsDistinct, AddressOfRow, AddressOfNone, Mapping

LEMMA NextAddress ==
  ASSUME IInv'
  PROVE  /\ \A v \in DOMAIN users' : address'[users'[v].account] = users'[v].email
         /\ \A a \in Account :
               (\A v \in DOMAIN users' : users'[v].account # a)
                  => address'[a] = IF a \in opened' THEN Over ELSE NotYet
  BY NextDistinct, AddressOfRow, AddressOfNone, Mapping

----------------------------------------------------------------------------
(* What the actions do to users and sessions.                              *)

Untouched == UNCHANGED <<users, sessions, history>>

Appended(r) ==
    /\ pc[r] = "append" /\ ~Registered(local[r].email)
    /\ \E u \in UserId \ DOMAIN users, role \in Role :
          users' = Put(users, u, [email |-> local[r].email, role |-> role,
                                  account |-> r])
    /\ opened' = opened \cup {r}
    /\ UNCHANGED <<sessions, issued>>

Begun(r) ==
    /\ pc[r] = "session" /\ local[r].owner \in DOMAIN users
    /\ sessions' = Put(sessions, r, local[r].owner)
    /\ issued' = issued \cup {r}
    /\ UNCHANGED <<users, opened>>

Ended(r) ==
    /\ pc[r] = "delete_session"
    /\ sessions' = Without(sessions, {local[r].token})
    /\ UNCHANGED <<users, history>>

\* An Update rewrites or removes one row at most.
Edited ==
    /\ \E u \in DOMAIN users :
          \/ \E role \in Role : users' = [users EXCEPT ![u].role = role]
          \/ \E e \in Email : users' = [users EXCEPT ![u].email = e]
          \/ users' = Without(users, {u})
    /\ UNCHANGED <<sessions, history>>

Effect ==
    /\ prefs \subseteq prefs'
    /\ \/ Untouched
       \/ \E r \in Request : Appended(r) \/ Begun(r) \/ Ended(r)
       \/ Edited

\* A handler that rewrites the user's row, or the same rows.
LEMMA CommitEffect ==
  ASSUME NEW r \in Request, NEW us, NEW ps, NEW dv, NEW dr, NEW vs, NEW a,
         Commit(r, us, ps, dv, dr, vs, a), UNCHANGED history, prefs \subseteq ps,
         \/ us = users
         \/ \E u \in DOMAIN users :
               \/ \E role \in Role : us = [users EXCEPT ![u].role = role]
               \/ \E e \in Email : us = [users EXCEPT ![u].email = e]
               \/ us = Without(users, {u})
  PROVE  Effect
  <1>1. PICK ok \in BOOLEAN : Replace(us, ps, dv, dr, vs, ok)
    BY DEF Commit
  <1>2. UNCHANGED sessions /\ prefs \subseteq prefs'
    BY <1>1 DEF Replace
  <1>3. CASE ok
    BY <1>1, <1>2, <1>3 DEF Replace, Effect, Untouched, Edited
  <1>4. CASE ~ok
    BY <1>1, <1>2, <1>4 DEF Replace, Effect, Untouched
  <1> QED BY <1>3, <1>4

LEMMA NoEffect ==
  ASSUME UNCHANGED <<tables, history>>
  PROVE  Effect
  BY DEF Effect, Untouched, tables, history

LEMMA StepEffect ==
  ASSUME IInv, [Next]_vars
  PROVE  Effect
  <1>1. CASE UNCHANGED vars
    BY <1>1, NoEffect DEF vars
  <1>2. CASE Restart
    BY <1>2, NoEffect DEF Restart
  <1>3. ASSUME NEW r \in Request, NEW k \in Kinds, NEW e \in Email, Arrive(r, k, e)
        PROVE  Effect
    BY <1>3, NoEffect DEF Arrive
  <1>4. ASSUME NEW r \in Request, Step(r)
        PROVE  Effect
    <2>1. CASE \/ \E t \in Token : Authenticate(r, t)
               \/ LookUp(r) \/ Reread(r) \/ IsAdmin(r) \/ View(r) \/ Audit(r)
      BY <2>1, NoEffect DEF Authenticate, LookUp, Reread, IsAdmin, View, Audit
    <2>2. CASE EndSession(r)
      BY <2>2 DEF EndSession, Effect, Ended
    <2>3. CASE AppendUser(r)
      BY <2>3, AppendUserEffect, NoEffect DEF Effect, Appended
    <2>4. CASE NewSession(r)
      BY <2>4, NoEffect DEF NewSession, Effect, Begun, tables, history
    <2>5. CASE EditSelf(r)
      <3>1. UNCHANGED <<users, sessions, prefs, history>>
        BY <2>5 DEF EditSelf, Replace, GiveUp, tables
      <3> QED BY <3>1 DEF Effect, Untouched
    <2>6. CASE EditMember(r)
      BY <2>6, CommitEffect, NoEffect DEF EditMember, GiveUp
    <2>7. CASE DeleteMember(r)
      BY <2>7, CommitEffect, NoEffect DEF DeleteMember, GiveUp
    <2>8. CASE EditFleet(r)
      BY <2>8, CommitEffect, NoEffect DEF EditFleet, IsFleet, GiveUp
    <2>9. CASE DeleteFleet(r)
      BY <2>9, CommitEffect, NoEffect DEF DeleteFleet, IsFleet, GiveUp
    <2>10. CASE SavePrefs(r)
      BY <2>10, CommitEffect DEF SavePrefs
    <2>11. CASE CreateDriver(r) \/ CreateBatch(r) \/ InstallVehicle(r) \/ CreateVehicle(r)
      BY <2>11, CommitEffect
         DEF CreateDriver, CreateBatch, InstallVehicle, CreateVehicle
    <2>12. CASE CreateDevice(r)
      <3>1. UNCHANGED <<users, sessions, prefs, history>>
        BY <2>12 DEF CreateDevice, Replace
      <3> QED BY <3>1 DEF Effect, Untouched
    <2>13. CASE LinkDevice(r) \/ AssignInstall(r)
      BY <2>13, CommitEffect, NoEffect
         DEF LinkDevice, AssignInstall, AssignInstalled, GiveUp
    <2>14. CASE ChangeDriver(r) \/ FaceOfDriver(r) \/ ChangeDevice(r)
                \/ AssignDevice(r) \/ ChangeVehicle(r)
      BY <2>14, NoEffect DEF ChangeDriver, FaceOfDriver, ChangeDevice, AssignDevice,
                             ChangeVehicle, AskWithin, GiveUp
    <2> QED BY <1>4, <2>1, <2>2, <2>3, <2>4, <2>5, <2>6, <2>7, <2>8, <2>9, <2>10,
               <2>11, <2>12, <2>13, <2>14 DEF Step
  <1> QED BY <1>1, <1>2, <1>3, <1>4 DEF Next

----------------------------------------------------------------------------
(* Settings.                                                               *)

LEMMA SettingsStep ==
  ASSUME IInv, IInv', Effect, NEW u \in prefs
  PROVE  u \in DOMAIN users' /\ users'[u].account = users[u].account
  <1>1. u \in DOMAIN users /\ u \in DOMAIN users'
    BY DEF IInv, Accepted, Effect
  <1>2. users \in [DOMAIN users -> User]
    BY DEF IInv, TypeOK, IsPartial
  <1>3. CASE Untouched \/ (\E r \in Request : Begun(r)) \/ (\E r \in Request : Ended(r))
    BY <1>1, <1>3 DEF Untouched, Begun, Ended
  <1>4. CASE \E r \in Request : Appended(r)
    BY <1>1, <1>4 DEF Appended, Put
  <1>5. CASE Edited
    BY <1>1, <1>2, <1>5 DEF Edited, Without, Restrict, User
  <1> QED BY <1>3, <1>4, <1>5 DEF Effect

\* Saved settings stay with the account that saved them.
THEOREM SettingsStay == Spec => SettingsNotInherited
  <1>1. IInv /\ IInv' /\ [Next]_vars =>
            [\A u \in prefs :
                u \in DOMAIN users' /\ users'[u].account = users[u].account]_vars
    BY StepEffect, SettingsStep
  <1> QED BY <1>1, InductiveInvariant, PTL DEF Spec, SettingsNotInherited

----------------------------------------------------------------------------
(* Accounts.                                                               *)

\* What address and holder are in the rows, and that no row is lost in them.
LEMMA AbstractTyped ==
  ASSUME IInv
  PROVE  A!TypeOK
  <1>1. \A a \in Account : address[a] \in Email \cup {NotYet, Over}
    <2> SUFFICES ASSUME NEW a \in Account
                 PROVE  address[a] \in Email \cup {NotYet, Over}
      OBVIOUS
    <2>1. CASE \E u \in DOMAIN users : users[u].account = a
      BY <2>1, NowAddress, RowsDistinct DEF Distinct
    <2>2. CASE ~\E u \in DOMAIN users : users[u].account = a
      BY <2>2, NowAddress
    <2> QED BY <2>1, <2>2
  <1>2. \A t \in Token : holder[t] \in Account \cup {NotYet, Over}
    BY RowsDistinct, Mapping DEF HolderIn
  <1>3. address = [a \in Account |-> address[a]] /\ holder = [t \in Token |-> holder[t]]
    BY Mapping DEF AddressIn, HolderIn
  <1> QED BY <1>1, <1>2, <1>3 DEF A!TypeOK

\* A session belongs to the account whose row it refers to.
LEMMA HolderOfSession ==
  ASSUME IInv, NEW t \in Token, holder[t] \in Account
  PROVE  t \in DOMAIN sessions /\ holder[t] = users[sessions[t]].account
  BY Mapping, FleetAssumption DEF HolderIn

LEMMA InitAccounts ==
  ASSUME Init
  PROVE  A!Init
  <1>1. IInv
    BY InitInv
  <1>2. ASSUME NEW a \in Account, NEW b \in Account, A!Open(a), address[a] = address[b]
        PROVE  a = b
    <2>1. PICK u \in DOMAIN users : users[u].account = a /\ users[u].email = address[a]
      BY <1>1, <1>2, RowsDistinct, RowOfAddress, Mapping DEF A!Open
    <2>2. PICK v \in DOMAIN users : users[v].account = b /\ users[v].email = address[b]
      BY <1>1, <1>2, RowsDistinct, RowOfAddress, Mapping DEF A!Open
    <2>3. u = v
      BY <1>1, <1>2, <2>1, <2>2 DEF IInv, Accepted
    <2> QED BY <2>1, <2>2, <2>3
  <1>3. ASSUME NEW t \in Token, holder[t] \in Account
        PROVE  A!Open(holder[t])
    <2>1. sessions[t] \in DOMAIN users /\ holder[t] = users[sessions[t]].account
      BY <1>1, <1>3, HolderOfSession, RowsDistinct
    <2> QED BY <1>1, <2>1, NowAddress, RowsDistinct DEF A!Open, Distinct
  <1> QED BY <1>1, <1>2, <1>3, AbstractTyped DEF A!Init

\* A step that leaves every account's row its address, and its session its
\* account, changes nothing Accounts knows of.
LEMMA SameAddress ==
  ASSUME IInv, IInv', UNCHANGED opened, DOMAIN users' = DOMAIN users,
         \A u \in DOMAIN users : /\ users'[u].account = users[u].account
                                 /\ users'[u].email = users[u].email
  PROVE  UNCHANGED address
  <1>1. \A a \in Account : address'[a] = address[a]
    <2> SUFFICES ASSUME NEW a \in Account PROVE address'[a] = address[a]
      OBVIOUS
    <2>1. CASE \E u \in DOMAIN users : users[u].account = a
      BY <2>1, NowAddress, NextAddress
    <2>2. CASE ~\E u \in DOMAIN users : users[u].account = a
      BY <2>2, NowAddress, NextAddress
    <2> QED BY <2>1, <2>2
  <1>2. /\ address = [a \in Account |-> address[a]]
        /\ address' = [a \in Account |-> address'[a]]
    BY Mapping DEF AddressIn
  <1> QED BY <1>1, <1>2

LEMMA SameHolder ==
  ASSUME IInv, UNCHANGED <<sessions, issued>>,
         \A t \in DOMAIN sessions : users'[sessions[t]].account = users[sessions[t]].account
  PROVE  UNCHANGED holder
  BY Mapping DEF HolderIn

\* An address in no row is no account's.
LEMMA UnusedAddress ==
  ASSUME IInv, NEW e \in Email, \A u \in DOMAIN users : users[u].email # e
  PROVE  A!Unused(e)
  BY RowsDistinct, RowOfAddress, Mapping DEF A!Unused

LEMMA AppendedRegisters ==
  ASSUME IInv, IInv', NEW r \in Request, Appended(r)
  PROVE  \E a \in Account, e \in Email : A!Register(a, e)
  <1> DEFINE e == local[r].email
  <1>1. PICK u \in UserId \ DOMAIN users, role \in Role :
          users' = Put(users, u, [email |-> e, role |-> role, account |-> r])
    BY DEF Appended
  <1>2. /\ DOMAIN users' = DOMAIN users \cup {u}
        /\ users'[u].email = e /\ users'[u].account = r
        /\ \A v \in DOMAIN users : users'[v] = users[v]
    BY <1>1 DEF Put
  <1>3. e \in Email /\ r \in Account
    BY DEF Appended, IInv, EmailInv, Account
  <1>4. r \notin opened /\ \A v \in DOMAIN users : users[v].account # r
    BY DEF Appended, IInv, AccountInv, Unopened
  <1>5. address[r] = NotYet
    BY <1>3, <1>4, NowAddress
  <1>6. A!Unused(e)
    <2>1. \A v \in DOMAIN users : users[v].email # e
      BY DEF Appended, Registered, HasEmail, IInv, TypeOK, IsPartial
    <2> HIDE DEF e
    <2> QED BY <1>3, <2>1, UnusedAddress
  <1>7. \A a \in Account : address'[a] = IF a = r THEN e ELSE address[a]
    <2>1. address'[r] = e
      BY <1>2, NextAddress
    <2>2. ASSUME NEW a \in Account \ {r}
          PROVE  address'[a] = address[a]
      <3>1. CASE \E v \in DOMAIN users : users[v].account = a
        <4>1. PICK v \in DOMAIN users : users[v].account = a
          BY <3>1
        <4>2. address[a] = users[v].email
          BY <4>1, NowAddress
        <4>3. address'[a] = users'[v].email
          BY <1>2, <4>1, NextAddress
        <4> QED BY <1>2, <4>1, <4>2, <4>3
      <3>2. CASE ~\E v \in DOMAIN users : users[v].account = a
        <4>1. \A v \in DOMAIN users' : users'[v].account # a
          BY <1>2, <3>2
        <4>2. a \in opened' <=> a \in opened
          BY DEF Appended
        <4> QED BY <3>2, <4>1, <4>2, NowAddress, NextAddress
      <3> QED BY <3>1, <3>2
    <2> QED BY <2>1, <2>2
  <1>8. address' = [address EXCEPT ![r] = e]
    <2>1. address' = [a \in Account |-> address'[a]] /\ DOMAIN address = Account
      BY Mapping DEF AddressIn
    <2> HIDE DEF e
    <2> QED BY <1>7, <2>1
  <1>9. UNCHANGED holder
    BY <1>2, RowsDistinct, SameHolder DEF Appended
  <1> HIDE DEF e
  <1> QED BY <1>3, <1>5, <1>6, <1>8, <1>9 DEF A!Register

LEMMA BegunSignsIn ==
  ASSUME IInv, IInv', NEW r \in Request, Begun(r)
  PROVE  \E t \in Token, a \in Account : A!SignIn(t, a)
  <1> DEFINE a == users[local[r].owner].account
  <1>1. a \in Account /\ r \in Token
    BY RowsDistinct DEF Begun, Distinct, Token
  <1>2. r \notin issued /\ r \notin DOMAIN sessions
    BY DEF Begun, IInv, AccountInv, Unissued
  <1>3. holder[r] = NotYet
    BY <1>1, <1>2, Mapping DEF HolderIn
  <1>4. A!Open(a)
    BY <1>1, NowAddress, RowsDistinct DEF A!Open, Begun, Distinct
  <1>5. /\ holder' = HolderIn(users, Put(sessions, r, local[r].owner), issued \cup {r})
        /\ holder = HolderIn(users, sessions, issued)
    BY Mapping DEF Begun
  <1>6. holder' = [holder EXCEPT ![r] = a]
    BY <1>1, <1>5 DEF HolderIn, Put
  <1>7. UNCHANGED address
    BY Mapping DEF Begun
  <1> QED BY <1>1, <1>3, <1>4, <1>6, <1>7 DEF A!SignIn

LEMMA EndedSignsOut ==
  ASSUME IInv, IInv', NEW r \in Request, Ended(r)
  PROVE  (\E t \in Token : A!SignOut(t)) \/ UNCHANGED <<address, holder>>
  <1> DEFINE t == local[r].token
  <1>0. t \in Token
    BY DEF IInv, TypeOK, Local
  <1>1. UNCHANGED address
    BY Mapping DEF Ended, history
  <1>2. /\ holder' = HolderIn(users, Without(sessions, {t}), issued)
        /\ holder = HolderIn(users, sessions, issued)
    BY Mapping DEF Ended, history
  <1>3. CASE t \in DOMAIN sessions
    <2>1. holder[t] \in Account /\ t \in issued
      BY <1>0, <1>2, <1>3, RowsDistinct DEF HolderIn, IInv, AccountInv
    <2>2. holder' = [holder EXCEPT ![t] = Over]
      BY <1>0, <1>2, <2>1 DEF HolderIn, Without, Restrict
    <2> HIDE DEF t
    <2> QED BY <1>0, <1>1, <2>1, <2>2 DEF A!SignOut
  <1>4. CASE t \notin DOMAIN sessions
    BY <1>1, <1>2, <1>4 DEF HolderIn, Without, Restrict
  <1> QED BY <1>3, <1>4

LEMMA EditedReaddresses ==
  ASSUME IInv, IInv', UNCHANGED <<sessions, history>>,
         NEW u \in DOMAIN users, NEW e \in Email, users' = [users EXCEPT ![u].email = e]
  PROVE  \/ UNCHANGED <<address, holder>>
         \/ \E a \in Account : A!Readdress(a, e)
  <1> DEFINE a == users[u].account
  <1>1. /\ DOMAIN users' = DOMAIN users
        /\ users'[u].email = e /\ users'[u].account = a
        /\ \A v \in DOMAIN users \ {u} : users'[v] = users[v]
    BY DEF IInv, TypeOK, IsPartial, User
  <1>2. UNCHANGED <<opened, issued>>
    BY DEF history
  <1>3. UNCHANGED holder
    BY <1>1, <1>2, RowsDistinct, SameHolder
  <1>4. CASE users[u].email = e
    BY <1>1, <1>2, <1>3, <1>4, SameAddress
  <1>5. CASE users[u].email # e
    <2>1. A!Unused(e)
      <3>1. \A v \in DOMAIN users : users[v].email # e
        BY <1>1, <1>5 DEF IInv, Accepted
      <3> QED BY <3>1, UnusedAddress
    <2>2. a \in Account /\ A!Open(a)
      BY NowAddress, RowsDistinct DEF A!Open, Distinct
    <2>3. \A b \in Account : address'[b] = IF b = a THEN e ELSE address[b]
      <3>1. address'[a] = e
        BY <1>1, NextAddress
      <3>2. ASSUME NEW b \in Account \ {a}
            PROVE  address'[b] = address[b]
        <4>1. CASE \E v \in DOMAIN users : users[v].account = b
          <5>1. PICK v \in DOMAIN users : users[v].account = b
            BY <4>1
          <5>2. address[b] = users[v].email
            BY <5>1, NowAddress
          <5>3. address'[b] = users'[v].email
            BY <1>1, <5>1, NextAddress
          <5> QED BY <1>1, <3>2, <5>1, <5>2, <5>3
        <4>2. CASE ~\E v \in DOMAIN users : users[v].account = b
          <5>1. \A v \in DOMAIN users' : users'[v].account # b
            BY <1>1, <4>2
          <5> QED BY <1>2, <4>2, <5>1, NowAddress, NextAddress
        <4> QED BY <4>1, <4>2
      <3> QED BY <3>1, <3>2
    <2>4. address' = [address EXCEPT ![a] = e]
      <3>1. address' = [b \in Account |-> address'[b]] /\ DOMAIN address = Account
        BY Mapping DEF AddressIn
      <3> HIDE DEF a
      <3> QED BY <2>3, <3>1
    <2> HIDE DEF a
    <2> QED BY <1>3, <2>1, <2>2, <2>4 DEF A!Readdress
  <1> QED BY <1>4, <1>5

LEMMA EditedCloses ==
  ASSUME IInv, IInv', UNCHANGED <<sessions, history>>,
         NEW u \in DOMAIN users, users' = Without(users, {u})
  PROVE  \E a \in Account : A!Close(a)
  <1> DEFINE a == users[u].account
  <1>1. /\ DOMAIN users' = DOMAIN users \ {u}
        /\ \A v \in DOMAIN users \ {u} : users'[v] = users[v]
    BY DEF Without, Restrict
  <1>2. UNCHANGED <<opened, issued>>
    BY DEF history
  <1>3. \A t \in DOMAIN sessions : sessions[t] \in DOMAIN users \ {u}
    BY <1>1, NextDistinct
  <1>4. UNCHANGED holder
    BY <1>1, <1>2, <1>3, SameHolder
  <1>5. a \in Account /\ A!Open(a) /\ a \in opened
    BY NowAddress, RowsDistinct DEF A!Open, Distinct, IInv, AccountInv
  <1>6. \A t \in Token : holder[t] # a
    <2> SUFFICES ASSUME NEW t \in Token, holder[t] = a PROVE FALSE
      OBVIOUS
    <2>1. t \in DOMAIN sessions /\ users[sessions[t]].account = a
      BY <1>5, HolderOfSession
    <2> QED BY <1>3, <2>1, RowsDistinct DEF Distinct
  <1>7. \A b \in Account : address'[b] = IF b = a THEN Over ELSE address[b]
    <2>1. address'[a] = Over
      <3>1. \A v \in DOMAIN users' : users'[v].account # a
        BY <1>1, RowsDistinct DEF Distinct
      <3> QED BY <1>2, <1>5, <3>1, NextAddress
    <2>2. ASSUME NEW b \in Account \ {a}
          PROVE  address'[b] = address[b]
      <3>1. CASE \E v \in DOMAIN users : users[v].account = b
        <4>1. PICK v \in DOMAIN users : users[v].account = b
          BY <3>1
        <4>2. address[b] = users[v].email
          BY <4>1, NowAddress
        <4>3. v \in DOMAIN users' /\ users'[v] = users[v]
          BY <1>1, <2>2, <4>1
        <4>4. address'[b] = users'[v].email
          BY <4>1, <4>3, NextAddress
        <4> QED BY <4>2, <4>3, <4>4
      <3>2. CASE ~\E v \in DOMAIN users : users[v].account = b
        <4>1. \A v \in DOMAIN users' : users'[v].account # b
          BY <1>1, <3>2
        <4> QED BY <1>2, <3>2, <4>1, NowAddress, NextAddress
      <3> QED BY <3>1, <3>2
    <2> QED BY <2>1, <2>2
  <1>8. address' = [address EXCEPT ![a] = Over]
    <2>1. address' = [b \in Account |-> address'[b]] /\ DOMAIN address = Account
      BY Mapping DEF AddressIn
    <2> HIDE DEF a
    <2> QED BY <1>7, <2>1
  <1> HIDE DEF a
  <1> QED BY <1>4, <1>5, <1>6, <1>8 DEF A!Close

LEMMA RefinementStep ==
  ASSUME IInv, IInv', [Next]_vars
  PROVE  [A!Next]_<<address, holder>>
  <1>1. CASE Untouched
    BY <1>1, Mapping DEF Untouched, history
  <1>2. CASE \E r \in Request : Appended(r) \/ Begun(r)
    BY <1>2, AppendedRegisters, BegunSignsIn DEF A!Next
  <1>3. CASE \E r \in Request : Ended(r)
    BY <1>3, EndedSignsOut DEF A!Next
  <1>4. CASE Edited
    <2>1. PICK u \in DOMAIN users :
            \/ \E role \in Role : users' = [users EXCEPT ![u].role = role]
            \/ \E e \in Email : users' = [users EXCEPT ![u].email = e]
            \/ users' = Without(users, {u})
      BY <1>4 DEF Edited
    <2>2. UNCHANGED <<sessions, history>> /\ UNCHANGED <<opened, issued>>
      BY <1>4 DEF Edited, history
    <2>3. ASSUME NEW role \in Role, users' = [users EXCEPT ![u].role = role]
          PROVE  UNCHANGED <<address, holder>>
      <3>1. /\ DOMAIN users' = DOMAIN users
            /\ \A v \in DOMAIN users : /\ users'[v].account = users[v].account
                                       /\ users'[v].email = users[v].email
        BY <2>3 DEF IInv, TypeOK, IsPartial, User
      <3> QED BY <2>2, <3>1, RowsDistinct, SameAddress, SameHolder
    <2> QED BY <2>1, <2>2, <2>3, EditedReaddresses, EditedCloses DEF A!Next
  <1> QED BY <1>1, <1>2, <1>3, <1>4, StepEffect DEF Effect

\* For any number of requests, addresses and ids, and whatever the handlers do
\* with what they looked up before: no two accounts share an address, no session
\* outlives its account or passes to another, and no account opens again.
THEOREM AccountsKept == Spec => KeepsAccounts
  <1>1. Init => A!Init
    BY InitAccounts
  <1>2. IInv /\ IInv' /\ [Next]_vars => [A!Next]_A!vars
    BY RefinementStep DEF A!vars
  <1> QED BY <1>1, <1>2, InductiveInvariant, PTL DEF Spec, KeepsAccounts, A!Spec

----------------------------------------------------------------------------
(* Logins.                                                                 *)

\* What a step of q does to the requests: it moves q only, and q as a login
\* from call to call.
Moved(q) ==
  /\ \A r \in Request \ {q} :
        /\ pc'[r] = pc[r] /\ kind'[r] = kind[r]
        /\ local'[r] = local[r] /\ answer'[r] = answer[r]
  /\ pc[q] # "done"
  /\ answer'[q] = answer[q] \/ pc'[q] = "done"
  /\ pc'[q] = "delete_session" => Given(local'[q].token)
  /\ kind'[q] = "login" =>
        \/ pc'[q] \in {"lookup", "done"}
        \/ /\ kind[q] = "login" /\ pc'[q] = "session"
           /\ local'[q].owner \in DOMAIN users
           /\ local'[q].account = users[local'[q].owner].account
           /\ UNCHANGED <<tables, history>>
        \/ /\ kind[q] = "login" /\ pc'[q] = "audit"
           /\ local'[q] = local[q]
           /\ Begun(q)

\* The closure of an Update belongs to no login, and ends the request or
\* leaves its audit to do.
LEMMA UpdateMoved ==
  ASSUME IInv, NEW q \in Request, pc[q] = "update", kind[q] # "login",
         UNCHANGED kind,
         \/ Goto(q, "update", "audit") /\ UNCHANGED <<answer, local>>
         \/ Goto(q, "update", "stuck") /\ UNCHANGED <<answer, local>>
         \/ \E a \in Answers : Answer(q, a)
  PROVE  Moved(q)
  BY DEF Moved, Goto, Answer, IInv, TypeOK

LEMMA CommitMoved ==
  ASSUME IInv, NEW q \in Request, pc[q] = "update", kind[q] # "login",
         UNCHANGED kind,
         NEW us, NEW ps, NEW dv, NEW dr, NEW vs, NEW a \in Answers,
         Commit(q, us, ps, dv, dr, vs, a) \/ GiveUp(q, a)
  PROVE  Moved(q)
  BY UpdateMoved DEF Commit, GiveUp

LEMMA StepMoved ==
  ASSUME IInv, LoginInv, NEW q \in Request, Step(q)
  PROVE  Moved(q)
  <1> USE DEF IInv, LoginInv
  <1>1. ASSUME NEW t \in Token, Authenticate(q, t) PROVE Moved(q)
    <2>1. kind[q] # "login"
      BY <1>1 DEF Authenticate, LoginCallsInv
    <2>2. Given(t) /\ UNCHANGED <<kind, tables, history>>
      BY <1>1 DEF Authenticate
    <2>3. FirstCall(kind[q]) = "delete_session" => kind[q] = "logout"
      BY DEF TypeOK, AllKinds, FirstCall
    <2>4. Answer(q, "unauthorized") => Moved(q)
      BY <1>1, <2>1, <2>2 DEF Moved, Answer, TypeOK, Authenticate
    <2>5. CASE /\ t \in DOMAIN sessions
               /\ Goto(q, "auth", FirstCall(kind[q]))
               /\ local' = [local EXCEPT ![q].owner = sessions[t],
                               ![q].token = IF kind[q] = "logout" THEN t ELSE @]
               /\ UNCHANGED answer
      BY <2>1, <2>2, <2>3, <2>5 DEF Moved, Goto, TypeOK, Local
    <2>6. CASE /\ Goto(q, "auth", "delete_session")
               /\ local' = [local EXCEPT ![q].token = t]
               /\ UNCHANGED answer
      BY <2>1, <2>2, <2>6 DEF Moved, Goto, TypeOK, Local
    <2> QED BY <1>1, <2>4, <2>5, <2>6 DEF Authenticate
  <1>2. CASE EndSession(q)
    BY <1>2 DEF EndSession, Moved, Goto, Answer, TypeOK, LoginCallsInv
  <1>3. CASE LookUp(q)
    <2>1. UNCHANGED <<tables, kind, made, history>> /\ pc[q] = "lookup"
      BY <1>3 DEF LookUp
    <2>2. ASSUME NEW a, Answer(q, a) PROVE Moved(q)
      BY <2>1, <2>2 DEF Moved, Answer, TypeOK
    <2>3. CASE Goto(q, "lookup", "append") /\ kind[q] # "login"
               /\ UNCHANGED <<answer, local>>
      BY <2>1, <2>3 DEF Moved, Goto, TypeOK
    <2>4. ASSUME NEW u \in UserId, HasEmail(u, local[q].email), UNCHANGED answer,
                 kind[q] \in {"login", "assign_install"},
                 local' = [local EXCEPT ![q].owner = u,
                      ![q].account = IF kind[q] = "login" THEN users[u].account
                                                          ELSE @],
                 Goto(q, "lookup", IF kind[q] = "login" THEN "session" ELSE "update")
          PROVE  Moved(q)
      BY <2>1, <2>4 DEF Moved, Goto, TypeOK, Local, HasEmail
    <2> QED BY <1>3, <2>2, <2>3, <2>4 DEF LookUp
  <1>4. CASE AppendUser(q) \/ Reread(q) \/ IsAdmin(q) \/ View(q)
    <2>1. kind[q] # "login" /\ UNCHANGED kind /\ pc[q] # "done"
      BY <1>4 DEF AppendUser, Reread, IsAdmin, View, Goto, LoginCallsInv
    <2>2. CASE AppendUser(q)
      BY <2>1, <2>2 DEF Moved, AppendUser, Goto, Answer, TypeOK
    <2>3. CASE Reread(q)
      BY <2>1, <2>3 DEF Moved, Reread, Goto, TypeOK
    <2>4. CASE IsAdmin(q)
      BY <2>1, <2>4 DEF Moved, IsAdmin, Goto, Answer, TypeOK
    <2>5. CASE View(q)
      BY <2>1, <2>5 DEF Moved, View, Goto, TypeOK
    <2> QED BY <1>4, <2>2, <2>3, <2>4, <2>5
  <1>5. CASE NewSession(q)
    <2>1. CASE local[q].owner \in DOMAIN users
      BY <1>5, <2>1 DEF NewSession, Moved, Begun, Goto, TypeOK
    <2>2. CASE local[q].owner \notin DOMAIN users
      BY <1>5, <2>2 DEF NewSession, Moved, Answer, TypeOK
    <2> QED BY <2>1, <2>2
  <1>6. CASE EditSelf(q)
    BY <1>6, UpdateMoved DEF EditSelf, Updating, GiveUp, Answers
  <1>7. CASE EditMember(q) \/ DeleteMember(q)
    BY <1>7, CommitMoved DEF EditMember, DeleteMember, Updating, Answers
  <1>8. CASE EditFleet(q)
    BY <1>8, CommitMoved DEF EditFleet, Updating, Answers
  <1>9. CASE DeleteFleet(q)
    BY <1>9, CommitMoved DEF DeleteFleet, Updating, Answers
  <1>10. CASE SavePrefs(q) \/ CreateDriver(q) \/ CreateVehicle(q)
    BY <1>10, CommitMoved DEF SavePrefs, CreateDriver, CreateVehicle, Updating, Answers
  <1>11. CASE CreateDevice(q)
    BY <1>11, UpdateMoved DEF CreateDevice, Updating
  <1>12. CASE CreateBatch(q)
    BY <1>12, CommitMoved DEF CreateBatch, Updating, Answers
  <1>13. CASE InstallVehicle(q)
    BY <1>13, CommitMoved DEF InstallVehicle, Updating, Answers
  <1>14. CASE LinkDevice(q) \/ AssignInstall(q)
    BY <1>14, CommitMoved DEF LinkDevice, AssignInstall, AssignInstalled, Updating,
                              Answers
  <1>15. CASE ChangeDriver(q) \/ FaceOfDriver(q) \/ ChangeDevice(q)
              \/ AssignDevice(q) \/ ChangeVehicle(q)
    BY <1>15, UpdateMoved DEF ChangeDriver, FaceOfDriver, ChangeDevice, AssignDevice,
                              ChangeVehicle, AskWithin, Updating, GiveUp, Answers
  <1>16. CASE Audit(q)
    BY <1>16 DEF Audit, Moved, Answer, TypeOK
  <1> QED BY <1>1, <1>2, <1>3, <1>4, <1>5, <1>6, <1>7, <1>8, <1>9, <1>10, <1>11,
             <1>12, <1>13, <1>14, <1>15, <1>16 DEF Step
\* The account has no row after the step.
GoneNext(a) == \A u \in DOMAIN users' : users'[u].account # a

\* An account once opened stays opened; once its row is gone it has none.
LEMMA GoneStays ==
  ASSUME IInv, Effect, NEW a \in opened
  PROVE  a \in opened' /\ (Gone(a) => GoneNext(a))
  <1>1. CASE Untouched \/ (\E r \in Request : Begun(r)) \/ (\E r \in Request : Ended(r))
    BY <1>1 DEF Untouched, Begun, Ended, history, Gone, GoneNext
  <1>2. ASSUME NEW r \in Request, Appended(r) PROVE a \in opened' /\ (Gone(a) => GoneNext(a))
    <2>1. a # r
      BY <1>2 DEF Appended, IInv, AccountInv, Unopened
    <2> QED BY <1>2, <2>1 DEF Appended, Put, Gone, GoneNext
  <1>3. CASE Edited
    BY <1>3 DEF Edited, Without, Restrict, history, Gone, GoneNext, IInv, TypeOK,
                IsPartial, User
  <1> QED BY <1>1, <1>2, <1>3 DEF Effect

\* A row bears its account until it is deleted, and then no row does.
LEMMA RowStays ==
  ASSUME IInv, Effect, NEW u \in DOMAIN users
  PROVE  \/ u \in DOMAIN users' /\ users'[u].account = users[u].account
         \/ GoneNext(users[u].account)
  <1>1. CASE Untouched \/ (\E r \in Request : Begun(r)) \/ (\E r \in Request : Ended(r))
    BY <1>1 DEF Untouched, Begun, Ended
  <1>2. CASE \E r \in Request : Appended(r)
    BY <1>2 DEF Appended, Put
  <1>3. CASE Edited
    <2>1. ASSUME NEW v \in DOMAIN users, users' = Without(users, {v})
          PROVE  \/ u \in DOMAIN users' /\ users'[u].account = users[u].account
                 \/ GoneNext(users[u].account)
      BY <2>1, RowsDistinct DEF Without, Restrict, GoneNext, Distinct
    <2> QED BY <1>3, <2>1 DEF Edited, IInv, TypeOK, IsPartial, User
  <1> QED BY <1>1, <1>2, <1>3 DEF Effect

\* A session that no logout names stays, with its user.
LEMMA SessionStays ==
  ASSUME IInv, Effect, NEW t \in DOMAIN sessions,
         \A q \in Request : pc[q] = "delete_session" => local[q].token # t
  PROVE  t \in DOMAIN sessions' /\ sessions'[t] = sessions[t]
  <1>1. CASE Untouched \/ (\E r \in Request : Appended(r)) \/ Edited
    BY <1>1 DEF Untouched, Appended, Edited
  <1>2. ASSUME NEW r \in Request, Begun(r)
        PROVE  t \in DOMAIN sessions' /\ sessions'[t] = sessions[t]
    <2>1. t # r
      BY <1>2 DEF Begun, IInv, AccountInv, Unissued
    <2> QED BY <1>2, <2>1 DEF Begun, Put
  <1>3. CASE \E r \in Request : Ended(r)
    BY <1>3 DEF Ended, Without, Restrict
  <1> QED BY <1>1, <1>2, <1>3 DEF Effect

\* A login at its audit has not been given its token yet, so that no logout
\* names it; and its session's row stays.
LEMMA AuditStays ==
  ASSUME IInv, IInv', LoginInv, Effect,
         NEW r \in Request, pc[r] = "audit", kind[r] = "login"
  PROVE  /\ r \in DOMAIN sessions'
         /\ \/ users'[sessions'[r]].account = local[r].account
            \/ GoneNext(local[r].account)
         /\ local[r].account \in opened'
  <1>1. /\ r \in DOMAIN sessions
        /\ \/ users[sessions[r]].account = local[r].account
           \/ Gone(local[r].account)
        /\ local[r].account \in opened
    BY DEF LoginInv, SessionIsOnesOwn, LookedUpInv
  <1>2. r \in DOMAIN sessions' /\ sessions'[r] = sessions[r]
    BY <1>1, SessionStays DEF LoginInv, GivenInv
  <1>3. sessions[r] \in DOMAIN users
    BY <1>1, RowsDistinct
  <1>4. CASE users[sessions[r]].account = local[r].account
    BY <1>1, <1>2, <1>3, <1>4, RowStays, GoneStays
  <1>5. CASE Gone(local[r].account)
    BY <1>1, <1>2, <1>5, GoneStays
  <1> QED BY <1>1, <1>4, <1>5

LEMMA FoundStays ==
  ASSUME IInv, LoginInv, Effect,
         NEW r \in Request, pc[r] = "session", kind[r] = "login"
  PROVE  /\ \/ /\ local[r].owner \in DOMAIN users'
               /\ users'[local[r].owner].account = local[r].account
            \/ GoneNext(local[r].account)
         /\ local[r].account \in opened'
  <1>1. /\ \/ /\ local[r].owner \in DOMAIN users
              /\ users[local[r].owner].account = local[r].account
           \/ Gone(local[r].account)
        /\ local[r].account \in opened
    BY DEF LoginInv, FoundInv, LookedUpInv
  <1> QED BY <1>1, RowStays, GoneStays

\* A login in step q's own hands: it has just found its row, or begun the
\* session of the row it found.
LEMMA LoginMoves ==
  ASSUME IInv, LoginInv, NEW q \in Request, Moved(q), kind'[q] = "login"
  PROVE  /\ pc'[q] \in {"lookup", "session", "audit", "done"}
         /\ pc'[q] \in {"session", "audit"} => local'[q].account \in opened'
         /\ pc'[q] = "session" =>
              /\ local'[q].owner \in DOMAIN users'
              /\ users'[local'[q].owner].account = local'[q].account
         /\ pc'[q] = "audit" =>
              /\ q \in DOMAIN sessions'
              /\ \/ users'[sessions'[q]].account = local'[q].account
                 \/ GoneNext(local'[q].account)
  <1>1. CASE pc'[q] \in {"lookup", "done"}
    BY <1>1
  <1>2. CASE /\ kind[q] = "login" /\ pc'[q] = "session"
             /\ local'[q].owner \in DOMAIN users
             /\ local'[q].account = users[local'[q].owner].account
             /\ UNCHANGED <<tables, history>>
    BY <1>2 DEF tables, history, IInv, AccountInv
  <1>3. CASE kind[q] = "login" /\ pc'[q] = "audit" /\ local'[q] = local[q] /\ Begun(q)
    <2>1. /\ \/ users[local[q].owner].account = local[q].account
             \/ Gone(local[q].account)
          /\ local[q].account \in opened
      BY <1>3 DEF Begun, LoginInv, FoundInv, LookedUpInv
    <2> QED BY <1>3, <2>1 DEF Begun, Put, Gone, GoneNext
  <1> QED BY <1>1, <1>2, <1>3 DEF Moved

LEMMA LoginStep ==
  ASSUME IInv, IInv', LoginInv, Effect, NEW q \in Request, Moved(q)
  PROVE  LoginInv'
  <1>1. \A r \in Request \ {q} :
          /\ pc'[r] = pc[r] /\ kind'[r] = kind[r]
          /\ local'[r] = local[r] /\ answer'[r] = answer[r]
    BY DEF Moved
  <1>2. LoginCallsInv'
    BY <1>1, LoginMoves DEF LoginCallsInv, LoginInv
  <1>3. LookedUpInv'
    BY <1>1, LoginMoves, FoundStays, AuditStays DEF LookedUpInv
  <1>4. FoundInv'
    BY <1>1, LoginMoves, FoundStays DEF FoundInv, Gone, GoneNext
  <1>5. SessionIsOnesOwn'
    BY <1>1, LoginMoves, AuditStays DEF SessionIsOnesOwn, Gone, GoneNext
  <1>6. GivenInv'
    <2>1. \A r \in Request : pc[r] = "done" => pc'[r] = "done"
      BY <1>1 DEF Moved
    <2>2. \A r \in Request : answer'[r] # "none" => pc'[r] = "done"
      BY <1>1 DEF Moved, LoginInv, GivenInv
    <2>3. ASSUME NEW p \in Request, NEW r \in Request,
                 pc'[p] = "delete_session", local'[p].token = r
          PROVE  pc'[r] = "done"
      <3>1. CASE p = q
        <4>1. Given(r)
          BY <2>3, <3>1 DEF Moved
        <4>2. answer[r] = "ok"
          BY <4>1, FleetAssumption DEF Given
        <4> QED BY <2>1, <4>2 DEF LoginInv, GivenInv
      <3>2. CASE p # q
        BY <1>1, <2>1, <2>3, <3>2 DEF LoginInv, GivenInv
      <3> QED BY <3>1, <3>2
    <2> QED BY <2>2, <2>3 DEF GivenInv
  <1> QED BY <1>2, <1>3, <1>4, <1>5, <1>6 DEF LoginInv

LEMMA NextLogin ==
  ASSUME IInv, IInv', LoginInv, [Next]_vars
  PROVE  LoginInv'
  <1>1. Effect
    BY StepEffect
  <1>2. ASSUME NEW q \in Request, Step(q) PROVE LoginInv'
    BY <1>1, <1>2, StepMoved, LoginStep
  <1>3. ASSUME NEW q \in Request, NEW k \in Kinds, NEW e \in Email, Arrive(q, k, e)
        PROVE  LoginInv'
    <2>1. Moved(q)
      BY <1>3 DEF Moved, Arrive, Goto, IInv, TypeOK
    <2> QED BY <1>1, <2>1, LoginStep
  <1>4. CASE Restart
    BY <1>4 DEF Restart, LoginInv, LoginCallsInv, LookedUpInv, FoundInv, GivenInv,
                SessionIsOnesOwn, IInv, TypeOK
  <1>5. CASE UNCHANGED vars
    BY <1>5 DEF vars, tables, history, LoginInv, LoginCallsInv, LookedUpInv, FoundInv,
                GivenInv, SessionIsOnesOwn, Gone
  <1> QED BY <1>2, <1>3, <1>4, <1>5 DEF Next

\* The session a login is given is the one of the account that logged in, or
\* the account has been deleted since it was looked up: for any number of
\* requests, whatever they change in between and however ids are reused.
THEOREM LoginsOwnSession == Spec => []SessionIsOnesOwn
  <1>1. Init => LoginInv
    BY DEF Init, LoginInv, LoginCallsInv, LookedUpInv, FoundInv, GivenInv,
           SessionIsOnesOwn
  <1>2. IInv /\ IInv' /\ LoginInv /\ [Next]_vars => LoginInv'
    BY NextLogin
  <1>3. LoginInv => SessionIsOnesOwn
    BY DEF LoginInv
  <1> QED BY <1>1, <1>2, <1>3, InductiveInvariant, PTL DEF Spec
============================================================================
