---------------------------- MODULE StoreProofs ----------------------------
(***************************************************************************)
(* IInv is an inductive invariant of the store and its handlers, for any   *)
(* number of requests and users and any bound on vehicle ids.  One lemma   *)
(* per action; the safety properties follow at the end.                    *)
(***************************************************************************)
EXTENDS StoreRequests, NaturalsInduction, WellFoundedInduction, TLAPS

\* Assigning one session leaves the other columns alone.
LEMMA SessionAssigned ==
  ASSUME NEW d \in Data, NEW t \in Request, NEW u \in User \cup {NoUser}
  PROVE  LET e == [d EXCEPT !.sessions[t] = u] IN
         /\ e \in Data
         /\ e.sessions = [d.sessions EXCEPT ![t] = u]
         /\ e.users = d.users /\ e.vehicles = d.vehicles /\ e.alerts = d.alerts
  BY DEF Data

\* The id given to a new vehicle is one more than the largest in use: it is
\* not in use.  (The largest exists because the ids are bounded.)
LEMMA NextVehicleIDIsNew ==
  ASSUME NEW d \in Data
  PROVE  NextVehicleID(d) \in 1 .. MaxVehicle + 1 /\ NextVehicleID(d) \notin d.vehicles
  <1> USE StoreAssumption
  <1> DEFINE Above == {n \in Nat : n > 0 /\ \A v \in d.vehicles : v < n}
  <1>1. d.vehicles \subseteq 1 .. MaxVehicle
    BY DEF Data, VehicleId
  <1>2. MaxVehicle + 1 \in Above
    BY <1>1
  <1>3. PICK n \in Above : \A m \in Above : ~(<<m, n>> \in OpToRel(<, Nat))
    <2>1. IsWellFoundedOn(OpToRel(<, Nat), Nat)
      BY NatLessThanWellFounded
    <2> HIDE DEF Above
    <2>2. Above \subseteq Nat /\ Above # {}
      BY <1>2 DEF Above
    <2> QED BY <2>1, <2>2, WFMin, Zenon
  <1>4. \A m \in Above : ~(m < n)
    BY <1>3 DEF OpToRel
  <1>5. n <= MaxVehicle + 1
    BY <1>2, <1>4
  <1>6. n = 1 \/ n - 1 \in d.vehicles
    <2> SUFFICES ASSUME n # 1, n - 1 \notin d.vehicles PROVE FALSE
      OBVIOUS
    <2>1. n - 1 \in Nat /\ n - 1 > 0
      OBVIOUS
    <2>2. \A v \in d.vehicles : v < n - 1
      BY <1>1
    <2> QED BY <1>4, <2>1, <2>2
  <1>7. /\ n \in 1 .. MaxVehicle + 1
        /\ \A v \in d.vehicles : v < n
    BY <1>5
  <1> HIDE DEF Above
  <1>8. /\ NextVehicleID(d) \in 1 .. MaxVehicle + 1
        /\ \A v \in d.vehicles : v < NextVehicleID(d)
    BY <1>6, <1>7 DEF NextVehicleID
  <1> QED BY <1>1, <1>8

\* What a closure other than a creation may make of rows d, as rows e:
\* sessions stay, users go only when a member is deleted, vehicles and their
\* counters only when the vehicle is deleted, and a counter grows by the
\* request alone.
MayChange(k, r, v, u, d, e) ==
  /\ e.sessions = d.sessions
  /\ e.users \subseteq d.users
  /\ k = "delete_member" => u \notin e.users
  /\ k = "remove" => d.vehicles \subseteq e.vehicles \cup {v}
  /\ k # "remove" => e.vehicles = d.vehicles
  /\ \A w \in VehicleId :
        /\ e.alerts[w] \subseteq d.alerts[w] \cup {r}
        /\ k # "alert" => e.alerts[w] \subseteq d.alerts[w]
        /\ d.alerts[w] \subseteq e.alerts[w] \/ (k = "remove" /\ w = v)
  /\ k = "alert" /\ v \in d.vehicles => r \in e.alerts[v]

\* No handler's closure does more than that.
LEMMA ChangedFacts ==
  ASSUME NEW k \in AllKinds, k # "create", NEW r \in Request,
         NEW v \in VehicleId \cup {0}, NEW u \in User \cup {NoUser},
         NEW d \in Data
  PROVE  /\ Changed(k, r, v, u, d) \in Data
         /\ MayChange(k, r, v, u, d, Changed(k, r, v, u, d))
  <1> USE DEF MayChange
  <1>1. CASE k = "alert" /\ v \in d.vehicles
    BY <1>1 DEF Changed, Data
  <1>2. CASE k = "remove"
    BY <1>2 DEF Changed, Data
  <1>3. CASE k = "delete_member"
    BY <1>3 DEF Changed, Data
  <1>4. CASE k \notin {"remove", "delete_member"} /\ ~(k = "alert" /\ v \in d.vehicles)
    BY <1>4 DEF Changed
  <1> QED BY <1>1, <1>2, <1>3, <1>4

\* The same facts about a snapshot on its way into the tables, and a created
\* vehicle.
LEMMA SnapshotFacts ==
  ASSUME IInv, NEW r \in Request, pc[r] = "replace"
  PROVE  LET e == snap[r] IN
         /\ e.sessions = db.sessions
         /\ e.users \subseteq db.users
         /\ kind[r] = "delete_member" => subject[r] \notin e.users
         /\ kind[r] = "remove" => db.vehicles \subseteq e.vehicles \cup {vehicle[r]}
         /\ kind[r] # "remove" => db.vehicles \subseteq e.vehicles
         /\ kind[r] = "create" => vehicle[r] \in e.vehicles \ db.vehicles
         /\ \A w \in VehicleId :
               /\ e.alerts[w] \subseteq db.alerts[w] \cup {r}
               /\ kind[r] # "alert" => e.alerts[w] \subseteq db.alerts[w]
               /\ db.alerts[w] \subseteq e.alerts[w]
                     \/ (kind[r] = "remove" /\ w = vehicle[r])
         /\ kind[r] = "alert" /\ vehicle[r] \in e.vehicles => r \in e.alerts[vehicle[r]]
  <1>1. /\ kind[r] \in AllKinds /\ vehicle[r] \in VehicleId \cup {0}
        /\ subject[r] \in User \cup {NoUser} /\ db \in Data
    BY DEF IInv, TypeOK, StoreTypeOK
  <1>2. CASE kind[r] # "create"
    <2>1. snap[r] = Changed(kind[r], r, vehicle[r], subject[r], db)
      BY <1>2 DEF IInv, SnapInv
    <2>2. MayChange(kind[r], r, vehicle[r], subject[r], db,
                    Changed(kind[r], r, vehicle[r], subject[r], db))
      BY <1>1, <1>2, ChangedFacts
    <2>3. MayChange(kind[r], r, vehicle[r], subject[r], db, snap[r])
      BY <2>1, <2>2
    <2> QED BY <1>2, <2>3 DEF MayChange
  <1>3. CASE kind[r] = "create"
    <2>1. /\ vehicle[r] \notin db.vehicles
          /\ snap[r] = [db EXCEPT !.vehicles = @ \cup {vehicle[r]}]
      BY <1>3 DEF IInv, SnapInv
    <2> QED BY <1>1, <1>3, <2>1 DEF Data
  <1> QED BY <1>2, <1>3

----------------------------------------------------------------------------
(* Requests arrive.                                                        *)

\* A login arrives.
LEMMA LoginInv ==
  ASSUME IInv, NEW r \in Request, NEW u \in User, Login(r, u)
  PROVE  IInv'
  <1> USE StoreAssumption, KindsAssumption DEF IInv, storeVars, inputVars,
          Login, Goto
  <1>1. TypeOK'
    BY DEF TypeOK, StoreTypeOK, HandlerInv, Calls, Answers, Table, AllKinds
  <1>2. HolderInv'
    BY DEF TypeOK, StoreTypeOK, HolderInv, InUpdate
  <1>3. HandlerInv'
    BY DEF TypeOK, StoreTypeOK, HandlerInv, InUpdate
  <1>4. SnapInv'
    BY DEF TypeOK, StoreTypeOK, HandlerInv, HolderInv, SnapInv, InUpdate
  <1>5. LogInv' /\ CountedWasNotified'
    BY DEF TypeOK, StoreTypeOK, HandlerInv, LogInv, CountedWasNotified,
           InUpdate
  <1>6. LogoutIsFinal' /\ SessionsHaveUsers'
    BY DEF TypeOK, StoreTypeOK, HandlerInv, LogoutIsFinal, SessionsHaveUsers,
           InUpdate
  <1>7. CommittedStays' /\ CreatedOnce'
    BY DEF TypeOK, StoreTypeOK, CommittedStays, CreatedOnce, Removed, LogInv
  <1> QED BY <1>1, <1>2, <1>3, <1>4, <1>5, <1>6, <1>7

\* Another request arrives, with the token of a login that was answered.
LEMMA ArriveInv ==
  ASSUME IInv, NEW r \in Request, NEW t \in Request, Arrive(r, t)
  PROVE  IInv'
  <1> USE StoreAssumption, KindsAssumption DEF IInv, storeVars, inputVars,
          Arrive, Bear, Goto
  <1>1. TypeOK'
    BY DEF TypeOK, StoreTypeOK, HandlerInv, Calls, Answers, Table, AllKinds
  <1>2. HolderInv'
    BY DEF TypeOK, StoreTypeOK, HolderInv, InUpdate
  <1>3. HandlerInv'
    BY DEF TypeOK, StoreTypeOK, HandlerInv, InUpdate
  <1>4. SnapInv'
    <2>1. \A q \in Request : pc'[q] \in InUpdate =>
             /\ pc[q] = pc'[q] /\ kind[q] = kind'[q]
             /\ vehicle[q] = vehicle'[q] /\ subject[q] = subject'[q]
      BY DEF TypeOK, InUpdate
    <2> QED BY <2>1 DEF SnapInv, InUpdate
  <1>5. LogInv' /\ CountedWasNotified'
    BY DEF TypeOK, StoreTypeOK, HandlerInv, LogInv, CountedWasNotified,
           InUpdate
  <1>6. LogoutIsFinal' /\ SessionsHaveUsers'
    BY DEF TypeOK, StoreTypeOK, HandlerInv, LogoutIsFinal, SessionsHaveUsers,
           InUpdate
  <1>7. CommittedStays' /\ CreatedOnce'
    BY SMTT(30) DEF TypeOK, StoreTypeOK, CommittedStays, CreatedOnce, Removed, LogInv
  <1> QED BY <1>1, <1>2, <1>3, <1>4, <1>5, <1>6, <1>7

----------------------------------------------------------------------------
(* Sessions.                                                               *)

\* Looking up the user to log in changes no table.
LEMMA UserByEmailInv ==
  ASSUME IInv, NEW r \in Request, UserByEmail(r)
  PROVE  IInv'
  <1> USE StoreAssumption, KindsAssumption DEF IInv, storeVars, inputVars,
          UserByEmail, Read, Free, Goto, Answer
  <1>1. TypeOK'
    BY DEF TypeOK, StoreTypeOK, HandlerInv, Calls, Answers, Table, AllKinds
  <1>2. HolderInv'
    BY DEF TypeOK, StoreTypeOK, HolderInv, InUpdate
  <1>3. HandlerInv'
    BY DEF TypeOK, StoreTypeOK, HandlerInv, InUpdate
  <1>4. SnapInv'
    BY DEF TypeOK, StoreTypeOK, HandlerInv, HolderInv, SnapInv, InUpdate
  <1>5. LogInv' /\ CountedWasNotified'
    BY DEF TypeOK, StoreTypeOK, HandlerInv, LogInv, CountedWasNotified,
           InUpdate
  <1>6. LogoutIsFinal' /\ SessionsHaveUsers'
    BY DEF TypeOK, StoreTypeOK, HandlerInv, LogoutIsFinal, SessionsHaveUsers,
           InUpdate
  <1>7. CommittedStays' /\ CreatedOnce'
    BY DEF TypeOK, StoreTypeOK, CommittedStays, CreatedOnce, Removed, LogInv
  <1> QED BY <1>1, <1>2, <1>3, <1>4, <1>5, <1>6, <1>7

\* A session is inserted for a user of the table only; its token was never used.
LEMMA CreateSessionInv ==
  ASSUME IInv, NEW r \in Request, CreateSession(r)
  PROVE  IInv'
  <1> USE StoreAssumption, KindsAssumption DEF IInv, storeVars, inputVars,
          CreateSession, NewSession, Free, Goto, Answer
  <1>1. TypeOK'
    <2>1. db' \in Data
      BY SessionAssigned DEF TypeOK, StoreTypeOK, HandlerInv
    <2> QED BY <2>1 DEF TypeOK, StoreTypeOK, HandlerInv, Calls, Answers, Table,
                        AllKinds
  <1>2. HolderInv'
    BY DEF TypeOK, StoreTypeOK, HolderInv, InUpdate
  <1>3. HandlerInv'
    BY DEF TypeOK, StoreTypeOK, HandlerInv, InUpdate
  <1>4. SnapInv'
    BY DEF TypeOK, StoreTypeOK, HandlerInv, HolderInv, SnapInv, InUpdate
  <1>5. LogInv' /\ CountedWasNotified'
    <2>1. db'.alerts = db.alerts
      BY SessionAssigned DEF TypeOK, StoreTypeOK, HandlerInv
    <2> QED BY <2>1 DEF TypeOK, StoreTypeOK, HandlerInv, LogInv,
                        CountedWasNotified, InUpdate
  <1>6. LogoutIsFinal' /\ SessionsHaveUsers'
    <2>1. CASE subject[r] \notin db.users
      BY <2>1 DEF TypeOK, StoreTypeOK, HandlerInv, LogoutIsFinal,
                  SessionsHaveUsers
    <2>2. CASE subject[r] \in db.users
      <3>1. /\ db'.users = db.users
            /\ db'.sessions = [db.sessions EXCEPT ![r] = subject[r]]
            /\ db.sessions \in [Request -> User \cup {NoUser}]
            /\ subject[r] \in User
        BY <2>2, SessionAssigned DEF TypeOK, StoreTypeOK, HandlerInv, Data
      <3>2. \A q \in Request : kind[q] = "logout" => token[q] # r /\ token[q] \in Request
        BY DEF HandlerInv, TypeOK
      <3>3. SessionsHaveUsers'
        BY <2>2, <3>1 DEF SessionsHaveUsers, ForeignKeys
      <3>4. LogoutIsFinal'
        BY <2>2, <3>1, <3>2 DEF TypeOK, HandlerInv, LogoutIsFinal
      <3> QED BY <3>3, <3>4
    <2> QED BY <2>1, <2>2
  <1>7. CommittedStays' /\ CreatedOnce'
    <2>1. /\ kind[r] = "login"
          /\ db'.vehicles = db.vehicles /\ db'.alerts = db.alerts
          /\ db'.users = db.users
      BY SessionAssigned DEF TypeOK, StoreTypeOK, HandlerInv
    <2> QED BY <2>1 DEF TypeOK, StoreTypeOK, CommittedStays, CreatedOnce, Removed,
                        LogInv
  <1> QED BY <1>1, <1>2, <1>3, <1>4, <1>5, <1>6, <1>7

\* Authentication changes no table.
LEMMA SessionUserIDInv ==
  ASSUME IInv, NEW r \in Request, SessionUserID(r)
  PROVE  IInv'
  <1> USE StoreAssumption, KindsAssumption DEF IInv, storeVars, inputVars,
          SessionUserID, Read, Free, FirstCall, Goto, Answer
  <1>1. TypeOK'
    <2>1. db.sessions[token[r]] \in User \cup {NoUser}
      BY DEF TypeOK, StoreTypeOK, Data
    <2> QED BY <2>1 DEF TypeOK, StoreTypeOK, HandlerInv, Calls, Answers, AllKinds
  <1>2. HolderInv'
    BY DEF TypeOK, StoreTypeOK, HolderInv, InUpdate
  <1>3. HandlerInv'
    BY DEF TypeOK, StoreTypeOK, HandlerInv, InUpdate
  <1>4. SnapInv'
    BY DEF TypeOK, StoreTypeOK, HandlerInv, HolderInv, SnapInv, InUpdate
  <1>5. LogInv' /\ CountedWasNotified'
    BY DEF TypeOK, StoreTypeOK, HandlerInv, LogInv, CountedWasNotified,
           InUpdate
  <1>6. LogoutIsFinal' /\ SessionsHaveUsers'
    BY DEF TypeOK, StoreTypeOK, HandlerInv, LogoutIsFinal, SessionsHaveUsers,
           InUpdate
  <1>7. CommittedStays' /\ CreatedOnce'
    BY DEF TypeOK, StoreTypeOK, CommittedStays, CreatedOnce, Removed, LogInv
  <1> QED BY <1>1, <1>2, <1>3, <1>4, <1>5, <1>6, <1>7

\* Logout deletes a session and nothing else.
LEMMA EndSessionInv ==
  ASSUME IInv, NEW r \in Request, EndSession(r)
  PROVE  IInv'
  <1> USE StoreAssumption, KindsAssumption DEF IInv, storeVars, inputVars,
          EndSession, DeleteSession, Free, Goto, Answer
  <1>1. TypeOK'
    <2>1. db' \in Data
      BY SessionAssigned DEF TypeOK, StoreTypeOK
    <2> QED BY <2>1 DEF TypeOK, StoreTypeOK, HandlerInv, Calls, Answers, Table,
                        AllKinds
  <1>2. HolderInv'
    BY DEF TypeOK, StoreTypeOK, HolderInv, InUpdate
  <1>3. HandlerInv'
    BY DEF TypeOK, StoreTypeOK, HandlerInv, InUpdate
  <1>4. SnapInv'
    BY DEF TypeOK, StoreTypeOK, HandlerInv, HolderInv, SnapInv, InUpdate
  <1>5. LogInv' /\ CountedWasNotified'
    <2>1. db'.alerts = db.alerts
      BY SessionAssigned DEF TypeOK, StoreTypeOK
    <2> QED BY <2>1 DEF TypeOK, StoreTypeOK, HandlerInv, LogInv,
                        CountedWasNotified, InUpdate
  <1>6. LogoutIsFinal' /\ SessionsHaveUsers'
    <2>1. /\ db'.users = db.users
          /\ db'.sessions = [db.sessions EXCEPT ![token[r]] = NoUser]
      BY SessionAssigned DEF TypeOK, StoreTypeOK
    <2>2. db.sessions \in [Request -> User \cup {NoUser}] /\ token[r] \in Request
      BY DEF TypeOK, StoreTypeOK, Data
    <2>3. \A t \in Request :
             db'.sessions[t] = IF t = token[r] THEN NoUser ELSE db.sessions[t]
      BY <2>1, <2>2
    <2>4. SessionsHaveUsers'
      BY <2>1, <2>3 DEF SessionsHaveUsers, ForeignKeys
    <2>5. LogoutIsFinal'
      BY <2>3 DEF TypeOK, LogoutIsFinal, HandlerInv
    <2> QED BY <2>4, <2>5
  <1>7. CommittedStays' /\ CreatedOnce'
    <2>1. /\ kind[r] = "logout"
          /\ db'.vehicles = db.vehicles /\ db'.alerts = db.alerts
          /\ db'.users = db.users
      BY SessionAssigned DEF TypeOK, StoreTypeOK, HandlerInv
    <2> QED BY <2>1 DEF TypeOK, StoreTypeOK, CommittedStays, CreatedOnce, Removed,
                        LogInv
  <1> QED BY <1>1, <1>2, <1>3, <1>4, <1>5, <1>6, <1>7

----------------------------------------------------------------------------
(* Single statements.                                                      *)

\* isAdmin changes no table.
LEMMA IsAdminInv ==
  ASSUME IInv, NEW r \in Request, IsAdmin(r)
  PROVE  IInv'
  <1> USE StoreAssumption, KindsAssumption DEF IInv, storeVars, inputVars,
          IsAdmin, Read, Free
  <1>1. TypeOK'
    BY DEF TypeOK, StoreTypeOK, HandlerInv, Calls, Answers, Table, AllKinds
  <1>2. HolderInv'
    BY DEF TypeOK, StoreTypeOK, HolderInv, InUpdate
  <1>3. HandlerInv'
    BY DEF TypeOK, StoreTypeOK, HandlerInv, InUpdate
  <1>4. SnapInv'
    BY DEF TypeOK, StoreTypeOK, HandlerInv, HolderInv, SnapInv, InUpdate
  <1>5. LogInv' /\ CountedWasNotified'
    BY DEF TypeOK, StoreTypeOK, HandlerInv, LogInv, CountedWasNotified,
           InUpdate
  <1>6. LogoutIsFinal' /\ SessionsHaveUsers'
    BY DEF TypeOK, StoreTypeOK, HandlerInv, LogoutIsFinal, SessionsHaveUsers,
           InUpdate
  <1>7. CommittedStays' /\ CreatedOnce'
    BY DEF TypeOK, StoreTypeOK, CommittedStays, CreatedOnce, Removed, LogInv
  <1> QED BY <1>1, <1>2, <1>3, <1>4, <1>5, <1>6, <1>7

\* The notification is written before the alert is counted.
LEMMA NotifyInv ==
  ASSUME IInv, NEW r \in Request, Notify(r)
  PROVE  IInv'
  <1> USE StoreAssumption, KindsAssumption DEF IInv, storeVars, inputVars,
          Notify, Append, Free, Goto
  <1>1. TypeOK'
    BY DEF TypeOK, StoreTypeOK, HandlerInv, Calls, Answers, Table, AllKinds
  <1>2. HolderInv'
    BY DEF TypeOK, StoreTypeOK, HolderInv, InUpdate
  <1>3. HandlerInv'
    BY DEF TypeOK, StoreTypeOK, HandlerInv, InUpdate
  <1>4. SnapInv'
    BY DEF TypeOK, StoreTypeOK, HandlerInv, HolderInv, SnapInv, InUpdate
  <1>5. LogInv' /\ CountedWasNotified'
    BY DEF TypeOK, StoreTypeOK, HandlerInv, LogInv, CountedWasNotified,
           InUpdate
  <1>6. LogoutIsFinal' /\ SessionsHaveUsers'
    BY DEF TypeOK, StoreTypeOK, HandlerInv, LogoutIsFinal, SessionsHaveUsers,
           InUpdate
  <1>7. CommittedStays' /\ CreatedOnce'
    BY DEF TypeOK, StoreTypeOK, CommittedStays, CreatedOnce, Removed, LogInv
  <1> QED BY <1>1, <1>2, <1>3, <1>4, <1>5, <1>6, <1>7

\* The event is written before the alert is counted.
LEMMA RecordEventInv ==
  ASSUME IInv, NEW r \in Request, RecordEvent(r)
  PROVE  IInv'
  <1> USE StoreAssumption, KindsAssumption DEF IInv, storeVars, inputVars,
          RecordEvent, Append, Free, Goto
  <1>1. TypeOK'
    BY DEF TypeOK, StoreTypeOK, HandlerInv, Calls, Answers, Table, AllKinds
  <1>2. HolderInv'
    BY DEF TypeOK, StoreTypeOK, HolderInv, InUpdate
  <1>3. HandlerInv'
    BY DEF TypeOK, StoreTypeOK, HandlerInv, InUpdate
  <1>4. SnapInv'
    BY DEF TypeOK, StoreTypeOK, HandlerInv, HolderInv, SnapInv, InUpdate
  <1>5. LogInv' /\ CountedWasNotified'
    BY DEF TypeOK, StoreTypeOK, HandlerInv, LogInv, CountedWasNotified,
           InUpdate
  <1>6. LogoutIsFinal' /\ SessionsHaveUsers'
    BY DEF TypeOK, StoreTypeOK, HandlerInv, LogoutIsFinal, SessionsHaveUsers,
           InUpdate
  <1>7. CommittedStays' /\ CreatedOnce'
    BY DEF TypeOK, StoreTypeOK, CommittedStays, CreatedOnce, Removed, LogInv
  <1> QED BY <1>1, <1>2, <1>3, <1>4, <1>5, <1>6, <1>7

\* The audit row ends the request.
LEMMA AuditInv ==
  ASSUME IInv, NEW r \in Request, Audit(r)
  PROVE  IInv'
  <1> USE StoreAssumption, KindsAssumption DEF IInv, storeVars, inputVars,
          Audit, Append, Free, Answer
  <1>1. TypeOK'
    BY DEF TypeOK, StoreTypeOK, HandlerInv, Calls, Answers, Table, AllKinds
  <1>2. HolderInv'
    BY DEF TypeOK, StoreTypeOK, HolderInv, InUpdate
  <1>3. HandlerInv'
    BY DEF TypeOK, StoreTypeOK, HandlerInv, InUpdate
  <1>4. SnapInv'
    BY DEF TypeOK, StoreTypeOK, HandlerInv, HolderInv, SnapInv, InUpdate
  <1>5. LogInv' /\ CountedWasNotified'
    BY DEF TypeOK, StoreTypeOK, HandlerInv, LogInv, CountedWasNotified,
           InUpdate
  <1>6. LogoutIsFinal' /\ SessionsHaveUsers'
    BY DEF TypeOK, StoreTypeOK, HandlerInv, LogoutIsFinal, SessionsHaveUsers,
           InUpdate
  <1>7. CommittedStays' /\ CreatedOnce'
    BY DEF TypeOK, StoreTypeOK, CommittedStays, CreatedOnce, Removed, LogInv
  <1> QED BY <1>1, <1>2, <1>3, <1>4, <1>5, <1>6, <1>7

----------------------------------------------------------------------------
(* Update, and the end of the process.                                     *)

\* The mutex is taken and the rows are loaded.
LEMMA BeginUpdateInv ==
  ASSUME IInv, NEW r \in Request, BeginUpdate(r)
  PROVE  IInv'
  <1> USE StoreAssumption, KindsAssumption DEF IInv, storeVars, inputVars,
          BeginUpdate, Load, Free, Goto
  <1>1. TypeOK'
    BY DEF TypeOK, StoreTypeOK, HandlerInv, Calls, Answers, Table, AllKinds
  <1>2. HolderInv'
    BY DEF TypeOK, StoreTypeOK, HolderInv, InUpdate
  <1>3. HandlerInv'
    BY DEF TypeOK, StoreTypeOK, HandlerInv, InUpdate
  <1>4. SnapInv'
    BY DEF TypeOK, StoreTypeOK, HandlerInv, HolderInv, SnapInv, InUpdate
  <1>5. LogInv' /\ CountedWasNotified'
    BY DEF TypeOK, StoreTypeOK, HandlerInv, LogInv, CountedWasNotified,
           InUpdate
  <1>6. LogoutIsFinal' /\ SessionsHaveUsers'
    BY DEF TypeOK, StoreTypeOK, HandlerInv, LogoutIsFinal, SessionsHaveUsers,
           InUpdate
  <1>7. CommittedStays' /\ CreatedOnce'
    BY DEF TypeOK, StoreTypeOK, CommittedStays, CreatedOnce, Removed, LogInv
  <1> QED BY <1>1, <1>2, <1>3, <1>4, <1>5, <1>6, <1>7

\* The closure gives up, asks isAdmin or goes on.
LEMMA ClosureInv ==
  ASSUME IInv, NEW r \in Request, Closure(r)
  PROVE  IInv'
  <1> USE StoreAssumption, KindsAssumption DEF IInv, storeVars, inputVars,
          Closure, Found, GiveUp, Goto, Answer
  <1>1. TypeOK'
    BY DEF TypeOK, StoreTypeOK, HandlerInv, Calls, Answers, Table, AllKinds
  <1>2. HolderInv'
    BY DEF TypeOK, StoreTypeOK, HolderInv, InUpdate
  <1>3. HandlerInv'
    BY DEF TypeOK, StoreTypeOK, HandlerInv, InUpdate
  <1>4. SnapInv'
    BY DEF TypeOK, StoreTypeOK, HandlerInv, HolderInv, SnapInv, InUpdate
  <1>5. LogInv' /\ CountedWasNotified'
    BY DEF TypeOK, StoreTypeOK, HandlerInv, LogInv, CountedWasNotified,
           InUpdate
  <1>6. LogoutIsFinal' /\ SessionsHaveUsers'
    BY DEF TypeOK, StoreTypeOK, HandlerInv, LogoutIsFinal, SessionsHaveUsers,
           InUpdate
  <1>7. CommittedStays' /\ CreatedOnce'
    BY DEF TypeOK, StoreTypeOK, CommittedStays, CreatedOnce, Removed, LogInv
  <1> QED BY <1>1, <1>2, <1>3, <1>4, <1>5, <1>6, <1>7

\* The closure changes the snapshot, while the tables stay.
LEMMA ApplyChangeInv ==
  ASSUME IInv, NEW r \in Request, ApplyChange(r)
  PROVE  IInv'
  <1> USE StoreAssumption, KindsAssumption DEF IInv, storeVars, inputVars,
          ApplyChange, Change, Goto
  <1>1. TypeOK'
    <2>1. CASE kind[r] # "create"
      <3>1. /\ kind[r] \in AllKinds /\ vehicle[r] \in VehicleId \cup {0}
            /\ subject[r] \in User \cup {NoUser} /\ snap[r] \in Data
        BY DEF TypeOK, StoreTypeOK
      <3>2. Changed(kind[r], r, vehicle[r], subject[r], snap[r]) \in Data
        BY <2>1, <3>1, ChangedFacts
      <3>3. snap'[r] \in Data
        BY <3>2 DEF TypeOK, StoreTypeOK
      <3> QED BY <2>1, <3>3 DEF TypeOK, StoreTypeOK, Calls
    <2>2. CASE kind[r] = "create"
      <3>1. NextVehicleID(snap[r]) \in VehicleId
        BY <2>2, NextVehicleIDIsNew DEF TypeOK, StoreTypeOK, VehicleId
      <3>2. snap'[r] \in Data
        BY <2>2, <3>1 DEF TypeOK, StoreTypeOK, Changed, Data
      <3> QED BY <2>2, <3>1, <3>2 DEF TypeOK, StoreTypeOK, Calls
    <2> QED BY <2>1, <2>2
  <1>2. HolderInv'
    BY DEF TypeOK, StoreTypeOK, HolderInv, InUpdate
  <1>3. HandlerInv'
    BY DEF TypeOK, StoreTypeOK, HandlerInv, InUpdate
  <1>4. SnapInv'
    <2>1. snap[r] = db /\ snap[r] \in Data
      BY DEF SnapInv, InUpdate, TypeOK, StoreTypeOK
    <2>2. \A q \in Request : q # r => pc[q] \notin InUpdate
      BY DEF HolderInv, InUpdate
    <2>3. CASE kind[r] # "create"
      BY <2>1, <2>2, <2>3 DEF TypeOK, StoreTypeOK, SnapInv, InUpdate
    <2>4. CASE kind[r] = "create"
      <3>1. NextVehicleID(db) \in VehicleId \ db.vehicles
        BY <2>1, <2>4, NextVehicleIDIsNew DEF VehicleId
      <3>2. snap'[r] = [db EXCEPT !.vehicles = @ \cup {NextVehicleID(db)}]
        BY <2>1, <2>4 DEF TypeOK, StoreTypeOK, Changed
      <3> QED BY <2>1, <2>2, <2>4, <3>1, <3>2 DEF TypeOK, StoreTypeOK, SnapInv,
                 InUpdate
    <2> QED BY <2>3, <2>4
  <1>5. LogInv' /\ CountedWasNotified'
    BY DEF TypeOK, StoreTypeOK, HandlerInv, LogInv, CountedWasNotified,
           InUpdate
  <1>6. LogoutIsFinal' /\ SessionsHaveUsers'
    BY DEF TypeOK, StoreTypeOK, HandlerInv, LogoutIsFinal, SessionsHaveUsers,
           InUpdate
  <1>7. CommittedStays' /\ CreatedOnce'
    BY DEF TypeOK, StoreTypeOK, CommittedStays, CreatedOnce, Removed, LogInv
  <1> QED BY <1>1, <1>2, <1>3, <1>4, <1>5, <1>6, <1>7

\* The tables become the snapshot, or stay as they are.
LEMMA EndUpdateInv ==
  ASSUME IInv, NEW r \in Request, EndUpdate(r)
  PROVE  IInv'
  <1> USE StoreAssumption, KindsAssumption DEF IInv, storeVars, inputVars,
          EndUpdate, ReplaceAllData, Goto, Answer
  <1>1. TypeOK'
    BY DEF TypeOK, StoreTypeOK, HandlerInv, Calls, Answers, Table, AllKinds
  <1>2. HolderInv'
    BY DEF TypeOK, StoreTypeOK, HolderInv, InUpdate
  <1>3. HandlerInv'
    BY DEF TypeOK, StoreTypeOK, HandlerInv, InUpdate
  <1>4. SnapInv'
    BY DEF TypeOK, StoreTypeOK, HandlerInv, HolderInv, SnapInv, InUpdate
  <1>5. LogInv' /\ CountedWasNotified'
    <2>1. CASE UNCHANGED db /\ UNCHANGED committed
      BY <2>1 DEF TypeOK, StoreTypeOK, HandlerInv, LogInv,
                  CountedWasNotified, InUpdate
    <2>2. CASE db' = snap[r] /\ committed' = committed \cup {r}
      <3>1. LogInv'
        BY <2>2 DEF TypeOK, StoreTypeOK, HandlerInv, LogInv, InUpdate
      <3>2. kind[r] = "alert" => <<"notifications", r>> \in log
        BY DEF LogInv, InUpdate
      <3>3. /\ \A w \in VehicleId : snap[r].alerts[w] \subseteq db.alerts[w] \cup {r}
            /\ kind[r] # "alert" =>
                  \A w \in VehicleId : snap[r].alerts[w] \subseteq db.alerts[w]
        BY SnapshotFacts
      <3>4. \A w \in VehicleId : \A q \in snap[r].alerts[w] :
               <<"notifications", q>> \in log
        BY <3>2, <3>3 DEF CountedWasNotified
      <3>5. db' = snap[r] /\ log' = log
        BY <2>2
      <3>6. CountedWasNotified'
        BY <3>4, <3>5 DEF CountedWasNotified
      <3> QED BY <3>1, <3>6
    <2> QED BY <2>1, <2>2
  <1>6. LogoutIsFinal' /\ SessionsHaveUsers'
    <2>1. CASE UNCHANGED db /\ UNCHANGED committed
      BY <2>1 DEF TypeOK, StoreTypeOK, HandlerInv, LogoutIsFinal,
                  SessionsHaveUsers, InUpdate
    <2>2. CASE db' = snap[r] /\ committed' = committed \cup {r}
      <3>1. db'.sessions = db.sessions
        BY <2>2, SnapshotFacts
      <3>2. LogoutIsFinal'
        BY <2>2, <3>1 DEF TypeOK, HandlerInv, LogoutIsFinal, InUpdate
      <3>3. SessionsHaveUsers'
        BY <2>2 DEF SessionsHaveUsers
      <3> QED BY <3>2, <3>3
    <2> QED BY <2>1, <2>2
  <1>7. CommittedStays' /\ CreatedOnce'
    <2>1. CASE UNCHANGED db /\ UNCHANGED committed
      BY <2>1 DEF TypeOK, StoreTypeOK, CommittedStays, CreatedOnce, Removed
    <2>2. CASE db' = snap[r] /\ committed' = committed \cup {r}
      <3>1. \A v \in VehicleId : Removed(v) => Removed(v)'
        BY <2>2 DEF Removed
      <3>2. kind[r] = "remove" => Removed(vehicle[r])'
        BY <2>2 DEF Removed
      <3>3. CommittedStays'
        <4> SUFFICES ASSUME NEW q \in committed'
                     PROVE  (/\ kind[q] = "alert" /\ vehicle[q] \in snap[q].vehicles
                                   => \/ q \in db.alerts[vehicle[q]]
                                      \/ Removed(vehicle[q])
                             /\ kind[q] = "create" => \/ vehicle[q] \in db.vehicles
                                                      \/ Removed(vehicle[q])
                             /\ kind[q] = "delete_member" => subject[q] \notin db.users)'
          BY DEF CommittedStays
        <4>1. /\ kind[q] = "alert" /\ vehicle[q] \in snap[q].vehicles
                   => vehicle[q] \in VehicleId
              /\ q \in Request
          BY <2>2 DEF TypeOK, HandlerInv
        <4>2. CASE q = r
          BY <2>2, <4>1, <4>2, SnapshotFacts
        <4>3. CASE q # r
          <5>1. q \in committed
            BY <2>2, <4>3
          <5>2. kind[q] = "create" => vehicle[q] \in VehicleId \cup {0}
            BY <4>1 DEF TypeOK
          <5>3. Removed(vehicle[q]) => Removed(vehicle[q])'
            BY <2>2 DEF Removed
          <5> QED BY <2>2, <3>2, <4>1, <5>1, <5>2, <5>3, SnapshotFacts
                  DEF CommittedStays
        <4> QED BY <4>2, <4>3
      <3>4. CreatedOnce'
        <4>1. ASSUME NEW q \in committed, kind[q] = "create", kind[r] = "create",
                     vehicle[q] = vehicle[r], q # r
              PROVE  Removed(vehicle[r])'
          <5>1. vehicle[q] \in db.vehicles \/ Removed(vehicle[q])
            BY <4>1 DEF CommittedStays
          <5>2. vehicle[r] \notin db.vehicles
            BY <4>1, SnapshotFacts
          <5> QED BY <2>2, <4>1, <5>1, <5>2 DEF Removed
        <4> QED BY <2>2, <4>1 DEF CreatedOnce, Removed
      <3> QED BY <3>3, <3>4
    <2> QED BY <2>1, <2>2
  <1> QED BY <1>1, <1>2, <1>3, <1>4, <1>5, <1>6, <1>7

\* The process ends: the tables stay, the requests under way are gone.
LEMMA RestartInv ==
  ASSUME IInv, Restart
  PROVE  IInv'
  <1> USE StoreAssumption, KindsAssumption DEF IInv, storeVars, inputVars,
          Restart, Reopen
  <1>1. TypeOK'
    BY DEF TypeOK, StoreTypeOK, HandlerInv, Calls, Answers, Table, AllKinds
  <1>2. HolderInv'
    BY DEF TypeOK, StoreTypeOK, HolderInv, InUpdate
  <1>3. HandlerInv'
    BY DEF TypeOK, StoreTypeOK, HandlerInv, InUpdate
  <1>4. SnapInv'
    BY DEF TypeOK, StoreTypeOK, HandlerInv, HolderInv, SnapInv, InUpdate
  <1>5. LogInv' /\ CountedWasNotified'
    BY DEF TypeOK, StoreTypeOK, HandlerInv, LogInv, CountedWasNotified,
           InUpdate
  <1>6. LogoutIsFinal' /\ SessionsHaveUsers'
    BY DEF TypeOK, StoreTypeOK, HandlerInv, LogoutIsFinal, SessionsHaveUsers,
           InUpdate
  <1>7. CommittedStays' /\ CreatedOnce'
    BY DEF TypeOK, StoreTypeOK, CommittedStays, CreatedOnce, Removed, LogInv
  <1> QED BY <1>1, <1>2, <1>3, <1>4, <1>5, <1>6, <1>7

----------------------------------------------------------------------------
(* The invariant and what follows from it.                                 *)

\* The tables of a fresh process satisfy the invariant.
LEMMA InitIInv == Init => IInv
  <1> SUFFICES ASSUME Init PROVE IInv
    OBVIOUS
  <1>1. PICK vs \in SUBSET ({1} \cap VehicleId) :
           db = [users |-> User, sessions |-> [t \in Request |-> NoUser],
                 vehicles |-> vs, alerts |-> [v \in VehicleId |-> {}]]
    BY DEF Init, StoreInit
  <1>2. db \in Data
    BY <1>1 DEF Data
  <1>3. TypeOK /\ HolderInv /\ HandlerInv /\ SnapInv /\ LogInv
    BY <1>2, StoreAssumption DEF Init, StoreInit, TypeOK, StoreTypeOK, HolderInv,
       HandlerInv, SnapInv, LogInv, InUpdate, Calls, Answers, AllKinds
  <1>4. LogoutIsFinal /\ CommittedStays /\ CreatedOnce
    BY DEF Init, LogoutIsFinal, CommittedStays, CreatedOnce
  <1>5. SessionsHaveUsers /\ CountedWasNotified
    BY <1>1 DEF SessionsHaveUsers, ForeignKeys, CountedWasNotified
  <1> QED BY <1>3, <1>4, <1>5 DEF IInv

\* A step that changes nothing preserves the invariant.
LEMMA StutterInv == IInv /\ UNCHANGED vars => IInv'
  BY DEF IInv, TypeOK, StoreTypeOK, HolderInv, HandlerInv, SnapInv, LogInv,
         LogoutIsFinal, CommittedStays, CreatedOnce, Removed, SessionsHaveUsers,
         CountedWasNotified, InUpdate, vars, storeVars, inputVars

\* Every step preserves the invariant.
LEMMA NextIInv == IInv /\ [Next]_vars => IInv'
  <1> SUFFICES ASSUME IInv, [Next]_vars PROVE IInv'
    OBVIOUS
  <1>1. ASSUME NEW r \in Request, Step(r) PROVE IInv'
    BY <1>1, UserByEmailInv, CreateSessionInv, SessionUserIDInv, EndSessionInv,
       IsAdminInv, NotifyInv, RecordEventInv, BeginUpdateInv, ClosureInv,
       ApplyChangeInv, EndUpdateInv, AuditInv DEF Step
  <1>2. ASSUME NEW r \in Request, NEW u \in User, Login(r, u) PROVE IInv'
    BY <1>2, LoginInv
  <1>3. ASSUME NEW r \in Request, NEW t \in Request, Arrive(r, t) PROVE IInv'
    BY <1>3, ArriveInv
  <1>4. CASE Restart
    BY <1>4, RestartInv
  <1>5. CASE UNCHANGED vars
    BY <1>5, StutterInv
  <1> QED BY <1>1, <1>2, <1>3, <1>4, <1>5 DEF Next

\* The inductive invariant holds throughout.
THEOREM InductiveInvariant == Spec => []IInv
  BY InitIInv, NextIInv, PTL DEF Spec

\* Type correctness: in particular no Update ever stores rows that are not of
\* their tables' types, or an id out of range.
THEOREM TypeCorrect == Spec => []TypeOK
  <1>1. IInv => TypeOK
    BY DEF IInv
  <1> QED BY <1>1, InductiveInvariant, PTL

\* No Update brings back a session that a logout has deleted.
THEOREM LogoutFinal == Spec => []LogoutIsFinal
  <1>1. IInv => LogoutIsFinal
    BY DEF IInv
  <1> QED BY <1>1, InductiveInvariant, PTL

\* No Update undoes what another has committed.
THEOREM NoLostUpdate == Spec => []CommittedStays
  <1>1. IInv => CommittedStays
    BY DEF IInv
  <1> QED BY <1>1, InductiveInvariant, PTL

\* The id computed from a snapshot is given to one vehicle only.
THEOREM FreshIds == Spec => []CreatedOnce
  <1>1. IInv => CreatedOnce
    BY DEF IInv
  <1> QED BY <1>1, InductiveInvariant, PTL

\* Every session belongs to a user.
THEOREM NoOrphanSession == Spec => []SessionsHaveUsers
  <1>1. IInv => SessionsHaveUsers
    BY DEF IInv
  <1> QED BY <1>1, InductiveInvariant, PTL

\* Every alert counted has its notification, whenever the process ends.
THEOREM NotifiedFirst == Spec => []CountedWasNotified
  <1>1. IInv => CountedWasNotified
    BY DEF IInv
  <1> QED BY <1>1, InductiveInvariant, PTL

----------------------------------------------------------------------------
(* The store implements AtomicStore.                                       *)

\* A request that is still to make its change has not made it.
LEMMA NotYetCommitted ==
  ASSUME IInv, NEW r \in Request, pc[r] \notin {"audit", "done"}
  PROVE  r \notin committed
  BY DEF IInv, LogInv

\* The login's session is for a user there is, or there is none.
LEMMA CreateSessionAtomic ==
  ASSUME IInv, NEW r \in Request, CreateSession(r)
  PROVE  [A!Next]_A!vars
  <1> USE DEF CreateSession, NewSession, Goto, Answer
  <1>1. CASE subject[r] \in db.users
    <2>1. /\ subject[r] \in User
          /\ db'.sessions = [db.sessions EXCEPT ![r] = subject[r]]
          /\ UNCHANGED <<db.users, db.vehicles, db.alerts>>
          /\ committed' = committed \cup {r}
      BY <1>1, SessionAssigned DEF IInv, TypeOK, StoreTypeOK, HandlerInv
    <2>2. r \notin committed
      BY NotYetCommitted
    <2>3. A!LogIn(r, subject[r])
      BY <1>1, <2>1, <2>2 DEF A!LogIn, A!Once
    <2> QED BY <2>1, <2>3 DEF A!Next
  <1>2. CASE subject[r] \notin db.users
    BY <1>2 DEF A!vars
  <1> QED BY <1>1, <1>2

LEMMA EndSessionAtomic ==
  ASSUME IInv, NEW r \in Request, EndSession(r)
  PROVE  [A!Next]_A!vars
  <1>1. /\ token[r] \in Request
        /\ db'.sessions = [db.sessions EXCEPT ![token[r]] = NoUser]
        /\ UNCHANGED <<db.users, db.vehicles, db.alerts>>
        /\ committed' = committed \cup {r}
    BY SessionAssigned DEF EndSession, DeleteSession, IInv, TypeOK, StoreTypeOK
  <1>2. r \notin committed
    BY NotYetCommitted DEF EndSession
  <1>3. A!LogOut(r, token[r])
    BY <1>1, <1>2 DEF A!LogOut, A!Once
  <1> QED BY <1>1, <1>3 DEF A!Next

\* Replacing the tables by a snapshot taken earlier is, to the rows, the change
\* itself: nothing was committed since the snapshot was taken.
LEMMA EndUpdateAtomic ==
  ASSUME IInv, NEW r \in Request, EndUpdate(r)
  PROVE  [A!Next]_A!vars
  <1> DEFINE v == vehicle[r]
             u == subject[r]
  <1>1. CASE UNCHANGED db /\ UNCHANGED committed
    BY <1>1 DEF A!vars
  <1>2. CASE db' = snap[r] /\ committed' = committed \cup {r} /\ ForeignKeys(snap[r])
    <2>1. A!Once(r)
      BY <1>2, NotYetCommitted DEF EndUpdate, Goto, Answer, A!Once
    <2>2. /\ db \in Data /\ v \in VehicleId \cup {0} /\ u \in User \cup {NoUser}
          /\ kind[r] \in AllKinds \ {"login", "logout"}
          /\ kind[r] \in {"alert", "remove"} => v \in VehicleId
      BY DEF EndUpdate, IInv, TypeOK, StoreTypeOK, HandlerInv, InUpdate
    <2>3. /\ kind[r] # "create" => db' = Changed(kind[r], r, v, u, db)
          /\ kind[r] = "create" => /\ v \in VehicleId \ db.vehicles
                                   /\ db' = [db EXCEPT !.vehicles = @ \cup {v}]
      BY <1>2 DEF EndUpdate, IInv, SnapInv
    <2>4. CASE kind[r] = "create"
      <3>1. A!AddVehicle(r, v)
        BY <2>1, <2>2, <2>3, <2>4 DEF A!AddVehicle, Data
      <3> QED BY <2>3, <2>4, <3>1 DEF A!Next
    <2>5. CASE kind[r] = "alert"
      <3>1. A!CountAlert(r, v)
        BY <2>1, <2>2, <2>3, <2>5 DEF A!CountAlert, Changed, Data
      <3> QED BY <2>2, <2>5, <3>1 DEF A!Next
    <2>6. CASE kind[r] = "remove"
      <3>1. A!RemoveVehicle(r, v)
        BY <2>1, <2>2, <2>3, <2>6 DEF A!RemoveVehicle, Changed, Data
      <3> QED BY <2>2, <2>6, <3>1 DEF A!Next
    <2>7. CASE kind[r] = "delete_member"
      <3>1. db' = [db EXCEPT !.users = @ \ {u}]
        BY <2>3, <2>7 DEF Changed
      <3>2. /\ db'.users = db.users \ {u}
            /\ UNCHANGED <<db.sessions, db.vehicles, db.alerts>>
        BY <2>2, <3>1 DEF Data
      <3>3. CASE u \in User
        <4>1. \A t \in Request : db.sessions[t] # u
          BY <1>2, <3>2, <3>3, StoreAssumption DEF ForeignKeys
        <4>2. A!DeleteUser(r, u)
          BY <2>1, <3>2, <4>1 DEF A!DeleteUser
        <4> QED BY <3>3, <4>2 DEF A!Next
      <3>4. CASE u = NoUser
        <4>1. UNCHANGED db.users
          BY <2>2, <3>2, <3>4, StoreAssumption DEF Data
        <4>2. A!Edit(r)
          BY <2>1, <3>2, <4>1 DEF A!Edit
        <4> QED BY <4>2 DEF A!Next
      <3> QED BY <2>2, <3>3, <3>4
    <2>8. CASE kind[r] = "edit"
      <3>1. A!Edit(r)
        BY <2>1, <2>3, <2>8 DEF A!Edit, Changed
      <3> QED BY <3>1 DEF A!Next
    <2> QED BY <2>2, <2>4, <2>5, <2>6, <2>7, <2>8 DEF AllKinds
  <1> QED BY <1>1, <1>2 DEF EndUpdate, ReplaceAllData

\* The other steps leave the rows alone.
LEMMA StepAtomic ==
  ASSUME IInv, [Next]_vars
  PROVE  [A!Next]_A!vars
  <1>1. ASSUME NEW r \in Request, Step(r)
        PROVE  [A!Next]_A!vars
    <2>1. CASE UserByEmail(r) \/ SessionUserID(r) \/ IsAdmin(r) \/ Notify(r)
               \/ RecordEvent(r) \/ Audit(r)
      BY <2>1 DEF UserByEmail, SessionUserID, IsAdmin, Notify, RecordEvent, Audit,
         Read, Append, storeVars, A!vars
    <2>2. CASE BeginUpdate(r) \/ Closure(r) \/ ApplyChange(r)
      BY <2>2 DEF BeginUpdate, Load, Closure, GiveUp, ApplyChange, Change,
         storeVars, A!vars
    <2> QED BY <1>1, <2>1, <2>2, CreateSessionAtomic, EndSessionAtomic,
               EndUpdateAtomic DEF Step
  <1>2. ASSUME NEW r \in Request, NEW u \in User, Login(r, u)
        PROVE  [A!Next]_A!vars
    BY <1>2 DEF Login, storeVars, A!vars
  <1>3. ASSUME NEW r \in Request, NEW t \in Request, Arrive(r, t)
        PROVE  [A!Next]_A!vars
    BY <1>3 DEF Arrive, Bear, storeVars, A!vars
  <1>4. CASE Restart
    BY <1>4 DEF Restart, Reopen, A!vars
  <1>5. CASE UNCHANGED vars
    BY <1>5 DEF vars, storeVars, A!vars
  <1> QED BY <1>1, <1>2, <1>3, <1>4, <1>5 DEF Next

LEMMA InitAtomic == Init => A!Init
  BY DEF Init, StoreInit, A!Init, A!NoSession

\* However requests interleave between loading and replacing, and wherever the
\* process ends, the rows change as if every request made its change in one
\* step and at most once: nothing is lost, undone or made twice.
THEOREM StoreIsAtomic == Spec => ChangesAreAtomic
  <1>1. IInv /\ [Next]_vars => [A!Next]_A!vars
    BY StepAtomic
  <1> QED BY <1>1, InitAtomic, InductiveInvariant, PTL DEF Spec, ChangesAreAtomic, A!Spec

\* A request that asks isAdmin from inside its own Update waits for itself: it
\* stays there, holding mu, until the process ends.
THEOREM AsksItself ==
  ASSUME NEW r \in Request
  PROVE  Spec => [][pc[r] = "is_admin_in_update" =>
                       (pc'[r] = "is_admin_in_update" /\ mu' = r) \/ Restart]_vars
  <1>1. ASSUME IInv, [Next]_vars, pc[r] = "is_admin_in_update"
        PROVE  (pc'[r] = "is_admin_in_update" /\ mu' = r) \/ Restart
    <2> USE <1>1, StoreAssumption DEF IInv
    <2>1. mu = r /\ ~Free
      BY DEF HolderInv, InUpdate, Free
    <2>2. \A q \in Request : q # r => pc[q] \notin InUpdate
      BY <2>1 DEF HolderInv
    <2>3. ASSUME NEW q \in Request, Step(q)
          PROVE  FALSE
      BY <2>1, <2>2, <2>3 DEF Step, UserByEmail, CreateSession, NewSession,
         SessionUserID, EndSession, DeleteSession, IsAdmin, Notify, RecordEvent,
         Append, Read, BeginUpdate, Load, Closure, ApplyChange, EndUpdate, Audit,
         Goto, InUpdate
    <2>4. ASSUME NEW q \in Request, NEW u \in User, Login(q, u)
          PROVE  pc'[r] = "is_admin_in_update" /\ mu' = r
      BY <2>1, <2>4 DEF Login, Goto, TypeOK, storeVars
    <2>5. ASSUME NEW q \in Request, NEW t \in Request, Arrive(q, t)
          PROVE  pc'[r] = "is_admin_in_update" /\ mu' = r
      BY <2>1, <2>5 DEF Arrive, Bear, Goto, TypeOK, storeVars
    <2>6. CASE UNCHANGED vars
      BY <2>1, <2>6 DEF vars, storeVars
    <2> QED BY <2>3, <2>4, <2>5, <2>6 DEF Next
  <1> QED BY <1>1, InductiveInvariant, PTL DEF Spec
============================================================================
