--------------------------- MODULE StoreRequests ---------------------------
(***************************************************************************)
(* HTTP handlers that change the store: login, logout, creating, editing   *)
(* and deleting a vehicle, recording an alert, deleting a team member.     *)
(* Each request runs its handler's calls of Store methods in order; pc is  *)
(* the next call.  Reading a request and writing its response change       *)
(* nothing; the call that only reads what the response shows (VehicleByID  *)
(* after an Update) is left out, since recordAudit waits for mu as well.   *)
(*                                                                         *)
(* The fields an edit assigns are abstracted: the only column kept of a    *)
(* vehicle is its alert counter.                                           *)
(***************************************************************************)
EXTENDS Store

CONSTANT Kinds  \* the handlers clients call

AllKinds == {"login", "logout", "create", "alert", "edit", "remove",
             "delete_member"}

ASSUME KindsAssumption == Kinds \subseteq AllKinds

VARIABLES
    pc,        \* the next call of each request
    kind,      \* its handler
    token,     \* the login whose token it bears
    subject,   \* the user it logs in, or the team member it deletes
    vehicle,   \* the vehicle it is about
    uid,       \* who it is authenticated as
    answer,    \* what the client got
    committed  \* requests whose change of the rows was committed (history)

inputVars == <<kind, token, subject, vehicle>>
vars == <<storeVars, pc, inputVars, uid, answer, committed>>

Calls == {"idle", "user_by_email", "new_session", "session_user_id",
          "delete_session", "is_admin", "notify", "event", "load", "closure",
          "is_admin_in_update", "change", "replace", "audit", "done"}
Answers == {"none", "ok", "unauthorized", "bad_request", "not_found", "error",
            "lost"}

TypeOK ==
    /\ StoreTypeOK
    /\ pc \in [Request -> Calls]
    /\ kind \in [Request -> AllKinds]
    /\ token \in [Request -> Request]
    /\ subject \in [Request -> User \cup {NoUser}]
    /\ vehicle \in [Request -> VehicleId \cup {0}]
    /\ uid \in [Request -> User \cup {NoUser}]
    /\ answer \in [Request -> Answers]
    /\ committed \in SUBSET Request

Init ==
    /\ StoreInit
    /\ pc = [r \in Request |-> "idle"]
    /\ kind = [r \in Request |-> "login"]
    /\ token = [r \in Request |-> r]
    /\ subject = [r \in Request |-> NoUser]
    /\ vehicle = [r \in Request |-> 0]
    /\ uid = [r \in Request |-> NoUser]
    /\ answer = [r \in Request |-> "none"]
    /\ committed = {}

----------------------------------------------------------------------------
Goto(r, from, to) ==
    /\ pc[r] = from
    /\ pc' = [pc EXCEPT ![r] = to]

Answer(r, a) ==
    /\ pc' = [pc EXCEPT ![r] = "done"]
    /\ answer' = [answer EXCEPT ![r] = a]

(* Requests arrive.                                                        *)

Login(r, u) ==
    /\ "login" \in Kinds
    /\ Goto(r, "idle", "user_by_email")
    /\ subject' = [subject EXCEPT ![r] = u]
    /\ UNCHANGED <<storeVars, kind, token, vehicle, uid, answer, committed>>

\* Any other request bears the token of a login that was answered.
Bear(r, k, t) ==
    /\ k \in Kinds
    /\ kind[t] = "login" /\ answer[t] = "ok"
    /\ Goto(r, "idle", "session_user_id")
    /\ kind' = [kind EXCEPT ![r] = k]
    /\ token' = [token EXCEPT ![r] = t]
    /\ UNCHANGED <<storeVars, uid, answer, committed>>

Arrive(r, t) ==
    \/ \E k \in {"logout", "create"} :
          Bear(r, k, t) /\ UNCHANGED <<subject, vehicle>>
    \/ \E k \in {"alert", "edit", "remove"}, v \in VehicleId :
          /\ Bear(r, k, t)
          /\ vehicle' = [vehicle EXCEPT ![r] = v]
          /\ UNCHANGED subject
    \/ \E u \in User :
          /\ Bear(r, "delete_member", t)
          /\ subject' = [subject EXCEPT ![r] = u]
          /\ UNCHANGED vehicle

----------------------------------------------------------------------------
(* Sessions.                                                               *)

UserByEmail(r) ==
    /\ pc[r] = "user_by_email"
    /\ Read
    /\ \/ /\ subject[r] \in db.users
          /\ Goto(r, "user_by_email", "new_session")
          /\ UNCHANGED answer
       \/ /\ subject[r] \notin db.users
          /\ Answer(r, "unauthorized")
    /\ UNCHANGED <<inputVars, uid, committed>>

CreateSession(r) ==
    /\ pc[r] = "new_session"
    /\ \E ok \in BOOLEAN :
          /\ NewSession(r, subject[r], ok)
          /\ committed' = IF ok THEN committed \cup {r} ELSE committed
          /\ IF ok THEN Goto(r, "new_session", "audit") /\ UNCHANGED answer
                   ELSE Answer(r, "error")
    /\ UNCHANGED <<inputVars, uid>>

\* What a handler does once requireAuth has let the request in.
FirstCall(k) ==
    CASE k = "logout" -> "delete_session"
      [] k \in {"create", "alert"} -> "is_admin"
      [] OTHER -> "load"

\* authUserID.  Logout goes on without a user; deleting oneself is refused.
SessionUserID(r) ==
    /\ pc[r] = "session_user_id"
    /\ Read
    /\ LET u == db.sessions[token[r]] IN
          /\ uid' = [uid EXCEPT ![r] = u]
          /\ \/ /\ u = NoUser /\ kind[r] # "logout"
                /\ Answer(r, "unauthorized")
             \/ /\ kind[r] = "delete_member" /\ u = subject[r]
                /\ Answer(r, "bad_request")
             \/ /\ u # NoUser \/ kind[r] = "logout"
                /\ kind[r] = "delete_member" => u # subject[r]
                /\ Goto(r, "session_user_id", FirstCall(kind[r]))
                /\ UNCHANGED answer
    /\ UNCHANGED <<inputVars, committed>>

EndSession(r) ==
    /\ pc[r] = "delete_session"
    /\ DeleteSession(token[r])
    /\ IF uid[r] # NoUser THEN Goto(r, "delete_session", "audit") /\ UNCHANGED answer
                          ELSE Answer(r, "ok")
    /\ committed' = committed \cup {r}
    /\ UNCHANGED <<inputVars, uid>>

\* isAdmin, which calls UserByID.  Called from inside an Update's closure it
\* waits for mu like everybody else.  Requesters are entitled to what they ask.
IsAdmin(r) ==
    /\ pc[r] \in {"is_admin", "is_admin_in_update"}
    /\ Read
    /\ pc' = [pc EXCEPT ![r] =
                 IF @ = "is_admin_in_update" THEN "change"
                 ELSE IF kind[r] = "alert" THEN "notify" ELSE "load"]
    /\ UNCHANGED <<inputVars, uid, answer, committed>>

----------------------------------------------------------------------------
(* handleCreateNotification, up to the counter.                             *)

\* Variant: AddNotification fails and the handler goes on, as it does when
\* AddEvent fails.
NotifyInVain(r) ==
    /\ Goto(r, "notify", "event")
    /\ Read
    /\ UNCHANGED <<inputVars, uid, answer, committed>>

Notify(r) ==
    /\ Goto(r, "notify", "event")
    /\ Append("notifications", r)
    /\ UNCHANGED <<inputVars, uid, answer, committed>>

RecordEvent(r) ==
    /\ Goto(r, "event", "load")
    /\ Append("events", r)
    /\ UNCHANGED <<inputVars, uid, answer, committed>>

----------------------------------------------------------------------------
(* Update: load, the closure of the handler, replace.                       *)

BeginUpdate(r) ==
    /\ Goto(r, "load", "closure")
    /\ Load(r)
    /\ UNCHANGED <<inputVars, uid, answer, committed>>

\* Does the closure find the row it is to change?  A missing vehicle is no
\* error to incrementVehicleAlertCounter.
Found(r) ==
    CASE kind[r] \in {"edit", "remove"} -> vehicle[r] \in snap[r].vehicles
      [] kind[r] = "delete_member" -> subject[r] \in snap[r].users
      [] OTHER -> TRUE

\* The closure returns ErrNotFound; or, where it checks who owns the row,
\* calls isAdmin; or goes on to change the row.
Closure(r) ==
    /\ pc[r] = "closure"
    /\ \/ /\ Found(r)
          /\ Goto(r, "closure", IF kind[r] \in {"edit", "remove"}
                                THEN "is_admin_in_update" ELSE "change")
          /\ UNCHANGED <<storeVars, answer>>
       \/ /\ ~Found(r)
          /\ GiveUp(r)
          /\ Answer(r, "not_found")
    /\ UNCHANGED <<inputVars, uid, committed>>

\* Variant: the largest id in the table.
LastVehicleID(d) ==
    CHOOSE n \in 0 .. MaxVehicle :
        /\ \A v \in d.vehicles : v <= n
        /\ n = 0 \/ n \in d.vehicles

\* NextVehicleID of loadAllData: one more than the largest id in the table.
NextVehicleID(d) ==
    CHOOSE n \in 1 .. MaxVehicle + 1 :
        /\ \A v \in d.vehicles : v < n
        /\ n = 1 \/ n - 1 \in d.vehicles

\* What the closure of handler k, called by request r about vehicle v or user
\* u, makes of the rows it is given.
Changed(k, r, v, u, d) ==
    CASE k = "create" -> [d EXCEPT !.vehicles = @ \cup {NextVehicleID(d)}]
      [] k = "alert" /\ v \in d.vehicles -> [d EXCEPT !.alerts[v] = @ \cup {r}]
      [] k = "remove" -> [d EXCEPT !.vehicles = @ \ {v}, !.alerts[v] = {}]
      [] k = "delete_member" -> [d EXCEPT !.users = @ \ {u}]
      [] OTHER -> d

\* MaxVehicle bounds the ids.
ApplyChange(r) ==
    /\ Goto(r, "change", "replace")
    /\ kind[r] = "create" => NextVehicleID(snap[r]) <= MaxVehicle
    /\ Change(r, Changed(kind[r], r, vehicle[r], subject[r], snap[r]))
    /\ vehicle' = IF kind[r] = "create"
                  THEN [vehicle EXCEPT ![r] = NextVehicleID(snap[r])]
                  ELSE vehicle
    /\ UNCHANGED <<kind, token, subject, uid, answer, committed>>

\* incrementVehicleAlertCounter ignores what Update returns, and
\* handleDeleteVehicle ignores every error but ErrNotFound.
EndUpdate(r) ==
    /\ pc[r] = "replace"
    /\ \E ok \in BOOLEAN :
          /\ ReplaceAllData(r, ok)
          /\ committed' = IF ok THEN committed \cup {r} ELSE committed
          /\ IF ok \/ kind[r] \in {"alert", "remove"}
             THEN Goto(r, "replace", "audit") /\ UNCHANGED answer
             ELSE Answer(r, "error")
    /\ UNCHANGED <<inputVars, uid>>

\* recordAudit, the last call of every handler.
Audit(r) ==
    /\ pc[r] = "audit"
    /\ Append("audit_logs", r)
    /\ Answer(r, "ok")
    /\ UNCHANGED <<inputVars, uid, committed>>

----------------------------------------------------------------------------
\* The process ends: the requests under way are lost.
Restart ==
    /\ \E r \in Request : pc[r] \notin {"idle", "done"}
    /\ Reopen
    /\ pc' = [r \in Request |-> IF pc[r] = "idle" THEN "idle" ELSE "done"]
    /\ answer' = [r \in Request |->
                     IF pc[r] \in {"idle", "done"} THEN answer[r] ELSE "lost"]
    /\ UNCHANGED <<inputVars, uid, committed>>

Step(r) ==
    \/ UserByEmail(r) \/ CreateSession(r) \/ SessionUserID(r) \/ EndSession(r)
    \/ IsAdmin(r) \/ Notify(r) \/ RecordEvent(r)
    \/ BeginUpdate(r) \/ Closure(r) \/ ApplyChange(r) \/ EndUpdate(r)
    \/ Audit(r)

Next ==
    \/ \E r \in Request :
          \/ Step(r)
          \/ \E u \in User : Login(r, u)
          \/ \E t \in Request : Arrive(r, t)
    \/ Restart

Spec == Init /\ [][Next]_vars

\* Goroutines are scheduled; a goroutine that waits for mu while it is free
\* again and again gets it (sync.Mutex is fair to waiters).
FairSpec == Spec /\ \A r \in Request : WF_vars(Step(r))
----------------------------------------------------------------------------
(* Correctness.                                                            *)

\* A token whose session logout has deleted stays dead: an Update that loaded
\* the sessions before the logout does not bring it back when it replaces the
\* table.
LogoutIsFinal ==
    \A r \in Request :
        kind[r] = "logout" /\ (pc[r] = "audit" \/ answer[r] = "ok")
            => db.sessions[token[r]] = NoUser

Removed(v) == \E r \in committed : kind[r] = "remove" /\ vehicle[r] = v

\* No committed Update is undone by another's replaceAllData: the counter of a
\* vehicle keeps every alert about it, a vehicle created stays unless it is
\* deleted, a member deleted stays away.
CommittedStays ==
    \A r \in committed :
        /\ kind[r] = "alert" /\ vehicle[r] \in snap[r].vehicles
              => r \in db.alerts[vehicle[r]] \/ Removed(vehicle[r])
        /\ kind[r] = "create" => vehicle[r] \in db.vehicles \/ Removed(vehicle[r])
        /\ kind[r] = "delete_member" => subject[r] \notin db.users

\* Concurrent creations get different ids, although the id is computed from
\* a snapshot (the id of a deleted vehicle is given out again).
CreatedOnce ==
    \A q, r \in committed :
        kind[q] = "create" /\ kind[r] = "create" /\ vehicle[q] = vehicle[r]
            => q = r \/ Removed(vehicle[r])

\* A session belongs to a user that exists: a login racing the deletion of
\* its user does not leave one behind.
SessionsHaveUsers == ForeignKeys(db)

\* Alerts are counted after their notification is written, also when the
\* process ends in between.
CountedWasNotified ==
    \A v \in VehicleId : \A r \in db.alerts[v] : <<"notifications", r>> \in log

\* Whatever the requests interleave, and wherever the process ends, the rows
\* change as if each request made its change in one step, on the rows as they
\* were then, at most once, and no other.
A == INSTANCE AtomicStore WITH users <- db.users, sessions <- db.sessions,
         vehicles <- db.vehicles, alerts <- db.alerts, done <- committed
ChangesAreAtomic == A!Spec

\* Every request that arrives is answered, or lost with the process, unless
\* some closure asks isAdmin and waits for the mutex its own Update holds.
RequestsEnd ==
    \A r \in Request :
        pc[r] # "idle" ~>
            pc[r] = "done" \/ \E q \in Request : pc[q] = "is_admin_in_update"

(* The inductive invariant behind the safety properties above.             *)

InUpdate == {"closure", "is_admin_in_update", "change", "replace"}

\* mu is held from loading to replacing, by one request.
HolderInv == \A r \in Request : mu = r <=> pc[r] \in InUpdate

\* Which handler makes which call, and what it has been given.
HandlerInv ==
    \A r \in Request :
        /\ answer[r] # "none" <=> pc[r] = "done"
        /\ pc[r] \in {"idle", "user_by_email", "new_session"} => kind[r] = "login"
        /\ pc[r] \in {"user_by_email", "new_session"} => subject[r] \in User
        /\ pc[r] \in {"session_user_id", "delete_session", "is_admin"}
              => kind[r] # "login"
        /\ pc[r] = "delete_session" => kind[r] = "logout"
        /\ pc[r] = "is_admin" => kind[r] \in {"create", "alert"}
        /\ pc[r] \in {"notify", "event"} => kind[r] = "alert"
        /\ pc[r] \in {"load"} \cup InUpdate => kind[r] \notin {"login", "logout"}
        /\ kind[r] # "login" => kind[token[r]] = "login" /\ answer[token[r]] = "ok"
        /\ kind[r] \in {"alert", "edit", "remove"} => vehicle[r] \in VehicleId

\* Until it is replaced, what was loaded is what is stored.
SnapInv ==
    \A r \in Request :
        /\ pc[r] \in InUpdate \ {"replace"} => snap[r] = db
        /\ pc[r] = "replace" /\ kind[r] # "create" =>
              snap[r] = Changed(kind[r], r, vehicle[r], subject[r], db)
        /\ pc[r] = "replace" /\ kind[r] = "create" =>
              /\ vehicle[r] \in VehicleId \ db.vehicles
              /\ snap[r] = [db EXCEPT !.vehicles = @ \cup {vehicle[r]}]

\* An alert has its notification before it is counted; what is committed is the
\* last change of its request.
LogInv ==
    /\ \A r \in Request :
          kind[r] = "alert" /\ pc[r] \in {"event", "load"} \cup InUpdate
              => <<"notifications", r>> \in log
    /\ \A r \in committed : pc[r] \in {"audit", "done"}

IInv ==
    /\ TypeOK
    /\ HolderInv
    /\ HandlerInv
    /\ SnapInv
    /\ LogInv
    /\ LogoutIsFinal
    /\ CommittedStays
    /\ CreatedOnce
    /\ SessionsHaveUsers
    /\ CountedWasNotified

(* What the comments of the repository claim and the code does not ensure.  *)

\* "Update loads all rows into a Data snapshot, applies fn, then replaces DB
\* contents."
UpdateEnds == \A r \in Request : pc[r] = "closure" ~> mu # r

\* "FOREIGN KEY (user_id) REFERENCES users(id) ON DELETE CASCADE": the
\* sessions of a user that is deleted go with the user.
DeletionCascades ==
    \A r \in Request : kind[r] = "delete_member" => answer[r] # "error"
============================================================================
