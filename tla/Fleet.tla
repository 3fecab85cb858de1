------------------------------- MODULE Fleet -------------------------------
(***************************************************************************)
(* The rest of the tables that Store.Update rewrites, and the handlers     *)
(* that change them: signup, login, logout, team members, fleets,          *)
(* dashboard settings, drivers, devices, manufacturing, installation.      *)
(*                                                                         *)
(* Store.mu serializes Updates, so that a whole Update is one step here;   *)
(* what a handler learned from an earlier call may be stale by then.  Ids  *)
(* are one more than the largest in the table: the id of a deleted newest  *)
(* row is given out again.  What a request says is chosen where it is used. *)
(* Columns that no handler decides by (names, passwords, the device and    *)
(* driver of a vehicle) are left out, and so are calls that only fill the  *)
(* answer.                                                                 *)
(***************************************************************************)
EXTENDS FiniteSets, Functions, Integers

CONSTANTS
    Request,     \* HTTP requests, each served by a goroutine of its own
    OldToken,    \* a session of an earlier run of the server
    SeedAdmin, SeedOwner,  \* the two accounts of seedData
    Email,
    NoEmail,
    NotYet, Over,          \* of Accounts
    Role,        \* what users.role may be
    Kinds,       \* the handlers clients call
    MaxUser, MaxDevice, MaxDriver, MaxVehicle  \* bounds on ids

Token == Request \cup {OldToken}
Account == Request \cup {SeedAdmin, SeedOwner}
UserId == 1 .. MaxUser
DeviceId == 1 .. MaxDevice
DriverId == 1 .. MaxDriver
VehicleId == 1 .. MaxVehicle

AllKinds == {"signup", "login", "logout", "create_account", "edit_self",
             "edit_member", "delete_member", "edit_fleet", "delete_fleet",
             "save_prefs", "create_driver", "create_device", "create_batch",
             "link_device", "assign_install", "install_vehicle",
             "create_vehicle", "assign_device", "change_device",
             "change_driver", "change_face", "change_vehicle"}

ASSUME FleetAssumption ==
    /\ OldToken \notin Request
    /\ SeedAdmin # SeedOwner
    /\ {SeedAdmin, SeedOwner} \cap Request = {}
    /\ NoEmail \notin Email
    /\ {NotYet, Over} \cap (Account \cup Email) = {}
    /\ NotYet # Over
    /\ {"admin", "fleet_owner"} \subseteq Role
    /\ Kinds \subseteq AllKinds
    /\ MaxUser \in Nat \ {0, 1}
    /\ MaxDevice \in Nat \ {0}
    /\ MaxDriver \in Nat \ {0}
    /\ MaxVehicle \in Nat \ {0, 1}

VARIABLES
    users, sessions, prefs, devices, drivers, vehicles,  \* committed rows
    pc,      \* the next call of each request
    kind,    \* its handler
    local,   \* the variables of its goroutine
    answer,  \* what the client got
    made,    \* the devices its closure created
    opened,  \* accounts inserted so far (history)
    issued   \* tokens inserted so far (history)

tables == <<users, sessions, prefs, devices, drivers, vehicles>>
history == <<opened, issued>>
vars == <<tables, pc, kind, local, answer, made, history>>

\* owner is 0 for NULL.  account is not a column: it tells apart the rows that
\* bear an id one after the other.
User == [email : Email, role : Role, account : Account]
Device == [owner : {0} \cup UserId,
           state : {"manufactured", "assigned", "provisioned", "installed"}]

\* owner is the user a request acts for: who bears its token, or whom it names.
\* account (history) is who logged in, or signed up, with this request.
Local == [email : Email \cup {NoEmail}, owner : {0} \cup UserId,
          device : {0} \cup DeviceId, token : Token,
          account : Account \cup {NotYet}]
Unset(r) == [email |-> NoEmail, owner |-> 0, device |-> 0, token |-> r,
             account |-> NotYet]

Calls == {"idle", "auth", "lookup", "append", "reread", "session",
          "delete_session", "admin", "view", "update", "stuck", "audit",
          "done"}
Answers == {"none", "ok", "unauthorized", "bad_request", "forbidden",
            "not_found", "conflict", "error", "lost"}

IsPartial(f, S, T) == DOMAIN f \subseteq S /\ f \in [DOMAIN f -> T]

TypeOK ==
    /\ IsPartial(users, UserId, User)
    /\ IsPartial(sessions, Token, UserId)
    /\ prefs \subseteq UserId
    /\ IsPartial(devices, DeviceId, Device)
    /\ IsPartial(drivers, DriverId, {0} \cup UserId)
    /\ IsPartial(vehicles, VehicleId, {0} \cup UserId)
    /\ pc \in [Request -> Calls]
    /\ kind \in [Request -> AllKinds]
    /\ local \in [Request -> Local]
    /\ answer \in [Request -> Answers]
    /\ made \in [Request -> SUBSET DeviceId]
    /\ opened \subseteq Account
    /\ issued \subseteq Token

Put(f, x, v) == [y \in DOMAIN f \cup {x} |-> IF y = x THEN v ELSE f[y]]
Without(f, S) == Restrict(f, DOMAIN f \ S)

\* loadAllData's Next..ID, and SQLite's rowid: one more than the largest.
NextId(id, f) ==
    /\ \A x \in DOMAIN f : x < id
    /\ id = 1 \/ id - 1 \in DOMAIN f

\* seedData, and a session of the admin from an earlier run.
Init ==
    /\ \E e, f \in Email :
          /\ e # f
          /\ users = [u \in {1, 2} |->
                IF u = 1
                THEN [email |-> e, role |-> "admin", account |-> SeedAdmin]
                ELSE [email |-> f, role |-> "fleet_owner", account |-> SeedOwner]]
    /\ sessions = [t \in {OldToken} |-> 1]
    /\ prefs \in SUBSET {1, 2}
    /\ devices = [d \in {1} |-> [owner |-> 2, state |-> "manufactured"]]
    /\ drivers = [d \in {1} |-> 2]
    /\ vehicles = [v \in {1, 2} |-> 2]
    /\ pc = [r \in Request |-> "idle"]
    /\ kind = [r \in Request |-> "login"]
    /\ local = [r \in Request |-> Unset(r)]
    /\ answer = [r \in Request |-> "none"]
    /\ made = [r \in Request |-> {}]
    /\ opened = {SeedAdmin, SeedOwner}
    /\ issued = {OldToken}

----------------------------------------------------------------------------
(* What every call of the store has in common.                             *)

\* Store.mu is free unless a closure waits for the mutex its Update holds.
Free == \A r \in Request : pc[r] # "stuck"

Goto(r, from, to) ==
    /\ pc[r] = from
    /\ pc' = [pc EXCEPT ![r] = to]

\* The goroutine ends.
Answer(r, a) ==
    /\ pc' = [pc EXCEPT ![r] = "done"]
    /\ answer' = [answer EXCEPT ![r] = a]
    /\ local' = [local EXCEPT ![r] = Unset(r)]

\* Variant: the foreign keys are not enforced.
AcceptedUnreferenced(us, ps) ==
    \A u, v \in DOMAIN us : us[u].email = us[v].email => u = v

\* The constraints of applySchema: users.email UNIQUE, and the foreign keys
\* of sessions and dashboard_prefs.
Accepted(us, ps) ==
    /\ \A u, v \in DOMAIN us : us[u].email = us[v].email => u = v
    /\ \A t \in DOMAIN sessions : sessions[t] \in DOMAIN us
    /\ ps \subseteq DOMAIN us

\* replaceAllData: all the new rows, or none.
Replace(us, ps, dv, dr, vs, ok) ==
    /\ ok <=> Accepted(us, ps)
    /\ users' = IF ok THEN us ELSE users
    /\ prefs' = IF ok THEN ps ELSE prefs
    /\ devices' = IF ok THEN dv ELSE devices
    /\ drivers' = IF ok THEN dr ELSE drivers
    /\ vehicles' = IF ok THEN vs ELSE vehicles
    /\ UNCHANGED sessions

\* The closure has made these rows; error is what the client gets when they
\* are refused.
Commit(r, us, ps, dv, dr, vs, error) ==
    \E ok \in BOOLEAN :
        /\ Replace(us, ps, dv, dr, vs, ok)
        /\ IF ok THEN Goto(r, "update", "audit") /\ UNCHANGED <<answer, local>>
                 ELSE Answer(r, error)

\* The closure returns ErrNotFound.
GiveUp(r, a) == Answer(r, a) /\ UNCHANGED tables

----------------------------------------------------------------------------
(* Requests arrive, and are authenticated.                                 *)

FirstCall(k) ==
    CASE k = "logout" -> "delete_session"
      [] k \in {"create_account", "assign_install"} -> "lookup"
      [] k \in {"edit_fleet", "delete_fleet", "create_driver", "create_device",
                "create_vehicle", "assign_device"} -> "admin"
      [] k = "install_vehicle" -> "view"
      [] OTHER -> "update"

\* Handlers whose request names an address.
Addressed == {"signup", "login", "create_account", "assign_install"}

Arrive(r, k, e) ==
    /\ k \in Kinds
    /\ Goto(r, "idle", IF k \in {"signup", "login"} THEN "lookup" ELSE "auth")
    /\ kind' = [kind EXCEPT ![r] = k]
    /\ local' = [local EXCEPT ![r].email = IF k \in Addressed THEN e ELSE NoEmail]
    /\ UNCHANGED <<tables, answer, made, history>>

\* Tokens clients have been given.
Given(t) ==
    \/ t = OldToken
    \/ t \in Request /\ kind[t] \in {"signup", "login"} /\ answer[t] = "ok"

\* requireAuth; logout goes on without a user.
Authenticate(r, t) ==
    /\ Free
    /\ Given(t)
    /\ pc[r] = "auth"
    /\ \/ /\ t \in DOMAIN sessions
          /\ Goto(r, "auth", FirstCall(kind[r]))
          /\ local' = [local EXCEPT ![r].owner = sessions[t],
                                    ![r].token = IF kind[r] = "logout" THEN t ELSE @]
          /\ UNCHANGED answer
       \/ /\ t \notin DOMAIN sessions /\ kind[r] = "logout"
          /\ Goto(r, "auth", "delete_session")
          /\ local' = [local EXCEPT ![r].token = t]
          /\ UNCHANGED answer
       \/ /\ t \notin DOMAIN sessions /\ kind[r] # "logout"
          /\ Answer(r, "unauthorized")
    /\ UNCHANGED <<tables, kind, made, history>>

EndSession(r) ==
    /\ Free
    /\ pc[r] = "delete_session"
    /\ sessions' = Without(sessions, {local[r].token})
    /\ IF local[r].owner # 0
       THEN Goto(r, "delete_session", "audit") /\ UNCHANGED <<answer, local>>
       ELSE Answer(r, "ok")
    /\ UNCHANGED <<users, prefs, devices, drivers, vehicles, kind, made, history>>

----------------------------------------------------------------------------
(* Accounts: an address is looked up, the row is inserted, and looked up   *)
(* again for its id.                                                       *)

HasEmail(u, e) == u \in DOMAIN users /\ users[u].email = e
Registered(e) == \E u \in UserId : HasEmail(u, e)

\* UserByEmail.  Whoever logs in knows the password.
LookUp(r) ==
    /\ Free
    /\ pc[r] = "lookup"
    /\ \/ /\ kind[r] \in {"signup", "create_account"}
          /\ ~Registered(local[r].email)
          /\ Goto(r, "lookup", "append")
          /\ UNCHANGED <<answer, local>>
       \/ /\ kind[r] \in {"signup", "create_account"}
          /\ Registered(local[r].email)
          /\ Answer(r, "conflict")
       \/ /\ kind[r] \in {"login", "assign_install"}
          /\ \E u \in UserId :
                /\ HasEmail(u, local[r].email)
                /\ local' = [local EXCEPT ![r].owner = u,
                      ![r].account = IF kind[r] = "login" THEN users[u].account ELSE @]
          /\ Goto(r, "lookup", IF kind[r] = "login" THEN "session" ELSE "update")
          /\ UNCHANGED answer
       \/ /\ kind[r] \in {"login", "assign_install"}
          /\ ~Registered(local[r].email)
          /\ Answer(r, IF kind[r] = "login" THEN "unauthorized" ELSE "not_found")
    /\ UNCHANGED <<tables, kind, made, history>>

\* Variant: the handler has looked the address up, so the row is inserted.
AppendAnyUser(r) ==
    /\ Free
    /\ pc[r] = "append"
    /\ \E u \in UserId, role \in Role :
          /\ NextId(u, users)
          /\ users' = Put(users, u, [email |-> local[r].email, role |-> role,
                                     account |-> r])
    /\ opened' = opened \cup {r}
    /\ Goto(r, "append", "reread")
    /\ UNCHANGED <<sessions, prefs, devices, drivers, vehicles, kind, local,
                   answer, made, issued>>

\* AppendUser: one INSERT, refused when the address is in use.
AppendUser(r) ==
    /\ Free
    /\ pc[r] = "append"
    /\ \/ /\ ~Registered(local[r].email)
          /\ \E u \in UserId, role \in Role :
                /\ NextId(u, users)
                /\ users' = Put(users, u, [email |-> local[r].email, role |-> role,
                                           account |-> r])
          /\ opened' = opened \cup {r}
          /\ Goto(r, "append", "reread")
          /\ UNCHANGED <<answer, local>>
       \/ /\ Registered(local[r].email)
          /\ Answer(r, "error")
          /\ UNCHANGED <<users, opened>>
    /\ UNCHANGED <<sessions, prefs, devices, drivers, vehicles, kind, made, issued>>

\* UserByEmail again; the zero User when the row is gone meanwhile.
Reread(r) ==
    /\ Free
    /\ \E u \in {0} \cup UserId :
          /\ IF Registered(local[r].email) THEN HasEmail(u, local[r].email)
                                           ELSE u = 0
          /\ local' = [local EXCEPT ![r].owner = u, ![r].account = r]
    /\ Goto(r, "reread", IF kind[r] = "signup" THEN "session" ELSE "audit")
    /\ UNCHANGED <<tables, kind, answer, made, history>>

\* Variant: the user found is kept in a variable that requests share.
NewSessionShared(r) ==
    /\ Free
    /\ pc[r] = "session"
    /\ \E q \in Request :
          /\ pc[q] = "session" /\ local[q].owner \in DOMAIN users
          /\ sessions' = Put(sessions, r, local[q].owner)
    /\ issued' = issued \cup {r}
    /\ Goto(r, "session", "audit")
    /\ UNCHANGED <<users, prefs, devices, drivers, vehicles, kind, local,
                   answer, made, opened>>

NewSession(r) ==
    /\ Free
    /\ pc[r] = "session"
    /\ \/ /\ local[r].owner \in DOMAIN users
          /\ sessions' = Put(sessions, r, local[r].owner)
          /\ issued' = issued \cup {r}
          /\ Goto(r, "session", "audit")
          /\ UNCHANGED <<answer, local>>
       \/ /\ local[r].owner \notin DOMAIN users
          /\ Answer(r, "error")
          /\ UNCHANGED <<sessions, issued>>
    /\ UNCHANGED <<users, prefs, devices, drivers, vehicles, kind, made, opened>>

----------------------------------------------------------------------------
(* Members, fleets, settings.                                              *)

IsAdminUser(u) == u \in DOMAIN users /\ users[u].role = "admin"

\* isAdmin, with the owner an admin may name instead of himself, real or not; a
\* vehicle of an admin has none unless one is named.
IsAdmin(r) ==
    /\ Free
    /\ pc[r] = "admin"
    /\ \/ /\ kind[r] \in {"edit_fleet", "delete_fleet"}
          /\ ~IsAdminUser(local[r].owner)
          /\ Answer(r, "forbidden")
       \/ /\ kind[r] \in {"edit_fleet", "delete_fleet"} => IsAdminUser(local[r].owner)
          /\ Goto(r, "admin", "update")
          /\ UNCHANGED <<answer, local>>
       \/ /\ kind[r] \in {"create_driver", "create_device", "create_vehicle"}
          /\ IsAdminUser(local[r].owner)
          /\ Goto(r, "admin", "update")
          /\ \E u \in {0} \cup UserId : local' = [local EXCEPT ![r].owner = u]
          /\ UNCHANGED answer
    /\ UNCHANGED <<tables, kind, made, history>>

Updating(r, k) == Free /\ pc[r] = "update" /\ kind[r] = k

\* handleUpdateProfile and handleUpdatePassword: columns nobody reads; no audit.
EditSelf(r) ==
    /\ Updating(r, "edit_self")
    /\ IF local[r].owner \in DOMAIN users
       THEN \E ok \in BOOLEAN :
               /\ Replace(users, prefs, devices, drivers, vehicles, ok)
               /\ Answer(r, IF ok THEN "ok" ELSE "error")
       ELSE GiveUp(r, "error")
    /\ UNCHANGED <<kind, made, history>>

\* handleUpdateTeamMember with any role, and handleUpdatePasswordForUser.
EditMember(r) ==
    /\ Updating(r, "edit_member")
    /\ \E u \in UserId, role \in Role :
          IF u \in DOMAIN users
          THEN Commit(r, [users EXCEPT ![u].role = role], prefs, devices, drivers,
                      vehicles, "not_found")
          ELSE GiveUp(r, "not_found")
    /\ UNCHANGED <<kind, made, history>>

\* handleDeleteTeamMember of anybody but oneself; the rest stays.
DeleteMember(r) ==
    /\ Updating(r, "delete_member")
    /\ \E u \in UserId :
          IF u = local[r].owner THEN GiveUp(r, "bad_request")
          ELSE IF u \in DOMAIN users
          THEN Commit(r, Without(users, {u}), prefs, devices, drivers, vehicles,
                      "not_found")
          ELSE GiveUp(r, "not_found")
    /\ UNCHANGED <<kind, made, history>>

IsFleet(u) == u \in DOMAIN users /\ users[u].role = "fleet_owner"

\* Variant: a request that names no address empties the column.
EditFleetBlank(r) ==
    /\ Updating(r, "edit_fleet")
    /\ \E u \in UserId, e \in Email \cup {NoEmail} :
          IF IsFleet(u)
          THEN Commit(r, [users EXCEPT ![u].email = e], prefs, devices, drivers,
                      vehicles, "error")
          ELSE GiveUp(r, "not_found")
    /\ UNCHANGED <<kind, made, history>>

\* handleEditFleet: the address may be anybody's.
EditFleet(r) ==
    /\ Updating(r, "edit_fleet")
    /\ \E u \in UserId, e \in Email :
          IF IsFleet(u)
          THEN Commit(r, [users EXCEPT ![u].email = e], prefs, devices, drivers,
                      vehicles, "error")
          ELSE GiveUp(r, "not_found")
    /\ UNCHANGED <<kind, made, history>>

OwnedBy(rows, u) == {x \in DOMAIN rows : rows[x] = u}

\* Variant: the fleet's devices go like its vehicles.
DeleteFleetAndDevices(r) ==
    /\ Updating(r, "delete_fleet")
    /\ \E u \in UserId :
          IF IsFleet(u)
          THEN Commit(r, Without(users, {u}), prefs,
                      Without(devices, {d \in DOMAIN devices : devices[d].owner = u}),
                      Without(drivers, OwnedBy(drivers, u)),
                      Without(vehicles, OwnedBy(vehicles, u)),
                      "error")
          ELSE GiveUp(r, "not_found")
    /\ UNCHANGED <<kind, made, history>>

\* handleDeleteFleet: the fleet's vehicles and drivers go, its devices are freed.
DeleteFleet(r) ==
    /\ Updating(r, "delete_fleet")
    /\ \E u \in UserId :
          IF IsFleet(u)
          THEN Commit(r, Without(users, {u}), prefs,
                      [d \in DOMAIN devices |->
                          IF devices[d].owner = u
                          THEN [owner |-> 0, state |-> "manufactured"]
                          ELSE devices[d]],
                      Without(drivers, OwnedBy(drivers, u)),
                      Without(vehicles, OwnedBy(vehicles, u)),
                      "error")
          ELSE GiveUp(r, "not_found")
    /\ UNCHANGED <<kind, made, history>>

\* handlePutDashboardSettings.
SavePrefs(r) ==
    /\ Updating(r, "save_prefs")
    /\ Commit(r, users, prefs \cup {local[r].owner}, devices, drivers, vehicles,
              "error")
    /\ UNCHANGED <<kind, made, history>>
----------------------------------------------------------------------------
(* Drivers, devices, vehicles.                                             *)

CreateDriver(r) ==
    /\ Updating(r, "create_driver")
    /\ \E d \in DriverId :
          /\ NextId(d, drivers)
          /\ Commit(r, users, prefs, devices, Put(drivers, d, local[r].owner),
                    vehicles, "error")
    /\ UNCHANGED <<kind, made, history>>

\* What Update returns is ignored: the client is told of the device anyway.
CreateDevice(r) ==
    /\ Updating(r, "create_device")
    /\ \E d \in DeviceId, ok \in BOOLEAN :
          /\ NextId(d, devices)
          /\ Replace(users, prefs,
                     Put(devices, d, [owner |-> local[r].owner,
                                      state |-> "manufactured"]),
                     drivers, vehicles, ok)
          /\ made' = [made EXCEPT ![r] = {d}]
    /\ Goto(r, "update", "audit")
    /\ UNCHANGED <<kind, local, answer, history>>

\* handleCreateManufacturingBatch.
CreateBatch(r) ==
    /\ Updating(r, "create_batch")
    /\ \E first, last \in DeviceId :
          /\ first <= last
          /\ NextId(first, devices)
          /\ Commit(r, users, prefs,
                    [d \in DOMAIN devices \cup (first .. last) |->
                        IF d \in DOMAIN devices THEN devices[d]
                        ELSE [owner |-> 0, state |-> "manufactured"]],
                    drivers, vehicles, "error")
          /\ made' = [made EXCEPT ![r] = first .. last]
    /\ UNCHANGED <<kind, history>>

\* handleManufacturingLinkDevice, handleInstallationAssignDevice: an owner
\* looked up before is not looked up again.
AssignInstalled(r, k, state) ==
    /\ Updating(r, k)
    /\ \E d \in DeviceId :
          IF d \in DOMAIN devices
          THEN Commit(r, users, prefs,
                      [devices EXCEPT ![d] =
                          [owner |-> IF k = "link_device" THEN @.owner
                                     ELSE local[r].owner,
                           state |-> state]],
                      drivers, vehicles, "not_found")
          ELSE GiveUp(r, "not_found")
    /\ UNCHANGED <<kind, made, history>>

LinkDevice(r) == AssignInstalled(r, "link_device", "provisioned")
AssignInstall(r) == AssignInstalled(r, "assign_install", "assigned")

\* handleInstallationCreateVehicle reads the device and its owner in one call ...
View(r) ==
    /\ Free
    /\ \/ \E d \in DOMAIN devices :
             local' = [local EXCEPT ![r].device = d,
                                    ![r].owner = IF devices[d].owner = 0 THEN @
                                                 ELSE devices[d].owner]
       \/ UNCHANGED local
    /\ Goto(r, "view", "update")
    /\ UNCHANGED <<tables, kind, answer, made, history>>

\* ... and installs it in another.
InstallVehicle(r) ==
    /\ Updating(r, "install_vehicle")
    /\ \E v \in VehicleId :
          /\ NextId(v, vehicles)
          /\ Commit(r, users, prefs,
                    [x \in DOMAIN devices |->
                        IF x = local[r].device
                        THEN [devices[x] EXCEPT !.state = "installed"]
                        ELSE devices[x]],
                    drivers,
                    Put(vehicles, v, local[r].owner),
                    "error")
    /\ UNCHANGED <<kind, made, history>>

\* handleCreateVehicle.
CreateVehicle(r) ==
    /\ Updating(r, "create_vehicle")
    /\ \E v \in VehicleId :
          /\ NextId(v, vehicles)
          /\ Commit(r, users, prefs, devices, drivers,
                    Put(vehicles, v, local[r].owner),
                    "error")
    /\ UNCHANGED <<kind, made, history>>

\* A closure that asks isAdmin, once it has found the row, waits for the mutex
\* its own Update holds, for ever.
AskWithin(r, k, rows, ids) ==
    /\ Updating(r, k)
    /\ \E x \in ids :
          IF x \in DOMAIN rows
          THEN Goto(r, "update", "stuck") /\ UNCHANGED <<tables, local, answer>>
          ELSE GiveUp(r, "not_found")
    /\ UNCHANGED <<kind, made, history>>

\* Editing, deleting, transferring a driver; registering and deleting a face.
ChangeDriver(r) == AskWithin(r, "change_driver", drivers, DriverId)
FaceOfDriver(r) == AskWithin(r, "change_face", drivers, DriverId)
\* Unassigning and deleting a device.
ChangeDevice(r) == AskWithin(r, "change_device", devices, DeviceId)
AssignDevice(r) == AskWithin(r, "assign_device", devices, DeviceId)
\* Editing and deleting a vehicle.
ChangeVehicle(r) == AskWithin(r, "change_vehicle", vehicles, VehicleId)

----------------------------------------------------------------------------
\* recordAudit, then the answer.
Audit(r) ==
    /\ Free
    /\ pc[r] = "audit"
    /\ Answer(r, "ok")
    /\ UNCHANGED <<tables, kind, made, history>>

\* The process ends and is started again on the same file.
Restart ==
    /\ \E r \in Request : pc[r] \notin {"idle", "done"}
    /\ pc' = [r \in Request |-> IF pc[r] = "idle" THEN "idle" ELSE "done"]
    /\ answer' = [r \in Request |->
                     IF pc[r] \in {"idle", "done"} THEN answer[r] ELSE "lost"]
    /\ local' = [r \in Request |-> Unset(r)]
    /\ UNCHANGED <<tables, kind, made, history>>

Step(r) ==
    \/ \E t \in Token : Authenticate(r, t)
    \/ EndSession(r) \/ LookUp(r) \/ AppendUser(r) \/ Reread(r)
    \/ NewSession(r) \/ IsAdmin(r)
    \/ EditSelf(r) \/ EditMember(r) \/ DeleteMember(r)
    \/ EditFleet(r) \/ DeleteFleet(r) \/ SavePrefs(r)
    \/ CreateDriver(r) \/ CreateDevice(r) \/ CreateBatch(r)
    \/ LinkDevice(r) \/ AssignInstall(r) \/ View(r) \/ InstallVehicle(r)
    \/ CreateVehicle(r)
    \/ ChangeDriver(r) \/ FaceOfDriver(r) \/ ChangeDevice(r) \/ AssignDevice(r)
    \/ ChangeVehicle(r) \/ Audit(r)

Next ==
    \/ \E r \in Request : Step(r) \/ (\E k \in Kinds, e \in Email : Arrive(r, k, e))
    \/ Restart

Spec == Init /\ [][Next]_vars
----------------------------------------------------------------------------
(* Correctness.                                                            *)

\* The accounts and sessions in the tables, seen as those of Accounts.
AddressIn(us, op) ==
    [a \in Account |->
        IF \E u \in DOMAIN us : us[u].account = a
        THEN us[CHOOSE u \in DOMAIN us : us[u].account = a].email
        ELSE IF a \in op THEN Over ELSE NotYet]
HolderIn(us, ss, is) ==
    [t \in Token |->
        IF t \in DOMAIN ss THEN us[ss[t]].account
        ELSE IF t \in is THEN Over ELSE NotYet]

address == AddressIn(users, opened)
holder == HolderIn(users, sessions, issued)

A == INSTANCE Accounts WITH address <- address, holder <- holder

\* Handlers that look an address up and insert or change the row later, and
\* ids that are given out again, keep what Accounts promises: no two accounts
\* share an address, no session outlives its account or passes to another.
KeepsAccounts == A!Spec

\* Once a user has saved settings, no other account comes to bear the id: they
\* are never shown to somebody else.
SettingsNotInherited ==
    [][\A u \in prefs :
          u \in DOMAIN users' /\ users'[u].account = users[u].account]_vars

\* A device a client has been told of exists, and no other client has been
\* told of the same one: ids are computed from the rows that are left.
DeviceKept ==
    \A r \in Request : answer[r] = "ok" =>
        /\ made[r] \subseteq DOMAIN devices
        /\ \A q \in Request \ {r} : made[q] \cap made[r] = {}

\* The account's row has been deleted.
Gone(a) == \A u \in DOMAIN users : users[u].account # a

\* A login looks the account up in one call and begins the session in another,
\* for the id it found.  The client is given a session that exists, and it is
\* the session of the account that logged in unless that account was deleted
\* in between: nothing else, not even a change of its address or its role,
\* makes the session somebody else's.
SessionIsOnesOwn ==
    \A r \in Request : pc[r] = "audit" /\ kind[r] = "login" =>
        /\ r \in DOMAIN sessions
        /\ \/ users[sessions[r]].account = local[r].account
           \/ Gone(local[r].account)

(* The inductive invariant behind these properties.                        *)

\* Calls up to the one that opens an account, or begins a session.
Unopened == {"idle", "auth", "lookup", "append"}
Unissued == Unopened \cup {"reread", "session"}

\* Every account has one row at most, every request opens one account and gets
\* one session at most.
AccountInv ==
    /\ \A u, v \in DOMAIN users : users[u].account = users[v].account => u = v
    /\ \A u \in DOMAIN users : users[u].account \in opened
    /\ DOMAIN sessions \subseteq issued
    /\ \A r \in Request :
          /\ pc[r] \in Unopened => r \notin opened
          /\ pc[r] \in Unissued => r \notin issued

\* Whoever looks an address up, or inserts it, has been given one.
EmailInv ==
    \A r \in Request :
        pc[r] \in {"lookup", "append"} \/ (pc[r] = "auth" /\ kind[r] \in Addressed)
            => local[r].email \in Email

MadeInv ==
    /\ \A r \in Request : made[r] \subseteq DOMAIN devices
    /\ \A q, r \in Request : q # r => made[q] \cap made[r] = {}

IInv ==
    /\ TypeOK
    /\ Accepted(users, prefs)
    /\ AccountInv
    /\ EmailInv
    /\ MadeInv

(* Inductive together with IInv: why SessionIsOnesOwn holds.               *)

\* An account that is gone does not come back, and the row of one that is not
\* bears the id a login has found.
LookedUpInv ==
    \A r \in Request : kind[r] = "login" /\ pc[r] \in {"session", "audit"} =>
        local[r].account \in opened
FoundInv ==
    \A r \in Request : kind[r] = "login" /\ pc[r] = "session" =>
        \/ /\ local[r].owner \in DOMAIN users
           /\ users[local[r].owner].account = local[r].account
        \/ Gone(local[r].account)

\* A token is not used before its client has been given it.
GivenInv ==
    /\ \A r \in Request : answer[r] # "none" => pc[r] = "done"
    /\ \A q, r \in Request :
          pc[q] = "delete_session" /\ local[q].token = r => pc[r] = "done"

\* The calls of a login.
LoginCallsInv ==
    \A r \in Request : kind[r] = "login" =>
        pc[r] \in {"idle", "lookup", "session", "audit", "done"}

LoginInv == LoginCallsInv /\ LookedUpInv /\ FoundInv /\ GivenInv /\ SessionIsOnesOwn

(* What the repository claims and the code does not ensure.                *)

\* "Session access_token from login": whoever logs in is given a session of his
\* own.
LoginIsOnesOwn ==
    \A r \in Request : pc[r] = "audit" /\ kind[r] = "login" =>
        LET row == users[sessions[r]]
        IN  row.account = local[r].account \/ row.email = local[r].email
============================================================================
