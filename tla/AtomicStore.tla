---------------------------- MODULE AtomicStore ----------------------------
(***************************************************************************)
(* The store as its handlers imagine it: the rows change in one step for   *)
(* each request, by what the request is for and nothing else, and at most  *)
(* once.  No snapshot, no mutex, no transaction, no restart.               *)
(***************************************************************************)
CONSTANTS
    Request,
    User,
    NoUser,
    VehicleId

VARIABLES
    users,     \* the accounts there are
    sessions,  \* whose session the login of a request has begun
    vehicles,
    alerts,    \* the requests counted in the alert counter of a vehicle
    done       \* requests that have changed what they are for

vars == <<users, sessions, vehicles, alerts, done>>

NoSession == [t \in Request |-> NoUser]

Init ==
    /\ users = User
    /\ sessions = NoSession
    /\ vehicles \subseteq VehicleId
    /\ alerts = [v \in VehicleId |-> {}]
    /\ done = {}

Once(r) == r \notin done /\ done' = done \cup {r}

LogIn(r, u) ==
    /\ Once(r)
    /\ u \in users
    /\ sessions' = [sessions EXCEPT ![r] = u]
    /\ UNCHANGED <<users, vehicles, alerts>>

LogOut(r, t) ==
    /\ Once(r)
    /\ sessions' = [sessions EXCEPT ![t] = NoUser]
    /\ UNCHANGED <<users, vehicles, alerts>>

AddVehicle(r, v) ==
    /\ Once(r)
    /\ v \notin vehicles
    /\ vehicles' = vehicles \cup {v}
    /\ UNCHANGED <<users, sessions, alerts>>

RemoveVehicle(r, v) ==
    /\ Once(r)
    /\ vehicles' = vehicles \ {v}
    /\ alerts' = [alerts EXCEPT ![v] = {}]
    /\ UNCHANGED <<users, sessions>>

\* An alert about a vehicle that is gone is not counted.
CountAlert(r, v) ==
    /\ Once(r)
    /\ alerts' = IF v \in vehicles THEN [alerts EXCEPT ![v] = @ \cup {r}] ELSE alerts
    /\ UNCHANGED <<users, sessions, vehicles>>

\* Only somebody who has no session is deleted.
DeleteUser(r, u) ==
    /\ Once(r)
    /\ \A t \in Request : sessions[t] # u
    /\ users' = users \ {u}
    /\ UNCHANGED <<sessions, vehicles, alerts>>

\* The columns an edit assigns are not kept.
Edit(r) == Once(r) /\ UNCHANGED <<users, sessions, vehicles, alerts>>

Next ==
    \E r \in Request :
        \/ \E u \in User : LogIn(r, u) \/ DeleteUser(r, u)
        \/ \E t \in Request : LogOut(r, t)
        \/ \E v \in VehicleId :
              AddVehicle(r, v) \/ RemoveVehicle(r, v) \/ CountAlert(r, v)
        \/ Edit(r)

Spec == Init /\ [][Next]_vars
============================================================================
