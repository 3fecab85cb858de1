----------------------------- MODULE Conference -----------------------------
(***************************************************************************)
(* The signaling service as its clients may think of it: a client enters   *)
(* the conference of one vehicle, once, and there a source and the viewers *)
(* are made known to each other, exchange messages and leave.  There is no *)
(* hub, no room, no slot and no snapshot of viewers.                       *)
(***************************************************************************)
CONSTANTS Conn, Sources, Viewers, Vehicle, NoVehicle, Access

VARIABLES
    place,  \* the vehicle whose conference each client entered
    stage,  \* out of the conference, in it, leaving it, or gone for good
    knows,  \* the viewers a source has been told of
    heard,  \* whose messages a client has received
    shown   \* the stream status a viewer has been told

vars == <<place, stage, knows, heard, shown>>

Init ==
    /\ place = [c \in Conn |-> NoVehicle]
    /\ stage = [c \in Conn |-> "out"]
    /\ knows = [c \in Conn |-> {}]
    /\ heard = [c \in Conn |-> {}]
    /\ shown = [c \in Conn |-> "none"]

Present(c) == stage[c] \in {"in", "leaving"}

\* Both have entered, the same conference.
Meet(p, w) ==
    /\ place[p] = place[w]
    /\ stage[p] # "out" /\ stage[w] # "out"

\* c alone goes on to another stage.
Go(c) == stage' = [stage EXCEPT ![c] = stage'[c]]

Enter(c, v) ==
    /\ v \in Access[c]
    /\ stage[c] = "out" /\ stage'[c] = "in"
    /\ Go(c)
    /\ place' = [place EXCEPT ![c] = v]
    /\ UNCHANGED <<knows, heard, shown>>

\* The news of a viewer may reach the source late, when the viewer is gone.
Introduce(p, w) ==
    /\ Present(p) /\ Meet(p, w)
    /\ knows' = [knows EXCEPT ![p] = @ \cup {w}]
    /\ UNCHANGED <<place, stage, heard, shown>>

\* Nobody but a viewer on its way out is taken off a source's list.
Forget(p, w) ==
    /\ Present(p) /\ stage[w] = "leaving" /\ place[p] = place[w]
    /\ knows' = [knows EXCEPT ![p] = @ \ {w}]
    /\ UNCHANGED <<place, stage, heard, shown>>

Relay(c, d) ==
    /\ stage[c] = "in" /\ Present(d) /\ place[c] = place[d]
    /\ heard' = [heard EXCEPT ![d] = @ \cup {c}]
    /\ UNCHANGED <<place, stage, knows, shown>>

Show(w, status) ==
    /\ Present(w)
    /\ status = "live" => \E p \in Sources : Meet(p, w)
    /\ shown' = [shown EXCEPT ![w] = status]
    /\ UNCHANGED <<place, stage, knows, heard>>

Leave(c) ==
    /\ stage[c] = "in" /\ stage'[c] = "leaving"
    /\ Go(c)
    /\ UNCHANGED <<place, knows, heard, shown>>

End(c) ==
    /\ stage[c] # "gone" /\ stage'[c] = "gone"
    /\ Go(c)
    /\ knows' = [knows EXCEPT ![c] = {}]
    /\ heard' = [heard EXCEPT ![c] = {}]
    /\ shown' = [shown EXCEPT ![c] = "none"]
    /\ UNCHANGED place

Next ==
    \/ \E c \in Conn, v \in Vehicle : Enter(c, v)
    \/ \E p \in Sources, w \in Viewers :
          Introduce(p, w) \/ Forget(p, w) \/ Relay(p, w) \/ Relay(w, p)
    \/ \E w \in Viewers, status \in {"live", "offline"} : Show(w, status)
    \/ \E c \in Conn : Leave(c) \/ End(c)

Spec == Init /\ [][Next]_vars
=============================================================================
