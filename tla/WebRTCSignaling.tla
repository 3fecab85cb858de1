-------------------------- MODULE WebRTCSignaling --------------------------
(***************************************************************************)
(* The signaling handler (runWebRTCSignaling in handlers_webrtc.go): one   *)
(* goroutine per WebSocket connection, all sharing the hub and the rooms   *)
(* of WebRTCRooms.  pc[c] is where the goroutine of c stands between two   *)
(* critical sections; handle, vehicle and todo are its local variables.    *)
(*                                                                         *)
(* Messages to a client go through its outgoing channel, first in first    *)
(* out, and the client sees exactly what is queued there.  So instead of   *)
(* the channel the model keeps what its contents add up to: shown[v], the  *)
(* last stream status queued for viewer v, told[p], the viewers source p   *)
(* has been told of and not told the end of, and heard[c], the connections *)
(* whose offers, answers or candidates were queued for c.  A send that     *)
(* finds the channel closed or full is dropped: SlowPeers are the          *)
(* connections whose channel may be full at any time.                      *)
(*                                                                         *)
(* A client's messages are inputs, taken when the goroutine reads them, so *)
(* the incoming channel (and what it drops) needs no state either.         *)
(***************************************************************************)
EXTENDS WebRTCRooms

CONSTANTS
    Sources,    \* connections whose client joins as the phone
    Viewers,    \* connections whose client joins as a dashboard
    Access,     \* [Conn -> SUBSET Vehicle]: where the client's token is good
    SlowPeers,  \* connections whose outgoing channel may be full
    Talkers,    \* connections whose clients relay offers, answers, candidates
    Polled,     \* vehicles whose stream status somebody polls
    NoVehicle   \* "", the vehicleID of a handler before its client has joined

ASSUME ConnAssumption ==
    /\ Conn = Sources \cup Viewers
    /\ Sources \cap Viewers = {}
    /\ Access \in [Conn -> SUBSET Vehicle]
    /\ SlowPeers \subseteq Conn
    /\ Talkers \subseteq Conn
    /\ Polled \subseteq Vehicle
    /\ NoVehicle \notin Vehicle

VARIABLES
    pc,       \* where the goroutine of each connection stands
    vehicle,  \* vehicleID, from the message whose token was good
    handle,   \* the room object the goroutine works on
    todo,     \* viewers a loop over a snapshot has still to send to
    shown,    \* the last stream status queued for a viewer
    told,     \* the viewers a source knows of
    heard,    \* who has had a message relayed to this connection
    stopped   \* sources that asked to stop their stream (history)

localVars == <<pc, vehicle, handle, todo>>
clientVars == <<shown, told, heard, stopped>>
vars == <<roomVars, localVars, clientVars>>

SourceSteps == {"set_publisher", "announce", "announcing", "listing",
                "stop_clear", "stop_notify", "stopping",
                "leave_clear", "leave_stop", "leave_stopping",
                "leave_gone", "leave_going"}
ViewerSteps == {"count", "add", "look", "greet_live", "greet_offline",
                "check", "notify", "unavailable",
                "leave_remove", "leave_notify"}
CommonSteps == {"idle", "loop", "test_empty", "delete_room", "closed"}
Status == {"none", "live", "offline"}

TypeOK ==
    /\ RoomsTypeOK
    /\ pc \in [Conn -> SourceSteps \cup ViewerSteps \cup CommonSteps]
    /\ vehicle \in [Conn -> Vehicle \cup {NoVehicle}]
    /\ handle \in [Conn -> Room \cup {NoRoom}]
    /\ todo \in [Conn -> SUBSET Conn]
    /\ shown \in [Conn -> Status]
    /\ told \in [Conn -> SUBSET Conn]
    /\ heard \in [Conn -> SUBSET Conn]
    /\ stopped \in SUBSET Conn

Init ==
    /\ RoomsInit
    /\ pc = [c \in Conn |-> "idle"]
    /\ vehicle = [c \in Conn |-> NoVehicle]
    /\ handle = [c \in Conn |-> NoRoom]
    /\ todo = [c \in Conn |-> {}]
    /\ shown = [c \in Conn |-> "none"]
    /\ told = [c \in Conn |-> {}]
    /\ heard = [c \in Conn |-> {}]
    /\ stopped = {}

----------------------------------------------------------------------------
(* Control flow and delivery.                                              *)

Goto(c, from, to) ==
    /\ pc[c] = from
    /\ pc' = [pc EXCEPT ![c] = to]

\* safePeerSend: the recover swallows a closed channel, the default a full
\* one.
Lost(c) == pc[c] = "closed" \/ c \in SlowPeers
Delivered(c) == pc[c] # "closed"

ShowStatus(v, status) ==
    \/ Delivered(v) /\ shown' = [shown EXCEPT ![v] = status]
    \/ Lost(v) /\ UNCHANGED shown

Tell(p, known) ==
    \/ Delivered(p) /\ told' = [told EXCEPT ![p] = known]
    \/ Lost(p) /\ UNCHANGED told

\* The handler returns: close(outgoing).  What its client knew goes with it.
Close(c) ==
    /\ pc' = [pc EXCEPT ![c] = "closed"]
    /\ handle' = [handle EXCEPT ![c] = NoRoom]
    /\ shown' = [shown EXCEPT ![c] = "none"]
    /\ told' = [told EXCEPT ![c] = {}]
    /\ heard' = [heard EXCEPT ![c] = {}]
    /\ stopped' = stopped \ {c}
    /\ UNCHANGED <<vehicle, todo>>

\* broadcastToViewers, first half: copy the viewers under the room's lock.
Snapshot(c, from, to) ==
    /\ Goto(c, from, to)
    /\ todo' = [todo EXCEPT ![c] = viewers[handle[c]]]
    /\ UNCHANGED <<roomVars, vehicle, handle, clientVars>>

\* broadcastToViewers, second half: send to the copies, in any order, with
\* the lock released; then go on.
SendStatus(c, at, status, next) ==
    /\ pc[c] = at
    /\ \/ /\ todo[c] = {}
          /\ Goto(c, at, next)
          /\ UNCHANGED <<todo, shown>>
       \/ \E v \in todo[c] :
             /\ todo' = [todo EXCEPT ![c] = @ \ {v}]
             /\ ShowStatus(v, status)
             /\ UNCHANGED pc
    /\ UNCHANGED <<roomVars, vehicle, handle, told, heard, stopped>>

----------------------------------------------------------------------------
(* Joining.                                                                *)

\* phone_join or viewer_join with a good token: vehicleID is assigned and the
\* room fetched from the hub.
JoinAs(c, v, next) ==
    /\ v \in Access[c]
    /\ Goto(c, "idle", next)
    /\ vehicle' = [vehicle EXCEPT ![c] = v]
    /\ \E r \in Room : HubRoom(v, r) /\ handle' = [handle EXCEPT ![c] = r]
    /\ UNCHANGED <<todo, clientVars>>

Join(c, v) ==
    \/ c \in Sources /\ JoinAs(c, v, "set_publisher")
    \/ c \in Viewers /\ JoinAs(c, v, "count")

\* A bad token: error and return; a client that hangs up before joining ends
\* the handler the same way, cleanup having nothing to do.
Refuse(c) ==
    /\ pc[c] = "idle"
    /\ Close(c)
    /\ UNCHANGED roomVars

\* The slot is free: the source is joined.  Taken: error and return.
TakeSlot(c) ==
    /\ pc[c] = "set_publisher"
    /\ \/ /\ SetPublisher(handle[c], c)
          /\ Goto(c, "set_publisher", "announce")
          /\ UNCHANGED <<vehicle, handle, todo, clientVars>>
       \/ /\ PublisherActive(handle[c])
          /\ Close(c)
          /\ UNCHANGED roomVars

AnnounceStart(c) == Snapshot(c, "announce", "announcing")

\* Variant: the viewers already in the room are not listed to the source.
AnnounceOnly(c) ==
    \/ /\ todo[c] # {}
       /\ SendStatus(c, "announcing", "live", "announcing")
    \/ /\ todo[c] = {}
       /\ Goto(c, "announcing", "loop")
       /\ UNCHANGED <<roomVars, vehicle, handle, todo, clientVars>>

\* stream_started to every viewer of the snapshot; with the last one sent,
\* viewerIDs takes a second snapshot.
Announce(c) ==
    \/ /\ todo[c] # {}
       /\ SendStatus(c, "announcing", "live", "announcing")
    \/ /\ todo[c] = {}
       /\ Snapshot(c, "announcing", "listing")

\* viewer_joined to the source itself for every viewer of the second snapshot.
ListViewers(c) ==
    /\ pc[c] = "listing"
    /\ \/ /\ todo[c] = {}
          /\ Goto(c, "listing", "loop")
          /\ UNCHANGED <<todo, told>>
       \/ \E v \in todo[c] :
             /\ todo' = [todo EXCEPT ![c] = @ \ {v}]
             /\ Tell(c, told[c] \cup {v})
             /\ UNCHANGED pc
    /\ UNCHANGED <<roomVars, vehicle, handle, shown, heard, stopped>>

\* The viewer limit is tested here and the viewer added in a later step.
CountViewers(c) ==
    /\ pc[c] = "count"
    /\ \/ /\ ~ViewerLimitReached(handle[c])
          /\ Goto(c, "count", "add")
          /\ UNCHANGED <<vehicle, handle, todo, clientVars>>
       \/ /\ ViewerLimitReached(handle[c])
          /\ Close(c)
    /\ UNCHANGED roomVars

EnterRoom(c) ==
    /\ Goto(c, "add", "look")
    /\ AddViewer(handle[c], c)
    /\ UNCHANGED <<vehicle, handle, todo, clientVars>>

\* joined is made, with streamActive ...
LookAtSlot(c) ==
    /\ Goto(c, "look", IF PublisherActive(handle[c]) THEN "greet_live"
                                                     ELSE "greet_offline")
    /\ UNCHANGED <<roomVars, vehicle, handle, todo, clientVars>>

\* ... and queued in a later step.
Greet(c) ==
    /\ \/ pc[c] = "greet_live" /\ ShowStatus(c, "live")
       \/ pc[c] = "greet_offline" /\ ShowStatus(c, "offline")
    /\ pc' = [pc EXCEPT ![c] = "check"]
    /\ UNCHANGED <<roomVars, vehicle, handle, todo, told, heard, stopped>>

\* Variant: a viewer that finds no publisher is left with the joined message.
CheckPublisherQuietly(c) ==
    /\ Goto(c, "check", IF PublisherActive(handle[c]) THEN "notify" ELSE "loop")
    /\ UNCHANGED <<roomVars, vehicle, handle, todo, clientVars>>

\* publisherActive is asked a second time, and acted on in a later step.
CheckPublisher(c) ==
    /\ Goto(c, "check", IF PublisherActive(handle[c]) THEN "notify"
                                                      ELSE "unavailable")
    /\ UNCHANGED <<roomVars, vehicle, handle, todo, clientVars>>

\* viewer_joined to whoever holds the slot now.
NotifySource(c) ==
    /\ Goto(c, "notify", "loop")
    /\ LET p == publisher[handle[c]] IN
          IF p = NoConn THEN UNCHANGED told
                        ELSE Tell(p, told[p] \cup {c})
    /\ UNCHANGED <<roomVars, vehicle, handle, todo, shown, heard, stopped>>

\* stream_unavailable.
SayUnavailable(c) ==
    /\ Goto(c, "unavailable", "loop")
    /\ ShowStatus(c, "offline")
    /\ UNCHANGED <<roomVars, vehicle, handle, todo, told, heard, stopped>>

----------------------------------------------------------------------------
(* A joined client's messages.  Each starts with hub.room on the vehicle    *)
(* joined, which registers a new room if the hub has none any more.        *)

Lookup(c, next) ==
    /\ Goto(c, "loop", next)
    /\ \E r \in Room :
          HubRoom(vehicle[c], r) /\ handle' = [handle EXCEPT ![c] = r]
    /\ UNCHANGED <<vehicle, todo>>

\* stream_stopped from a source.  It stays joined, as a source.
AskStop(c) ==
    /\ c \in Sources
    /\ Lookup(c, "stop_clear")
    /\ stopped' = stopped \cup {c}
    /\ UNCHANGED <<shown, told, heard>>

StopClear(c) ==
    /\ Goto(c, "stop_clear", "stop_notify")
    /\ ClearPublisher(handle[c])
    /\ UNCHANGED <<vehicle, handle, todo, clientVars>>

StopNotify(c) == Snapshot(c, "stop_notify", "stopping")
Stopping(c) == SendStatus(c, "stopping", "offline", "loop")

\* offer, answer and ice_candidate: a source's go to the viewer it names, if
\* that viewer is in the room; a viewer's go to the publisher.
Addressees(c, r) ==
    IF c \in Sources THEN viewers[r] ELSE {publisher[r]} \ {NoConn}

Hear(d, c) ==
    \/ Delivered(d) /\ heard' = [heard EXCEPT ![d] = @ \cup {c}]
    \/ Lost(d) /\ UNCHANGED heard

\* Variant: the room is looked up by the vehicle id of the message.
RelayByMessage(c, d) ==
    /\ c \in Talkers
    /\ Goto(c, "loop", "loop")
    /\ \E v \in Vehicle : \E r \in Room :
          /\ HubRoom(v, r)
          /\ handle' = [handle EXCEPT ![c] = r]
          /\ IF d \in Addressees(c, r) THEN Hear(d, c) ELSE UNCHANGED heard
    /\ UNCHANGED <<vehicle, todo, shown, told, stopped>>

Relay(c, d) ==
    /\ c \in Talkers
    /\ Goto(c, "loop", "loop")
    /\ \E r \in Room :
          /\ HubRoom(vehicle[c], r)
          /\ handle' = [handle EXCEPT ![c] = r]
          /\ IF d \in Addressees(c, r) THEN Hear(d, c) ELSE UNCHANGED heard
    /\ UNCHANGED <<vehicle, todo, shown, told, stopped>>

----------------------------------------------------------------------------
(* Leaving: the client hung up, the handler returns and cleanup runs.       *)

Leave(c) ==
    /\ \/ c \in Sources /\ Lookup(c, "leave_clear")
       \/ c \in Viewers /\ Lookup(c, "leave_remove")
    /\ UNCHANGED clientVars

LeaveClear(c) ==
    /\ Goto(c, "leave_clear", "leave_stop")
    /\ ClearPublisher(handle[c])
    /\ UNCHANGED <<vehicle, handle, todo, clientVars>>

\* stream_stopped to one snapshot of the viewers, source_disconnected to
\* another.
LeaveStop(c) == Snapshot(c, "leave_stop", "leave_stopping")
LeaveStopping(c) == SendStatus(c, "leave_stopping", "offline", "leave_gone")
LeaveGone(c) == Snapshot(c, "leave_gone", "leave_going")
LeaveGoing(c) == SendStatus(c, "leave_going", "offline", "test_empty")

\* Variant: the viewer's entry is not deleted.
LeaveRoomForgets(c) ==
    /\ Goto(c, "leave_remove", "leave_notify")
    /\ UNCHANGED <<roomVars, vehicle, handle, todo, clientVars>>

LeaveRoom(c) ==
    /\ Goto(c, "leave_remove", "leave_notify")
    /\ RemoveViewer(handle[c], c)
    /\ UNCHANGED <<vehicle, handle, todo, clientVars>>

\* Variant: a viewer's cleanup returns before removeRoomIfEmpty.
LeaveNotifyKeepsRoom(c) ==
    /\ pc[c] = "leave_notify"
    /\ Close(c)
    /\ UNCHANGED roomVars

\* viewer_disconnected to whoever holds the slot now.
LeaveNotify(c) ==
    /\ Goto(c, "leave_notify", "test_empty")
    /\ LET p == publisher[handle[c]] IN
          IF p = NoConn THEN UNCHANGED told ELSE Tell(p, told[p] \ {c})
    /\ UNCHANGED <<roomVars, vehicle, handle, todo, shown, heard, stopped>>

TestEmpty(c) ==
    /\ pc[c] = "test_empty"
    /\ TestRoomEmpty(c, vehicle[c])
    /\ \/ /\ hubMu' = c
          /\ Goto(c, "test_empty", "delete_room")
          /\ UNCHANGED <<vehicle, handle, todo, clientVars>>
       \/ /\ hubMu' = NoConn
          /\ Close(c)

DeleteEmpty(c) ==
    /\ pc[c] = "delete_room"
    /\ DeleteRoom(c, vehicle[c])
    /\ Close(c)

----------------------------------------------------------------------------
(* handleWebRTCStreamStatus: an HTTP request that reads the room of the     *)
(* vehicle, registering one if there is none.                              *)

StreamStatus(v) ==
    /\ v \in Polled
    /\ \E r \in Room : HubRoom(v, r)
    /\ UNCHANGED <<localVars, clientVars>>

----------------------------------------------------------------------------
\* Steps the goroutine takes by itself.
SourceStep(c) ==
    \/ TakeSlot(c) \/ AnnounceStart(c) \/ Announce(c) \/ ListViewers(c)
    \/ StopClear(c) \/ StopNotify(c) \/ Stopping(c)
    \/ LeaveClear(c) \/ LeaveStop(c) \/ LeaveStopping(c)
    \/ LeaveGone(c) \/ LeaveGoing(c)

ViewerStep(c) ==
    \/ CountViewers(c) \/ EnterRoom(c) \/ LookAtSlot(c) \/ Greet(c)
    \/ CheckPublisher(c) \/ NotifySource(c) \/ SayUnavailable(c)
    \/ LeaveRoom(c) \/ LeaveNotify(c)

Step(c) == SourceStep(c) \/ ViewerStep(c) \/ TestEmpty(c) \/ DeleteEmpty(c)

\* What the client makes it do.
Client(c) ==
    \/ \E v \in Vehicle : Join(c, v)
    \/ Refuse(c) \/ AskStop(c) \/ Leave(c)
    \/ \E d \in Conn : Relay(c, d)

Next ==
    \/ \E c \in Conn : Step(c) \/ Client(c)
    \/ \E v \in Vehicle : StreamStatus(v)

Spec == Init /\ [][Next]_vars

\* The scheduler runs every goroutine that can take a step.  Clients owe
\* nothing.
FairSpec == Spec /\ \A c \in Conn : WF_vars(Step(c))
----------------------------------------------------------------------------
(* Correctness.                                                            *)

Running(c) == pc[c] \notin {"idle", "closed"}
Quiet == \A c \in Conn : pc[c] \in {"idle", "loop", "closed"}

\* A source told that it is joined which has neither stopped nor hung up.
Live(c) ==
    /\ c \in Sources \ stopped
    /\ pc[c] \in {"announce", "announcing", "listing", "loop"}

Members(r) == viewers[r] \cup ({publisher[r]} \ {NoConn})
Together(p, w) == \E r \in Room : publisher[r] = p /\ w \in viewers[r]

\* Whatever the order in which a source and a viewer join the same room, once
\* both have finished joining the source has been told of the viewer
\* ("Server tells publisher viewer_joined").  The viewer's half looks at the
\* slot after entering the room, the source's half lists the viewers after
\* taking the slot; neither half suffices alone.
NoMissedViewer ==
    \A r \in Room : \A p \in Sources \ SlowPeers : \A w \in viewers[r] :
        publisher[r] = p /\ pc[p] = "loop" /\ pc[w] = "loop" => w \in told[p]

\* A connection whose handler has returned is a member of no registered room:
\* cleanup looks the room up by name again and may get another object than
\* the one joined, yet it never leaves the connection behind in a room that
\* others can still find.
NoGhostMember ==
    \A v \in Vehicle : rooms[v] # NoRoom =>
        \A c \in Members(rooms[v]) : Running(c)

\* A room stays registered only while some connection of its vehicle is being
\* served, unless somebody polls the vehicle's stream status: every way of
\* leaving ends in removeRoomIfEmpty, and every early return of a join leaves
\* a room that somebody else will remove.
NoRoomLeak ==
    \A v \in Vehicle \ Polled : rooms[v] # NoRoom =>
        \E c \in Conn : Running(c) /\ vehicle[c] = v

\* When nothing is under way, a viewer of a registered room without publisher
\* does not believe the stream live, as long as no source has lost its slot
\* to another's clearPublisher.  The joined message may be overtaken by the
\* stream_stopped of a publisher that just left; the second look at the slot
\* is what repairs that.  (In a room the hub has dropped it can fail: the
\* source's stop then looks up another room.)
NoStaleLive ==
    /\ Quiet
    /\ \A p \in Sources : Live(p) => \E r \in Room : publisher[r] = p
    => \A v \in Vehicle : rooms[v] # NoRoom /\ ~PublisherActive(rooms[v]) =>
          \A w \in viewers[rooms[v]] \ SlowPeers : shown[w] # "live"

\* A viewer is sent signaling messages of vehicles its token gives access to
\* only, and so is a source ("Fleet owner A cannot watch fleet owner B's
\* vehicles"), although room objects outlive their registration.
RelayWithinAccess ==
    \A c \in Conn : \A d \in heard[c] : vehicle[d] \in Access[c]

\* Viewers let past the limit that have not entered room r yet.
Crossing(r) == {w \in Viewers : pc[w] = "add" /\ handle[w] = r}
OneAtATime(r) == \A w, x \in Crossing(r) : w = x
WithinLimit(r) == Cardinality(viewers[r]) <= MaxViewers

\* "viewer limit reached" is tested in one critical section and acted on in
\* another, so WEBRTC_MAX_VIEWERS is not a bound on a room; but as long as no
\* two viewers of a room stand between the two at once, the room never holds
\* more viewers than the limit, whatever else goes on in it.
LimitKept == \A r \in Room : []OneAtATime(r) => []WithinLimit(r)

\* Rooms are registered, dropped while somebody still holds them, registered
\* again, looked up by name and worked on by snapshots; yet each client is in
\* the conference of the one vehicle its token was good for, and nobody is
\* announced to, taken off the list of, or sent a message from anybody of
\* another vehicle's.
Leaving == {"leave_clear", "leave_stop", "leave_stopping", "leave_gone", "leave_going",
            "leave_remove", "leave_notify", "test_empty", "delete_room"}
Stage(q) ==
    CASE q = "idle" -> "out"
      [] q = "closed" -> "gone"
      [] q \in Leaving -> "leaving"
      [] OTHER -> "in"

stage == [c \in Conn |-> Stage(pc[c])]

M == INSTANCE Conference WITH place <- vehicle, knows <- told

KeepsConference == M!Spec

\* A viewer in a room whose slot is taken is made known to the holder, unless
\* the holder loses the slot or one of the two connections ends first.
ViewerEventuallyTold ==
    \A p \in Sources : \A w \in Viewers :
        Together(p, w)
            ~> w \in told[p] \/ ~Together(p, w) \/ pc[p] = "closed" \/ pc[w] = "closed"

\* A handler that has started cleanup returns: hub.mu is always released.
CleanupReturns ==
    \A c \in Conn : pc[c] \in {"leave_clear", "leave_remove"} ~> pc[c] = "closed"

(* The inductive invariant behind the safety properties above.             *)

\* A viewer in the room that has not yet told the source.
Entering == {"look", "greet_live", "greet_offline", "check", "notify"}

\* Where a member of a registered room may stand.
InRoom(c) ==
    IF c \in Sources
    THEN pc[c] \in {"announce", "announcing", "listing", "loop",
                    "stop_clear", "stop_notify", "stopping", "leave_clear"}
    ELSE pc[c] \in Entering \cup {"unavailable", "loop", "leave_remove"}

\* Sources take the source's path and the slots, viewers the viewer's path
\* and the rest.
RolesInv ==
    /\ \A c \in Sources : pc[c] \in SourceSteps \cup CommonSteps
    /\ \A c \in Viewers : pc[c] \in ViewerSteps \cup CommonSteps
    /\ \A r \in Room : publisher[r] \in Sources \cup {NoConn}
    /\ \A r \in Room : viewers[r] \subseteq Viewers

\* Room objects in use were allocated, and no object serves two vehicles.
RoomsInv ==
    /\ \A v \in Vehicle : rooms[v] \in created \cup {NoRoom}
    /\ \A c \in Conn : Running(c) => handle[c] \in created
    /\ \A r \in Room \ created : Members(r) = {}
    /\ \A u, v \in Vehicle : rooms[u] = rooms[v] /\ rooms[v] # NoRoom => u = v
    /\ \A c \in Conn : \A v \in Vehicle :
          Running(c) /\ handle[c] = rooms[v] => vehicle[c] = v

\* A connection enters one room, and only after idling and joining.
MembersInv ==
    /\ \A r \in Room : \A c \in Members(r) :
          pc[c] \notin {"idle", "set_publisher", "count", "add"}
    /\ \A q, r \in Room : \A c \in Members(q) \cap Members(r) : q = r
    /\ \A v \in Vehicle : rooms[v] # NoRoom =>
          \A c \in Members(rooms[v]) : InRoom(c) /\ handle[c] = rooms[v]
    /\ \A r \in Room : \A c \in Members(r) :
          pc[c] \in Entering \cup {"announce", "announcing", "listing", "unavailable"}
          => handle[c] = r
    /\ \A c \in Conn : pc[c] = "leave_notify" => c \notin viewers[handle[c]]

\* hub.mu is held between the two halves of removeRoomIfEmpty only.
HubMuInv == \A c \in Conn : hubMu = c <=> pc[c] = "delete_room"

\* A registered room is in the hands of a connection that is being served.
ServedInv ==
    \A v \in Vehicle \ Polled : rooms[v] # NoRoom =>
        \E c \in Conn : Running(c) /\ handle[c] = rooms[v]

\* A viewer the holder of the slot has not been told of yet is about to be
\* listed by the holder, or about to look at the slot itself.
TellingInv ==
    \A r \in Room : \A p \in Sources \ SlowPeers : \A w \in viewers[r] :
        publisher[r] = p /\ pc[p] # "closed" =>
            \/ w \in told[p]
            \/ pc[p] \in {"announce", "announcing"}
            \/ pc[p] = "listing" /\ w \in todo[p]
            \/ pc[w] \in Entering

\* Only connections let in are heard, each by connections of its vehicle.
AccessInv ==
    /\ \A c \in Conn : Running(c) => vehicle[c] \in Access[c]
    /\ \A c \in Conn : \A d \in heard[c] : pc[d] # "idle"
    /\ RelayWithinAccess

IInv ==
    /\ TypeOK
    /\ RolesInv
    /\ RoomsInv
    /\ MembersInv
    /\ HubMuInv
    /\ ServedInv
    /\ TellingInv
    /\ AccessInv

(* Inductive together with IInv while OneAtATime(r) holds: why LimitKept    *)
(* does.                                                                   *)
LimitInv(r) ==
    /\ IsFiniteSet(viewers[r])
    /\ WithinLimit(r)
    /\ Crossing(r) # {} => Cardinality(viewers[r]) < MaxViewers

(* Inductive together with IInv: why NoStaleLive holds.                    *)

\* A source that announces itself has not asked to stop, and announces to
\* viewers of the room it works on only.
AnnouncingInv ==
    /\ \A p \in stopped :
          pc[p] \notin {"idle", "set_publisher", "announce", "announcing"}
    /\ \A p \in Sources : \A w \in todo[p] : pc[p] = "announcing" =>
          /\ pc[w] \notin {"idle", "set_publisher", "count", "add"}
          /\ \A r \in Room : w \in viewers[r] => r = handle[p]

\* A source on its way to tell viewer w of room r that the stream is over.
Owes(p, w, r) ==
    /\ handle[p] = r
    /\ \/ pc[p] \in {"stop_clear", "stop_notify", "leave_clear", "leave_stop",
                     "leave_stopping", "leave_gone"}
       \/ pc[p] \in {"stopping", "leave_going"} /\ w \in todo[p]

\* A source that has lost its slot to another's clearPublisher.
Deposed(p) == Live(p) /\ \A r \in Room : publisher[r] # p

\* A viewer that has finished looking at the slot and believes the stream of
\* a room without publisher live ...
Stale(v, w) ==
    /\ rooms[v] # NoRoom
    /\ w \in viewers[rooms[v]]
    /\ ~PublisherActive(rooms[v])
    /\ shown[w] = "live"
    /\ pc[w] \in {"notify", "loop"}

\* ... is owed the news, or has a source that was deposed.
Excuse(p, v, w) == Owes(p, w, rooms[v]) \/ (Deposed(p) /\ vehicle[p] = v)

StaleInv ==
    \A v \in Vehicle : \A w \in Viewers \ SlowPeers :
        Stale(v, w) => \E p \in Sources : Excuse(p, v, w)

LiveInv == AnnouncingInv /\ StaleInv

(* Inductive together with IInv: why KeepsConference holds.                *)

\* Whoever is in a room, or works on it.
Users(r) == Members(r) \cup {c \in Conn : Running(c) /\ handle[c] = r}

PlaceInv ==
    /\ \A r \in Room : \A c, d \in Users(r) : vehicle[c] = vehicle[d]
    /\ \A c \in Conn : pc[c] = "idle" => todo[c] = {}
    /\ \A c \in Conn : \A w \in todo[c] :
          w \in Viewers /\ pc[w] # "idle" /\ vehicle[w] = vehicle[c]
    /\ \A w \in Conn : pc[w] = "greet_live" =>
          \E p \in Sources : pc[p] # "idle" /\ vehicle[p] = vehicle[w]

(* What the documents and messages of the repository claim and the code     *)
(* does not ensure.                                                        *)

\* "phone camera already connected for this vehicle": a vehicle has one live
\* source at a time.
OneSourcePerVehicle ==
    \A c, d \in Sources :
        Live(c) /\ Live(d) /\ vehicle[c] = vehicle[d] => c = d

\* "stream_stopped: Publisher stopped": the slot of a source is freed by its
\* own stop or departure.
LiveSourceKeepsSlot ==
    \A p \in Sources : Live(p) => \E r \in Room : publisher[r] = p

\* "stream_unavailable: Viewer joined, no publisher"; "Start Stream ->
\* dashboard should go Live": when nothing is under way, the viewers of a room
\* with a publisher believe the stream live.
ViewerSeesStream ==
    Quiet => \A r \in Room : publisher[r] # NoConn =>
                \A w \in viewers[r] \ SlowPeers : shown[w] = "live"
============================================================================
