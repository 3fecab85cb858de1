---------------------------- MODULE WebRTCRooms ----------------------------
(***************************************************************************)
(* The shared state of the WebRTC signaling server (webrtc_rooms.go): the  *)
(* hub, a map from vehicle ids to room objects guarded by hub.mu, and the  *)
(* rooms, each with one publisher slot and a set of viewers guarded by the *)
(* room's own mutex.  A room object and the name it is registered under    *)
(* are different things: a goroutine that obtained a room keeps using it   *)
(* after the hub has dropped it.  Every operation below is one critical    *)
(* section of the code.                                                    *)
(*                                                                         *)
(* streamActive is assigned together with publisher, in the same two       *)
(* critical sections, so the publisher slot alone stands for both.  A      *)
(* viewer id is fresh random bytes per connection; the connection stands   *)
(* for it.                                                                 *)
(***************************************************************************)
EXTENDS FiniteSets, Integers

CONSTANTS
    Vehicle,    \* vehicle ids, the keys of hub.rooms
    Room,       \* room objects; as many as a behaviour may allocate
    Conn,       \* signaling connections
    NoRoom,     \* no entry in hub.rooms
    NoConn,     \* the nil peer, and a mutex nobody holds
    MaxViewers  \* WEBRTC_MAX_VIEWERS

ASSUME RoomsAssumption ==
    /\ NoRoom \notin Room
    /\ NoConn \notin Conn
    /\ MaxViewers \in Nat \ {0}

VARIABLES
    rooms,      \* hub.rooms: the room registered for each vehicle
    created,    \* the room objects allocated so far
    publisher,  \* room.publisher
    viewers,    \* room.viewers
    hubMu       \* the connection holding hub.mu between two steps, or NoConn

roomVars == <<rooms, created, publisher, viewers, hubMu>>

RoomsTypeOK ==
    /\ rooms \in [Vehicle -> Room \cup {NoRoom}]
    /\ created \in SUBSET Room
    /\ publisher \in [Room -> Conn \cup {NoConn}]
    /\ viewers \in [Room -> SUBSET Conn]
    /\ hubMu \in Conn \cup {NoConn}

RoomsInit ==
    /\ rooms = [v \in Vehicle |-> NoRoom]
    /\ created = {}
    /\ publisher = [r \in Room |-> NoConn]
    /\ viewers = [r \in Room |-> {}]
    /\ hubMu = NoConn

----------------------------------------------------------------------------
(* The hub.                                                                *)

\* hub.room: the registered room, or a new one registered on the spot.
\* The identity of a new object is immaterial; Room \ created # {} is the
\* bound on allocations.
HubRoom(v, r) ==
    /\ hubMu = NoConn
    /\ \/ /\ rooms[v] # NoRoom
          /\ r = rooms[v]
          /\ UNCHANGED <<rooms, created>>
       \/ /\ rooms[v] = NoRoom
          /\ Room \ created # {}
          /\ r = CHOOSE fresh \in Room \ created : TRUE
          /\ rooms' = [rooms EXCEPT ![v] = r]
          /\ created' = created \cup {r}
    /\ UNCHANGED <<publisher, viewers, hubMu>>

RoomEmpty(r) == publisher[r] = NoConn /\ viewers[r] = {}

\* removeRoomIfEmpty, first half: under hub.mu the registered room is looked
\* up and tested under its own lock, which is released before the entry is
\* deleted.  The caller keeps hub.mu exactly when it is going to delete.
TestRoomEmpty(c, v) ==
    /\ hubMu = NoConn
    /\ hubMu' = IF rooms[v] # NoRoom /\ RoomEmpty(rooms[v]) THEN c ELSE NoConn
    /\ UNCHANGED <<rooms, created, publisher, viewers>>

\* Variant: the entry is deleted and the mutex stays locked.
DeleteRoomKeepsLock(c, v) ==
    /\ hubMu = c
    /\ rooms' = [rooms EXCEPT ![v] = NoRoom]
    /\ UNCHANGED <<created, publisher, viewers, hubMu>>

\* Variant: the object is kept, and handed out for the next new room.
DeleteRoomPooled(c, v) ==
    /\ hubMu = c
    /\ rooms' = [rooms EXCEPT ![v] = NoRoom]
    /\ created' = created \ {rooms[v]}
    /\ hubMu' = NoConn
    /\ UNCHANGED <<publisher, viewers>>

\* removeRoomIfEmpty, second half: delete the entry and unlock hub.mu.
DeleteRoom(c, v) ==
    /\ hubMu = c
    /\ rooms' = [rooms EXCEPT ![v] = NoRoom]
    /\ hubMu' = NoConn
    /\ UNCHANGED <<created, publisher, viewers>>

----------------------------------------------------------------------------
(* One room.                                                               *)

PublisherActive(r) == publisher[r] # NoConn

\* setPublisher takes a free slot only.
SetPublisher(r, c) ==
    /\ publisher[r] = NoConn
    /\ publisher' = [publisher EXCEPT ![r] = c]
    /\ UNCHANGED <<rooms, created, viewers, hubMu>>

\* clearPublisher frees the slot whoever holds it.
ClearPublisher(r) ==
    /\ publisher' = [publisher EXCEPT ![r] = NoConn]
    /\ UNCHANGED <<rooms, created, viewers, hubMu>>

\* Variant: the peer is registered before it is built, a nil pointer.
AddNilViewer(r, c) ==
    /\ viewers' = [viewers EXCEPT ![r] = @ \cup {NoConn}]
    /\ UNCHANGED <<rooms, created, publisher, hubMu>>

AddViewer(r, c) ==
    /\ viewers' = [viewers EXCEPT ![r] = @ \cup {c}]
    /\ UNCHANGED <<rooms, created, publisher, hubMu>>

RemoveViewer(r, c) ==
    /\ viewers' = [viewers EXCEPT ![r] = @ \ {c}]
    /\ UNCHANGED <<rooms, created, publisher, hubMu>>

\* Variant: one viewer too many is let past.
ViewerLimitPassed(r) == Cardinality(viewers[r]) > MaxViewers
ViewerLimitReached(r) == Cardinality(viewers[r]) >= MaxViewers
============================================================================
