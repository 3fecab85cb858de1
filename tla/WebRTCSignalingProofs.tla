----------------------- MODULE WebRTCSignalingProofs -----------------------
(***************************************************************************)
(* IInv is an inductive invariant of the signaling server, for any number  *)
(* of vehicles, connections and room objects, any access relation, any     *)
(* viewer limit and any set of slow peers.  One lemma per action; the      *)
(* safety properties follow from IInv at the end.                          *)
(***************************************************************************)
EXTENDS WebRTCSignaling, TLAPS, FiniteSetTheorems

\* What hub.room does: it returns the registered room, or registers an object
\* that was not in use.
LEMMA HubRoomPost ==
  ASSUME IInv, NEW v \in Vehicle, NEW r, HubRoom(v, r)
  PROVE  /\ r \in Room
         /\ rooms' = [rooms EXCEPT ![v] = r]
         /\ created' = created \cup {r}
         /\ \/ rooms[v] = r /\ r \in created /\ UNCHANGED <<rooms, created>>
            \/ rooms[v] = NoRoom /\ r \notin created
         /\ hubMu = NoConn
         /\ UNCHANGED <<publisher, viewers, hubMu>>
  <1> USE RoomsAssumption DEF IInv, TypeOK, RoomsTypeOK, RoomsInv, HubRoom
  <1>1. CASE rooms[v] # NoRoom
    BY <1>1
  <1>2. CASE rooms[v] = NoRoom
    <2>1. Room \ created # {} /\ r = CHOOSE fresh \in Room \ created : TRUE
      BY <1>2
    <2>2. r \in Room \ created
      BY <2>1
    <2> QED BY <1>2, <2>2
  <1> QED BY <1>1, <1>2

\* Whoever is a member of a registered room is being served, in that room.
LEMMA MemberServes ==
  ASSUME IInv, NEW v \in Vehicle, rooms[v] # NoRoom, ~RoomEmpty(rooms[v])
  PROVE  \E d \in Conn : InRoom(d) /\ handle[d] = rooms[v]
  <1>1. PICK d \in Members(rooms[v]) : TRUE
    BY RoomsAssumption DEF IInv, TypeOK, RoomsTypeOK, RoomEmpty, Members
  <1>2. d \in Conn /\ InRoom(d) /\ handle[d] = rooms[v]
    BY <1>1 DEF IInv, TypeOK, RoomsTypeOK, MembersInv, Members
  <1> QED BY <1>2

\* Whoever is being served has joined a vehicle.
LEMMA JoinedVehicle ==
  ASSUME IInv, NEW c \in Conn, Running(c)
  PROVE  vehicle[c] \in Vehicle
  BY ConnAssumption DEF IInv, AccessInv

\* A joined connection that fetches the room of its vehicle again serves it
\* from then on, and the room it lets go of is of no registered vehicle.
LEMMA RefetchInv ==
  ASSUME IInv, NEW c \in Conn, NEW r \in Room, pc[c] = "loop",
         HubRoom(vehicle[c], r), handle' = [handle EXCEPT ![c] = r],
         pc' = [pc EXCEPT ![c] = pc'[c]], pc'[c] \notin {"idle", "closed"},
         UNCHANGED vehicle
  PROVE  RoomsInv' /\ ServedInv'
  <1> DEFINE v == vehicle[c]
  <1>1. v \in Vehicle
    BY JoinedVehicle DEF Running
  <1> USE RoomsAssumption DEF IInv, TypeOK, RoomsTypeOK
  <1>2. /\ rooms' = [rooms EXCEPT ![v] = r]
        /\ created' = created \cup {r}
        /\ \/ rooms[v] = r /\ r \in created /\ UNCHANGED <<rooms, created>>
           \/ rooms[v] = NoRoom /\ r \notin created
        /\ UNCHANGED <<publisher, viewers>>
    BY <1>1, HubRoomPost
  <1> HIDE DEF v
  <1>3. RoomsInv'
    BY <1>1, <1>2 DEF RoomsInv, Running, Members, v
  <1>4. ServedInv'
    <2> SUFFICES ASSUME NEW u \in Vehicle \ Polled, rooms'[u] # NoRoom
                 PROVE  \E d \in Conn : Running(d)' /\ handle'[d] = rooms'[u]
      BY DEF ServedInv
    <2>1. CASE u = v
      <3>1. Running(c)' /\ handle'[c] = rooms'[u]
        BY <1>2, <2>1 DEF Running
      <3> QED BY <3>1
    <2>2. CASE u # v
      <3>1. rooms[u] = rooms'[u]
        BY <1>1, <1>2, <2>2
      <3>2. PICK d \in Conn : Running(d) /\ handle[d] = rooms[u]
        BY <3>1 DEF ServedInv
      <3>3. d # c
        BY <2>2, <3>2 DEF Running, RoomsInv, v
      <3>4. Running(d)' /\ handle'[d] = rooms'[u]
        BY <3>1, <3>2, <3>3 DEF Running
      <3> QED BY <3>4
    <2> QED BY <2>1, <2>2
  <1> QED BY <1>3, <1>4

----------------------------------------------------------------------------
(* Joining.                                                                *)

\* Joining: the only step from idle, which makes the room of the vehicle served.
LEMMA JoinInv ==
  ASSUME IInv, NEW c \in Conn, NEW v \in Vehicle, Join(c, v)
  PROVE  IInv'
  <1> USE RoomsAssumption, ConnAssumption
      DEF IInv, Join, JoinAs, Goto, clientVars
  <1>1. PICK r \in Room : HubRoom(v, r) /\ handle' = [handle EXCEPT ![c] = r]
    OBVIOUS
  <1>2. /\ r \in Room
        /\ rooms' = [rooms EXCEPT ![v] = r]
        /\ created' = created \cup {r}
        /\ \/ rooms[v] = r /\ r \in created /\ UNCHANGED <<rooms, created>>
           \/ rooms[v] = NoRoom /\ r \notin created
        /\ hubMu = NoConn
        /\ UNCHANGED <<publisher, viewers, hubMu>>
    BY <1>1, HubRoomPost
  <1> USE DEF TypeOK, RoomsTypeOK, RolesInv, RoomsInv, Running, SourceSteps,
              ViewerSteps, CommonSteps
  <1>3. TypeOK' /\ RolesInv' /\ HubMuInv'
    <2>1. TypeOK'
      BY <1>1, <1>2 DEF Status
    <2>2. RolesInv'
      BY <1>1, <1>2
    <2>3. HubMuInv'
      BY <1>1, <1>2 DEF HubMuInv
    <2> QED BY <2>1, <2>2, <2>3
  <1>4. RoomsInv'
    BY <1>1, <1>2 DEF MembersInv, Members, InRoom, Entering
  <1>5. ServedInv'
    <2> SUFFICES ASSUME NEW u \in Vehicle \ Polled, rooms'[u] # NoRoom
                 PROVE  \E d \in Conn : Running(d)' /\ handle'[d] = rooms'[u]
      BY DEF ServedInv
    <2>1. CASE u = v
      <3>1. Running(c)' /\ handle'[c] = rooms'[u]
        BY <1>1, <1>2, <2>1
      <3> QED BY <3>1
    <2>2. CASE u # v
      <3>1. rooms[u] = rooms'[u]
        BY <1>2, <2>2
      <3>2. PICK d \in Conn : Running(d) /\ handle[d] = rooms[u]
        BY <3>1 DEF ServedInv
      <3>3. d # c /\ Running(d)' /\ handle'[d] = rooms'[u]
        BY <1>1, <3>1, <3>2
      <3> QED BY <3>3
    <2> QED BY <2>1, <2>2
  <1>6. MembersInv'
    BY <1>1, <1>2 DEF MembersInv, Members, InRoom, Entering
  <1>7. TellingInv'
    BY <1>1, <1>2 DEF TellingInv, MembersInv, Members, InRoom, Entering
  <1>8. AccessInv'
    <2>1. \A x \in Conn : Running(x)' => vehicle'[x] \in Access[x]
      BY <1>1 DEF AccessInv
    <2>2. ASSUME NEW e \in Conn, NEW d \in heard'[e]
          PROVE  pc'[d] # "idle" /\ vehicle'[d] \in Access[e]
      <3>1. d \in heard[e] /\ d \in Conn /\ pc[d] # "idle"
        BY DEF AccessInv
      <3>2. d # c
        BY <3>1
      <3> QED BY <3>1, <3>2 DEF AccessInv, RelayWithinAccess
    <2> QED BY <2>1, <2>2 DEF AccessInv, RelayWithinAccess
  <1> QED BY <1>3, <1>4, <1>5, <1>6, <1>7, <1>8

\* A bad token, or a client that hangs up first, leaves every room alone.
LEMMA RefuseInv == ASSUME IInv, NEW c \in Conn, Refuse(c) PROVE IInv'
  <1> USE RoomsAssumption, ConnAssumption DEF IInv, TypeOK, RoomsTypeOK,
         RolesInv, RoomsInv, Running, Members, SourceSteps, ViewerSteps,
         CommonSteps, Refuse, Close, roomVars
  <1>1. TypeOK' /\ RolesInv' /\ HubMuInv'
    BY DEF HubMuInv, Status
  <1>2. RoomsInv' /\ ServedInv'
    BY DEF ServedInv, MembersInv, InRoom, Entering
  <1>3. MembersInv'
    BY DEF MembersInv, InRoom, Entering
  <1>4. TellingInv' /\ AccessInv'
    BY DEF TellingInv, AccessInv, RelayWithinAccess, MembersInv, InRoom, Entering
  <1> QED BY <1>1, <1>2, <1>3, <1>4

\* A source takes a free slot, or returns because another, still being served,
\* holds it.
LEMMA TakeSlotInv == ASSUME IInv, NEW c \in Conn, TakeSlot(c) PROVE IInv'
  <1> USE RoomsAssumption, ConnAssumption
      DEF IInv, TakeSlot, SetPublisher, PublisherActive, Goto, Close, roomVars, clientVars
  <1>1. TypeOK' /\ HubMuInv'
    BY DEF TypeOK, RoomsTypeOK, RoomsInv, Running, HubMuInv, SourceSteps,
           ViewerSteps, CommonSteps, Status
  <1>2. RolesInv'
    BY DEF TypeOK, RoomsTypeOK, RolesInv, RoomsInv, Running, SourceSteps,
           ViewerSteps, CommonSteps
  <1>3. RoomsInv'
    BY DEF TypeOK, RoomsTypeOK, RolesInv, RoomsInv, Running, Members,
           SourceSteps, ViewerSteps, CommonSteps
  <1>4. ServedInv'
    <2> SUFFICES ASSUME NEW u \in Vehicle \ Polled, rooms[u] # NoRoom
                 PROVE  \E d \in Conn : Running(d)' /\ handle'[d] = rooms[u]
      BY DEF ServedInv
    <2>1. PICK d \in Conn : Running(d) /\ handle[d] = rooms[u]
      BY DEF ServedInv
    <2>2. CASE d # c \/ pc'[c] # "closed"
      <3>1. Running(d)' /\ handle'[d] = rooms[u]
        BY <2>1, <2>2 DEF Running, TypeOK
      <3> QED BY <3>1
    <2>3. CASE d = c /\ pc'[c] = "closed"
      <3>1. ~RoomEmpty(rooms[u])
        BY <2>1, <2>3 DEF RoomEmpty, TypeOK
      <3>2. PICK e \in Conn : InRoom(e) /\ handle[e] = rooms[u]
        BY <3>1, MemberServes
      <3>3. e # c
        BY <3>2 DEF InRoom, Entering, RolesInv, ViewerSteps, SourceSteps, CommonSteps
      <3>4. Running(e)' /\ handle'[e] = rooms[u]
        BY <3>2, <3>3 DEF InRoom, Entering, Running, TypeOK
      <3> QED BY <3>4
    <2> QED BY <2>2, <2>3
  <1>5. MembersInv'
    <2> USE DEF TypeOK, RoomsTypeOK, RolesInv, RoomsInv, MembersInv, Running,
                Members, InRoom, Entering, SourceSteps, ViewerSteps, CommonSteps
    <2>1. CASE SetPublisher(handle[c], c)
      <3>1. /\ pc' = [pc EXCEPT ![c] = "announce"]
            /\ publisher' = [publisher EXCEPT ![handle[c]] = c]
            /\ UNCHANGED <<rooms, viewers, handle>>
        BY <2>1
      <3>2. \A r \in Room : Members(r)' = IF r = handle[c]
                THEN Members(r) \cup {c} ELSE Members(r)
        BY <2>1, <3>1
      <3>3. \A r \in Room : c \notin Members(r)
        OBVIOUS
      <3>4. handle[c] \in Room /\ Running(c)
        BY <2>1
      <3>5. \A v \in Vehicle : \A e \in Members(rooms[v])' : rooms[v] # NoRoom =>
                InRoom(e)' /\ handle'[e] = rooms[v]
        <4> SUFFICES ASSUME NEW v \in Vehicle, rooms[v] # NoRoom,
                            NEW e \in Members(rooms[v])'
                     PROVE  InRoom(e)' /\ handle'[e] = rooms[v]
          OBVIOUS
        <4>1. CASE e = c
          BY <3>1, <3>2, <3>3, <4>1
        <4>2. CASE e # c
          BY <3>1, <3>2, <4>2
        <4> QED BY <4>1, <4>2
      <3>6. \A r \in Room : \A e \in Members(r)' : e = c \/ e \in Members(r)
        BY <3>2
      <3> HIDE DEF Members, InRoom, Entering, RolesInv
      <3>7. \A r \in Room : \A e \in Members(r)' :
               pc'[e] \notin {"idle", "set_publisher", "count", "add"}
        BY <3>1, <3>6
      <3>8. \A q, r \in Room : \A e \in Members(q)' \cap Members(r)' : q = r
        <4> SUFFICES ASSUME NEW q \in Room, NEW r \in Room,
                            NEW e \in Members(q)' \cap Members(r)'
                     PROVE  q = r
          OBVIOUS
        <4>1. CASE e = c
          BY <3>2, <3>3, <4>1
        <4>2. CASE e # c
          BY <3>6, <4>2
        <4> QED BY <4>1, <4>2
      <3>9. \A r \in Room : \A e \in Members(r)' :
               pc'[e] \in Entering \cup {"announce", "announcing", "listing", "unavailable"}
               => handle'[e] = r
        <4> SUFFICES ASSUME NEW r \in Room, NEW e \in Members(r)'
                     PROVE  pc'[e] \in Entering \cup {"announce", "announcing", "listing",
                                                    "unavailable"}
                            => handle'[e] = r
          OBVIOUS
        <4>1. CASE e = c
          BY <3>1, <3>2, <3>3, <4>1
        <4>2. CASE e # c
          BY <3>1, <3>6, <4>2
        <4> QED BY <4>1, <4>2
      <3>10. \A d \in Conn : pc'[d] = "leave_notify" => d \notin viewers'[handle'[d]]
        BY <3>1
      <3> QED BY <3>1, <3>5, <3>7, <3>8, <3>9, <3>10
    <2>2. CASE Close(c)
      BY <2>2
    <2> QED BY <2>1, <2>2
  <1>6. TellingInv'
    BY DEF TypeOK, RoomsTypeOK, RolesInv, RoomsInv, MembersInv, TellingInv,
           Running, Members, InRoom, Entering, SourceSteps, ViewerSteps, CommonSteps
  <1>7. AccessInv'
    <2>1. \A x \in Conn : Running(x)' => vehicle'[x] \in Access[x]
      BY DEF TypeOK, AccessInv, Running, SourceSteps, ViewerSteps, CommonSteps
    <2>2. /\ \A e \in Conn : heard'[e] \subseteq heard[e]
          /\ \A e \in Conn : pc'[e] = "idle" => pc[e] = "idle"
          /\ UNCHANGED vehicle
      BY DEF TypeOK
    <2> QED BY <2>1, <2>2 DEF AccessInv, RelayWithinAccess, TypeOK
  <1> QED BY <1>1, <1>2, <1>3, <1>4, <1>5, <1>6, <1>7

\* Copying the viewers of a room.
LEMMA AnnounceStartInv == ASSUME IInv, NEW c \in Conn, AnnounceStart(c) PROVE IInv'
  <1> USE RoomsAssumption, ConnAssumption DEF IInv, TypeOK, RoomsTypeOK,
         RolesInv, RoomsInv, Running, Members, SourceSteps, ViewerSteps,
         CommonSteps, AnnounceStart, Snapshot, Goto, roomVars, clientVars
  <1>1. TypeOK' /\ RolesInv' /\ HubMuInv'
    BY DEF HubMuInv, Status
  <1>2. RoomsInv' /\ ServedInv'
    BY DEF ServedInv, MembersInv, InRoom, Entering
  <1>3. MembersInv'
    BY DEF MembersInv, InRoom, Entering
  <1>4. TellingInv' /\ AccessInv'
    BY DEF TellingInv, AccessInv, RelayWithinAccess, MembersInv, InRoom, Entering
  <1> QED BY <1>1, <1>2, <1>3, <1>4

\* Telling the viewers of the first snapshot, then taking the second: from here on TellingInv rests on todo.
LEMMA AnnounceInv == ASSUME IInv, NEW c \in Conn, Announce(c) PROVE IInv'
  <1> USE RoomsAssumption, ConnAssumption DEF IInv, TypeOK, RoomsTypeOK,
         RolesInv, RoomsInv, Running, Members, SourceSteps, ViewerSteps,
         CommonSteps, Announce, SendStatus, ShowStatus, Delivered, Lost,
         Snapshot, Goto, roomVars, clientVars
  <1>1. TypeOK' /\ RolesInv' /\ HubMuInv'
    <2>1. TypeOK'
      BY DEF Status
    <2>2. RolesInv'
      OBVIOUS
    <2>3. HubMuInv'
      BY DEF HubMuInv
    <2> QED BY <2>1, <2>2, <2>3
  <1>2. RoomsInv'
    <2>1. /\ UNCHANGED <<rooms, created, publisher, viewers, handle, vehicle>>
          /\ \A d \in Conn : Running(d)' = Running(d)
      OBVIOUS
    <2> QED BY <2>1
  <1>3. ServedInv'
    BY DEF ServedInv, MembersInv, InRoom, Entering
  <1>4. MembersInv'
    BY DEF MembersInv, InRoom, Entering
  <1>5. TellingInv'
    BY DEF TellingInv, MembersInv, InRoom, Entering
  <1>6. AccessInv'
    BY DEF AccessInv, RelayWithinAccess, MembersInv, InRoom, Entering
  <1> QED BY <1>1, <1>2, <1>3, <1>4, <1>5, <1>6

\* Listing the viewers of the second snapshot to the source.
LEMMA ListViewersInv == ASSUME IInv, NEW c \in Conn, ListViewers(c) PROVE IInv'
  <1> USE RoomsAssumption, ConnAssumption DEF IInv, TypeOK, RoomsTypeOK,
         RolesInv, RoomsInv, Running, Members, SourceSteps, ViewerSteps,
         CommonSteps, ListViewers, Tell, Delivered, Lost, Goto, roomVars
  <1>1. TypeOK' /\ RolesInv' /\ HubMuInv'
    BY DEF HubMuInv, Status
  <1>2. RoomsInv'
    OBVIOUS
  <1>5. ServedInv'
    BY DEF ServedInv
  <1>3. MembersInv'
    BY DEF MembersInv, InRoom, Entering
  <1>4. TellingInv'
    BY DEF TellingInv, MembersInv, InRoom, Entering
  <1>6. AccessInv'
    <2>1. \A x \in Conn : Running(x)' => vehicle'[x] \in Access[x]
      BY DEF AccessInv
    <2>2. \A x \in Conn : \A y \in heard'[x] : pc'[y] # "idle"
      BY DEF AccessInv, MembersInv, InRoom, Entering
    <2>3. RelayWithinAccess'
      BY DEF AccessInv, RelayWithinAccess, MembersInv, InRoom, Entering
    <2> QED BY <2>1, <2>2, <2>3 DEF AccessInv
  <1> QED BY <1>1, <1>2, <1>3, <1>4, <1>5, <1>6

\* A viewer returns only from a room with viewers, one of which is served.
LEMMA CountViewersInv == ASSUME IInv, NEW c \in Conn, CountViewers(c) PROVE IInv'
  <1> USE RoomsAssumption, ConnAssumption
      DEF IInv, CountViewers, Goto, Close, roomVars, clientVars, ViewerLimitReached
  <1>1. TypeOK' /\ HubMuInv'
    <2> USE DEF TypeOK, RoomsTypeOK, RoomsInv, Running, SourceSteps, ViewerSteps,
                CommonSteps
    <2>1. TypeOK'
      BY DEF Status
    <2>2. HubMuInv'
      BY DEF HubMuInv
    <2> QED BY <2>1, <2>2
  <1>2. RolesInv'
    BY DEF TypeOK, RoomsTypeOK, RolesInv, RoomsInv, Running, SourceSteps,
           ViewerSteps, CommonSteps
  <1>3. RoomsInv'
    BY DEF TypeOK, RoomsTypeOK, RolesInv, RoomsInv, Running, Members,
           SourceSteps, ViewerSteps, CommonSteps
  <1>4. ServedInv'
    <2> SUFFICES ASSUME NEW u \in Vehicle \ Polled, rooms[u] # NoRoom
                 PROVE  \E d \in Conn : Running(d)' /\ handle'[d] = rooms[u]
      BY DEF ServedInv
    <2>1. PICK d \in Conn : Running(d) /\ handle[d] = rooms[u]
      BY DEF ServedInv
    <2>2. CASE d # c \/ pc'[c] # "closed"
      <3>1. Running(d)' /\ handle'[d] = rooms[u]
        BY <2>1, <2>2 DEF Running, TypeOK
      <3> QED BY <3>1
    <2>3. CASE d = c /\ pc'[c] = "closed"
      <3>1. ~RoomEmpty(rooms[u])
        <4>1. Cardinality(viewers[rooms[u]]) >= MaxViewers
          BY <2>1, <2>3 DEF TypeOK
        <4>2. ASSUME viewers[rooms[u]] = {} PROVE FALSE
          <5>1. Cardinality(viewers[rooms[u]]) = 0
            BY <4>2, FS_EmptySet
          <5> QED BY <4>1, <5>1
        <4> QED BY <4>2 DEF RoomEmpty
      <3>2. PICK e \in Conn : InRoom(e) /\ handle[e] = rooms[u]
        BY <3>1, MemberServes
      <3>3. e # c
        BY <3>2 DEF InRoom, Entering, RolesInv, ViewerSteps, SourceSteps, CommonSteps
      <3>4. Running(e)' /\ handle'[e] = rooms[u]
        BY <3>2, <3>3 DEF InRoom, Entering, Running, TypeOK
      <3> QED BY <3>4
    <2> QED BY <2>2, <2>3
  <1>5. MembersInv'
    BY DEF TypeOK, RoomsTypeOK, RolesInv, RoomsInv, MembersInv, Running,
           Members, InRoom, Entering, SourceSteps, ViewerSteps, CommonSteps
  <1>6. TellingInv'
    BY DEF TypeOK, RoomsTypeOK, RolesInv, RoomsInv, MembersInv, TellingInv,
           Running, Members, InRoom, Entering, SourceSteps, ViewerSteps, CommonSteps
  <1>7. AccessInv'
    <2>1. \A x \in Conn : Running(x)' => vehicle'[x] \in Access[x]
      BY DEF TypeOK, AccessInv, Running, SourceSteps, ViewerSteps, CommonSteps
    <2>2. /\ \A e \in Conn : heard'[e] \subseteq heard[e]
          /\ \A e \in Conn : pc'[e] = "idle" => pc[e] = "idle"
          /\ UNCHANGED vehicle
      BY DEF TypeOK
    <2> QED BY <2>1, <2>2 DEF AccessInv, RelayWithinAccess, TypeOK
  <1> QED BY <1>1, <1>2, <1>3, <1>4, <1>5, <1>6, <1>7

\* A viewer enters the room it looked up; it has not looked at the slot yet.
LEMMA EnterRoomInv == ASSUME IInv, NEW c \in Conn, EnterRoom(c) PROVE IInv'
  <1> USE RoomsAssumption, ConnAssumption DEF IInv, TypeOK, RoomsTypeOK,
         RolesInv, RoomsInv, Running, Members, SourceSteps, ViewerSteps,
         CommonSteps, EnterRoom, AddViewer, Goto, clientVars
  <1>1. TypeOK' /\ RolesInv' /\ HubMuInv'
    BY DEF HubMuInv, Status
  <1>2. RoomsInv' /\ ServedInv'
    BY DEF ServedInv, MembersInv, InRoom, Entering
  <1>3. MembersInv'
    BY DEF MembersInv, InRoom, Entering
  <1>4. TellingInv' /\ AccessInv'
    BY DEF TellingInv, AccessInv, RelayWithinAccess, MembersInv, InRoom, Entering
  <1> QED BY <1>1, <1>2, <1>3, <1>4

\* The first look at the slot.
LEMMA LookAtSlotInv == ASSUME IInv, NEW c \in Conn, LookAtSlot(c) PROVE IInv'
  <1> USE RoomsAssumption, ConnAssumption DEF IInv, TypeOK, RoomsTypeOK,
         RolesInv, RoomsInv, Running, Members, SourceSteps, ViewerSteps,
         CommonSteps, LookAtSlot, PublisherActive, Goto, roomVars, clientVars
  <1>1. TypeOK' /\ RolesInv' /\ HubMuInv'
    BY DEF HubMuInv, Status
  <1>2. RoomsInv' /\ ServedInv'
    BY DEF ServedInv, MembersInv, InRoom, Entering
  <1>3. MembersInv'
    BY DEF MembersInv, InRoom, Entering
  <1>4. TellingInv' /\ AccessInv'
    BY DEF TellingInv, AccessInv, RelayWithinAccess, MembersInv, InRoom, Entering
  <1> QED BY <1>1, <1>2, <1>3, <1>4

\* The joined message of a viewer.
LEMMA GreetInv == ASSUME IInv, NEW c \in Conn, Greet(c) PROVE IInv'
  <1> USE RoomsAssumption, ConnAssumption DEF IInv, TypeOK, RoomsTypeOK,
         RolesInv, RoomsInv, Running, Members, SourceSteps, ViewerSteps,
         CommonSteps, Greet, ShowStatus, PublisherActive, Delivered, Lost,
         Goto, roomVars
  <1>1. TypeOK' /\ RolesInv' /\ HubMuInv'
    BY DEF HubMuInv, Status
  <1>2. RoomsInv' /\ ServedInv'
    BY DEF ServedInv, MembersInv, InRoom, Entering
  <1>3. MembersInv'
    BY DEF MembersInv, InRoom, Entering
  <1>4. TellingInv' /\ AccessInv'
    BY DEF TellingInv, AccessInv, RelayWithinAccess, MembersInv, InRoom, Entering
  <1> QED BY <1>1, <1>2, <1>3, <1>4

\* A viewer finds the slot taken, or excuses itself from TellingInv by finding it free.
LEMMA CheckPublisherInv == ASSUME IInv, NEW c \in Conn, CheckPublisher(c) PROVE IInv'
  <1> USE RoomsAssumption, ConnAssumption DEF IInv, TypeOK, RoomsTypeOK,
         RolesInv, RoomsInv, Running, Members, SourceSteps, ViewerSteps,
         CommonSteps, CheckPublisher, PublisherActive, Goto, roomVars,
         clientVars
  <1>1. TypeOK' /\ RolesInv' /\ HubMuInv'
    BY DEF HubMuInv, Status
  <1>2. RoomsInv' /\ ServedInv'
    BY DEF ServedInv, MembersInv, InRoom, Entering
  <1>3. MembersInv'
    BY DEF MembersInv, InRoom, Entering
  <1>4. TellingInv' /\ AccessInv'
    BY DEF TellingInv, AccessInv, RelayWithinAccess, MembersInv, InRoom, Entering
  <1> QED BY <1>1, <1>2, <1>3, <1>4

\* A viewer makes itself known to the holder of the slot.
LEMMA NotifySourceInv == ASSUME IInv, NEW c \in Conn, NotifySource(c) PROVE IInv'
  <1> USE RoomsAssumption, ConnAssumption DEF IInv, TypeOK, RoomsTypeOK,
         RolesInv, RoomsInv, Running, Members, SourceSteps, ViewerSteps,
         CommonSteps, NotifySource, Tell, Delivered, Lost, Goto, roomVars
  <1>1. TypeOK' /\ RolesInv' /\ HubMuInv'
    BY DEF HubMuInv, Status
  <1>2. RoomsInv' /\ ServedInv'
    BY DEF ServedInv, MembersInv, InRoom, Entering
  <1>3. MembersInv'
    BY DEF MembersInv, InRoom, Entering
  <1>4. TellingInv' /\ AccessInv'
    BY DEF TellingInv, AccessInv, RelayWithinAccess, MembersInv, InRoom, Entering
  <1> QED BY <1>1, <1>2, <1>3, <1>4

\* A viewer is told that there is no stream.
LEMMA SayUnavailableInv == ASSUME IInv, NEW c \in Conn, SayUnavailable(c) PROVE IInv'
  <1> USE RoomsAssumption, ConnAssumption DEF IInv, TypeOK, RoomsTypeOK,
         RolesInv, RoomsInv, Running, Members, SourceSteps, ViewerSteps,
         CommonSteps, SayUnavailable, ShowStatus, Delivered, Lost, Goto,
         roomVars
  <1>1. TypeOK' /\ RolesInv' /\ HubMuInv'
    BY DEF HubMuInv, Status
  <1>2. RoomsInv' /\ ServedInv'
    BY DEF ServedInv, MembersInv, InRoom, Entering
  <1>3. MembersInv'
    BY DEF MembersInv, InRoom, Entering
  <1>4. TellingInv' /\ AccessInv'
    BY DEF TellingInv, AccessInv, RelayWithinAccess, MembersInv, InRoom, Entering
  <1> QED BY <1>1, <1>2, <1>3, <1>4

----------------------------------------------------------------------------
(* Messages of joined clients.                                             *)

\* A source asks to stop: it fetches the room of its vehicle, perhaps a new one.
LEMMA AskStopInv ==
  ASSUME IInv, NEW c \in Conn, AskStop(c)
  PROVE  IInv'
  <1>0. vehicle[c] \in Vehicle
    BY JoinedVehicle DEF Running, AskStop, Lookup, Goto
  <1> USE RoomsAssumption, ConnAssumption
      DEF IInv, TypeOK, RoomsTypeOK, RolesInv, RoomsInv,
          Running, Members, SourceSteps, ViewerSteps, CommonSteps,
          AskStop, Lookup, Goto
  <1>1. PICK r \in Room : HubRoom(vehicle[c], r) /\ handle' = [handle EXCEPT ![c] = r]
    OBVIOUS
  <1>2. pc[c] = "loop" /\ vehicle[c] \in Vehicle /\ UNCHANGED vehicle
    BY <1>0
  <1>3. /\ r \in Room
        /\ rooms' = [rooms EXCEPT ![vehicle[c]] = r]
        /\ created' = created \cup {r}
        /\ \/ rooms[vehicle[c]] = r /\ r \in created /\ UNCHANGED <<rooms, created>>
           \/ rooms[vehicle[c]] = NoRoom /\ r \notin created
        /\ hubMu = NoConn
        /\ UNCHANGED <<publisher, viewers, hubMu>>
    BY <1>1, <1>2, HubRoomPost
  <1>4. TypeOK' /\ RolesInv' /\ HubMuInv'
    <2>1. TypeOK'
      BY <1>0, <1>1, <1>3 DEF Status
    <2> QED BY <1>1, <1>3, <2>1 DEF HubMuInv
  <1>5. RoomsInv' /\ ServedInv'
    <2>1. pc'[c] \notin {"idle", "closed"} /\ pc' = [pc EXCEPT ![c] = pc'[c]]
      OBVIOUS
    <2> QED BY <1>1, <1>2, <2>1, RefetchInv
  <1>6. MembersInv'
    BY <1>1, <1>3 DEF MembersInv, InRoom, Entering
  <1>7. TellingInv'
    BY <1>1, <1>3 DEF TellingInv, MembersInv, InRoom, Entering
  <1>8. AccessInv'
    BY <1>1, <1>3 DEF AccessInv, RelayWithinAccess, MembersInv, InRoom, Entering
  <1> QED BY <1>4, <1>5, <1>6, <1>7, <1>8

\* Freeing a slot disturbs no invariant, whoever holds it.
LEMMA StopClearInv == ASSUME IInv, NEW c \in Conn, StopClear(c) PROVE IInv'
  <1> USE RoomsAssumption, ConnAssumption DEF IInv, TypeOK, RoomsTypeOK,
         RolesInv, RoomsInv, Running, Members, SourceSteps, ViewerSteps,
         CommonSteps, StopClear, ClearPublisher, Goto, clientVars
  <1>1. TypeOK' /\ RolesInv' /\ HubMuInv'
    BY DEF HubMuInv, Status
  <1>2. RoomsInv' /\ ServedInv'
    BY DEF ServedInv, MembersInv, InRoom, Entering
  <1>3. MembersInv'
    BY DEF MembersInv, InRoom, Entering
  <1>4. TellingInv' /\ AccessInv'
    BY DEF TellingInv, AccessInv, RelayWithinAccess, MembersInv, InRoom, Entering
  <1> QED BY <1>1, <1>2, <1>3, <1>4

\* Copying the viewers after a stop.
LEMMA StopNotifyInv == ASSUME IInv, NEW c \in Conn, StopNotify(c) PROVE IInv'
  <1> USE RoomsAssumption, ConnAssumption DEF IInv, TypeOK, RoomsTypeOK,
         RolesInv, RoomsInv, Running, Members, SourceSteps, ViewerSteps,
         CommonSteps, StopNotify, Snapshot, Goto, roomVars, clientVars
  <1>1. TypeOK' /\ RolesInv' /\ HubMuInv'
    BY DEF HubMuInv, Status
  <1>2. RoomsInv' /\ ServedInv'
    BY DEF ServedInv, MembersInv, InRoom, Entering
  <1>3. MembersInv'
    BY DEF MembersInv, InRoom, Entering
  <1>4. TellingInv' /\ AccessInv'
    BY DEF TellingInv, AccessInv, RelayWithinAccess, MembersInv, InRoom, Entering
  <1> QED BY <1>1, <1>2, <1>3, <1>4

\* Telling the viewers of a stop.
LEMMA StoppingInv == ASSUME IInv, NEW c \in Conn, Stopping(c) PROVE IInv'
  <1> USE RoomsAssumption, ConnAssumption DEF IInv, TypeOK, RoomsTypeOK,
         RolesInv, RoomsInv, Running, Members, SourceSteps, ViewerSteps,
         CommonSteps, Stopping, SendStatus, ShowStatus, Delivered, Lost, Goto,
         roomVars
  <1>1. TypeOK' /\ RolesInv' /\ HubMuInv'
    <2>1. TypeOK'
      BY DEF Status
    <2>2. RolesInv'
      OBVIOUS
    <2>3. HubMuInv'
      BY DEF HubMuInv
    <2> QED BY <2>1, <2>2, <2>3
  <1>2. RoomsInv' /\ ServedInv'
    <2>1. RoomsInv'
      BY DEF MembersInv, InRoom, Entering
    <2>2. ServedInv'
      BY DEF ServedInv, MembersInv, InRoom, Entering
    <2> QED BY <2>1, <2>2
  <1>3. MembersInv'
    BY DEF MembersInv, InRoom, Entering
  <1>4. TellingInv'
    BY DEF TellingInv, MembersInv, InRoom, Entering
  <1>5. AccessInv'
    BY DEF AccessInv, RelayWithinAccess, MembersInv, InRoom, Entering
  <1> QED BY <1>1, <1>2, <1>3, <1>4, <1>5

\* A relayed message: sender and addressee are in, or look up, the room of one vehicle.
LEMMA RelayInv ==
  ASSUME IInv, NEW c \in Conn, NEW d \in Conn, Relay(c, d)
  PROVE  IInv'
  <1>0. vehicle[c] \in Vehicle
    BY JoinedVehicle DEF Running, Relay, Goto
  <1> USE RoomsAssumption, ConnAssumption
      DEF IInv, TypeOK, RoomsTypeOK, RolesInv, RoomsInv,
          Running, Members, SourceSteps, ViewerSteps, CommonSteps,
          Relay, Addressees, Hear, Delivered, Lost, Goto
  <1>1. PICK r \in Room : /\ HubRoom(vehicle[c], r)
                        /\ handle' = [handle EXCEPT ![c] = r]
                        /\ IF d \in Addressees(c, r) THEN Hear(d, c)
                                                     ELSE UNCHANGED heard
    OBVIOUS
  <1>2. pc[c] = "loop" /\ vehicle[c] \in Vehicle /\ UNCHANGED vehicle
    BY <1>0
  <1>3. /\ r \in Room
        /\ rooms' = [rooms EXCEPT ![vehicle[c]] = r]
        /\ created' = created \cup {r}
        /\ \/ rooms[vehicle[c]] = r /\ r \in created /\ UNCHANGED <<rooms, created>>
           \/ rooms[vehicle[c]] = NoRoom /\ r \notin created
        /\ hubMu = NoConn
        /\ UNCHANGED <<publisher, viewers, hubMu>>
    BY <1>1, <1>2, HubRoomPost
  <1>4. TypeOK' /\ RolesInv' /\ HubMuInv'
    <2>1. TypeOK'
      BY <1>0, <1>1, <1>3 DEF Status
    <2> QED BY <1>1, <1>3, <2>1 DEF HubMuInv
  <1>5. RoomsInv' /\ ServedInv'
    <2>1. pc'[c] \notin {"idle", "closed"} /\ pc' = [pc EXCEPT ![c] = pc'[c]]
      OBVIOUS
    <2> QED BY <1>1, <1>2, <2>1, RefetchInv
  <1>6. MembersInv'
    BY <1>1, <1>3 DEF MembersInv, InRoom, Entering
  <1>7. TellingInv'
    BY <1>1, <1>3 DEF TellingInv, MembersInv, InRoom, Entering
  <1>8. AccessInv'
    <2>1. \A x \in Conn : Running(x)' => vehicle'[x] \in Access[x]
      BY <1>1, <1>3 DEF AccessInv
    <2>2. \A x \in Conn : \A y \in heard'[x] : pc'[y] # "idle"
      BY <1>1, <1>3 DEF AccessInv, MembersInv, InRoom, Entering
    <2>3. RelayWithinAccess'
      BY <1>1, <1>3 DEF AccessInv, RelayWithinAccess, MembersInv, InRoom, Entering
    <2> QED BY <2>1, <2>2, <2>3 DEF AccessInv
  <1> QED BY <1>4, <1>5, <1>6, <1>7, <1>8

----------------------------------------------------------------------------
(* Leaving, and the stream status request.                                 *)

\* The client hung up: cleanup fetches the room of the vehicle, perhaps a new one.
LEMMA LeaveInv ==
  ASSUME IInv, NEW c \in Conn, Leave(c)
  PROVE  IInv'
  <1>0. vehicle[c] \in Vehicle
    BY JoinedVehicle DEF Running, Leave, Lookup, Goto
  <1> USE RoomsAssumption, ConnAssumption
      DEF IInv, TypeOK, RoomsTypeOK, RolesInv, RoomsInv,
          Running, Members, SourceSteps, ViewerSteps, CommonSteps,
          Leave, Lookup, Goto, clientVars
  <1>1. PICK r \in Room : HubRoom(vehicle[c], r) /\ handle' = [handle EXCEPT ![c] = r]
    OBVIOUS
  <1>2. pc[c] = "loop" /\ vehicle[c] \in Vehicle /\ UNCHANGED vehicle
    BY <1>0
  <1>3. /\ r \in Room
        /\ rooms' = [rooms EXCEPT ![vehicle[c]] = r]
        /\ created' = created \cup {r}
        /\ \/ rooms[vehicle[c]] = r /\ r \in created /\ UNCHANGED <<rooms, created>>
           \/ rooms[vehicle[c]] = NoRoom /\ r \notin created
        /\ hubMu = NoConn
        /\ UNCHANGED <<publisher, viewers, hubMu>>
    BY <1>1, <1>2, HubRoomPost
  <1>4. TypeOK' /\ RolesInv' /\ HubMuInv'
    <2>1. TypeOK'
      BY <1>0, <1>1, <1>3 DEF Status
    <2> QED BY <1>1, <1>3, <2>1 DEF HubMuInv
  <1>5. RoomsInv' /\ ServedInv'
    <2>1. pc'[c] \notin {"idle", "closed"} /\ pc' = [pc EXCEPT ![c] = pc'[c]]
      OBVIOUS
    <2> QED BY <1>1, <1>2, <2>1, RefetchInv
  <1>6. MembersInv'
    BY <1>1, <1>3 DEF MembersInv, InRoom, Entering
  <1>7. TellingInv'
    BY <1>1, <1>3 DEF TellingInv, MembersInv, InRoom, Entering
  <1>8. AccessInv'
    <2>1. \A x \in Conn : Running(x)' => vehicle'[x] \in Access[x]
      BY <1>1, <1>3 DEF AccessInv
    <2>2. \A x \in Conn : \A y \in heard'[x] : pc'[y] # "idle"
      BY <1>1, <1>3 DEF AccessInv, MembersInv, InRoom, Entering
    <2>3. RelayWithinAccess'
      BY <1>1, <1>3 DEF AccessInv, RelayWithinAccess, MembersInv, InRoom, Entering
    <2> QED BY <2>1, <2>2, <2>3 DEF AccessInv
  <1> QED BY <1>4, <1>5, <1>6, <1>7, <1>8

\* A source frees the slot of its vehicle.
LEMMA LeaveClearInv == ASSUME IInv, NEW c \in Conn, LeaveClear(c) PROVE IInv'
  <1> USE RoomsAssumption, ConnAssumption DEF IInv, TypeOK, RoomsTypeOK,
         RolesInv, RoomsInv, Running, Members, SourceSteps, ViewerSteps,
         CommonSteps, LeaveClear, ClearPublisher, Goto, clientVars
  <1>1. TypeOK' /\ RolesInv' /\ HubMuInv'
    BY DEF HubMuInv, Status
  <1>2. RoomsInv' /\ ServedInv'
    BY DEF ServedInv, MembersInv, InRoom, Entering
  <1>3. MembersInv'
    BY DEF MembersInv, InRoom, Entering
  <1>4. TellingInv' /\ AccessInv'
    BY DEF TellingInv, AccessInv, RelayWithinAccess, MembersInv, InRoom, Entering
  <1> QED BY <1>1, <1>2, <1>3, <1>4

\* Copying the viewers for stream_stopped.
LEMMA LeaveStopInv == ASSUME IInv, NEW c \in Conn, LeaveStop(c) PROVE IInv'
  <1> USE RoomsAssumption, ConnAssumption DEF IInv, TypeOK, RoomsTypeOK,
         RolesInv, RoomsInv, Running, Members, SourceSteps, ViewerSteps,
         CommonSteps, LeaveStop, Snapshot, Goto, roomVars, clientVars
  <1>1. TypeOK' /\ RolesInv' /\ HubMuInv'
    BY DEF HubMuInv, Status
  <1>2. RoomsInv' /\ ServedInv'
    BY DEF ServedInv, MembersInv, InRoom, Entering
  <1>3. MembersInv'
    BY DEF MembersInv, InRoom, Entering
  <1>4. TellingInv' /\ AccessInv'
    BY DEF TellingInv, AccessInv, RelayWithinAccess, MembersInv, InRoom, Entering
  <1> QED BY <1>1, <1>2, <1>3, <1>4

\* stream_stopped to the copies.
LEMMA LeaveStoppingInv == ASSUME IInv, NEW c \in Conn, LeaveStopping(c) PROVE IInv'
  <1> USE RoomsAssumption, ConnAssumption DEF IInv, TypeOK, RoomsTypeOK,
         RolesInv, RoomsInv, Running, Members, SourceSteps, ViewerSteps,
         CommonSteps, LeaveStopping, SendStatus, ShowStatus, Delivered, Lost,
         Goto, roomVars
  <1>1. TypeOK' /\ RolesInv' /\ HubMuInv'
    BY DEF HubMuInv, Status
  <1>2. RoomsInv' /\ ServedInv'
    BY DEF ServedInv, MembersInv, InRoom, Entering
  <1>3. MembersInv'
    <2>1. /\ UNCHANGED <<rooms, publisher, viewers, handle>>
          /\ pc[c] = "leave_stopping" /\ pc'[c] \in {"leave_stopping", "leave_gone"}
          /\ \A d \in Conn \ {c} : pc'[d] = pc[d]
      OBVIOUS
    <2>2. \A r \in Room : Members(r)' = Members(r) /\ Members(r) \subseteq Conn
      BY <2>1
    <2>3. \A v \in Vehicle : rooms[v] # NoRoom => c \notin Members(rooms[v])
      BY <2>1 DEF MembersInv, InRoom, Entering
    <2>4. \A v \in Vehicle : rooms'[v] # NoRoom =>
             \A d \in Members(rooms[v])' : InRoom(d)' /\ handle'[d] = rooms'[v]
      <3> SUFFICES ASSUME NEW v \in Vehicle, rooms[v] # NoRoom,
                          NEW d \in Members(rooms[v])'
                   PROVE  InRoom(d)' /\ handle'[d] = rooms[v]
        BY <2>1
      <3>1. d \in Conn \ {c} /\ InRoom(d) /\ handle[d] = rooms[v]
        BY <2>2, <2>3 DEF MembersInv
      <3> QED BY <2>1, <3>1 DEF InRoom
    <2>5. \A d \in Conn : pc'[d] = "leave_notify" => d \notin viewers'[handle'[d]]
      BY <2>1 DEF MembersInv
    <2>6. \A r \in Room : \A d \in Members(r)' :
             /\ pc'[d] \notin {"idle", "set_publisher", "count", "add"}
             /\ pc'[d] \in Entering \cup {"announce", "announcing", "listing",
                                         "unavailable"}
                => handle'[d] = r
      BY <2>1, <2>2 DEF MembersInv, Entering
    <2>7. \A q, r \in Room : \A d \in Members(q)' \cap Members(r)' : q = r
      BY <2>2 DEF MembersInv
    <2> QED BY <2>1, <2>4, <2>5, <2>6, <2>7 DEF MembersInv
  <1>4. TellingInv'
    BY DEF TellingInv, MembersInv, InRoom, Entering
  <1>5. AccessInv'
    <2>1. \A x \in Conn : Running(x)' => vehicle'[x] \in Access[x]
      BY DEF AccessInv
    <2>2. \A x \in Conn : \A y \in heard'[x] : pc'[y] # "idle"
      BY DEF AccessInv, MembersInv, InRoom, Entering
    <2>3. RelayWithinAccess'
      BY DEF AccessInv, RelayWithinAccess, MembersInv, InRoom, Entering
    <2> QED BY <2>1, <2>2, <2>3 DEF AccessInv
  <1> QED BY <1>1, <1>2, <1>3, <1>4, <1>5

\* Copying the viewers for source_disconnected.
LEMMA LeaveGoneInv == ASSUME IInv, NEW c \in Conn, LeaveGone(c) PROVE IInv'
  <1> USE RoomsAssumption, ConnAssumption DEF IInv, TypeOK, RoomsTypeOK,
         RolesInv, RoomsInv, Running, Members, SourceSteps, ViewerSteps,
         CommonSteps, LeaveGone, Snapshot, Goto, roomVars, clientVars
  <1>1. TypeOK' /\ RolesInv' /\ HubMuInv'
    BY DEF HubMuInv, Status
  <1>2. RoomsInv' /\ ServedInv'
    BY DEF ServedInv, MembersInv, InRoom, Entering
  <1>3. MembersInv'
    BY DEF MembersInv, InRoom, Entering
  <1>4. TellingInv' /\ AccessInv'
    BY DEF TellingInv, AccessInv, RelayWithinAccess, MembersInv, InRoom, Entering
  <1> QED BY <1>1, <1>2, <1>3, <1>4

\* source_disconnected to the copies.
LEMMA LeaveGoingInv == ASSUME IInv, NEW c \in Conn, LeaveGoing(c) PROVE IInv'
  <1> USE RoomsAssumption, ConnAssumption DEF IInv, TypeOK, RoomsTypeOK,
         RolesInv, RoomsInv, Running, Members, SourceSteps, ViewerSteps,
         CommonSteps, LeaveGoing, SendStatus, ShowStatus, Delivered, Lost,
         Goto, roomVars
  <1>1. TypeOK' /\ RolesInv' /\ HubMuInv'
    BY DEF HubMuInv, Status
  <1>2. RoomsInv' /\ ServedInv'
    <2>1. RoomsInv'
      BY DEF MembersInv, InRoom, Entering
    <2>2. ServedInv'
      BY DEF ServedInv, MembersInv, InRoom, Entering
    <2> QED BY <2>1, <2>2
  <1>3. MembersInv'
    <2>1. /\ UNCHANGED <<rooms, publisher, viewers, handle>>
          /\ pc[c] = "leave_going" /\ pc'[c] \in {"leave_going", "test_empty"}
          /\ \A d \in Conn \ {c} : pc'[d] = pc[d]
      OBVIOUS
    <2>2. \A r \in Room : Members(r)' = Members(r) /\ Members(r) \subseteq Conn
      BY <2>1
    <2>3. \A v \in Vehicle : rooms[v] # NoRoom => c \notin Members(rooms[v])
      BY <2>1 DEF MembersInv, InRoom, Entering
    <2>4. \A v \in Vehicle : rooms'[v] # NoRoom =>
             \A d \in Members(rooms[v])' : InRoom(d)' /\ handle'[d] = rooms'[v]
      <3> SUFFICES ASSUME NEW v \in Vehicle, rooms[v] # NoRoom,
                          NEW d \in Members(rooms[v])'
                   PROVE  InRoom(d)' /\ handle'[d] = rooms[v]
        BY <2>1
      <3>1. d \in Conn \ {c} /\ InRoom(d) /\ handle[d] = rooms[v]
        BY <2>2, <2>3 DEF MembersInv
      <3> QED BY <2>1, <3>1 DEF InRoom
    <2>5. \A d \in Conn : pc'[d] = "leave_notify" => d \notin viewers'[handle'[d]]
      BY <2>1 DEF MembersInv
    <2>6. \A r \in Room : \A d \in Members(r)' :
             /\ pc'[d] \notin {"idle", "set_publisher", "count", "add"}
             /\ pc'[d] \in Entering \cup {"announce", "announcing", "listing",
                                         "unavailable"}
                => handle'[d] = r
      BY <2>1, <2>2 DEF MembersInv, Entering
    <2>7. \A q, r \in Room : \A d \in Members(q)' \cap Members(r)' : q = r
      BY <2>2 DEF MembersInv
    <2> QED BY <2>1, <2>4, <2>5, <2>6, <2>7 DEF MembersInv
  <1>4. TellingInv'
    BY DEF TellingInv, MembersInv, InRoom, Entering
  <1>5. AccessInv'
    <2>1. \A x \in Conn : Running(x)' => vehicle'[x] \in Access[x]
      BY DEF AccessInv
    <2>2. \A x \in Conn : \A y \in heard'[x] : pc'[y] # "idle"
      BY DEF AccessInv, MembersInv, InRoom, Entering
    <2>3. RelayWithinAccess'
      BY DEF AccessInv, RelayWithinAccess, MembersInv, InRoom, Entering
    <2> QED BY <2>1, <2>2, <2>3 DEF AccessInv
  <1> QED BY <1>1, <1>2, <1>3, <1>4, <1>5

\* A viewer leaves the room registered for its vehicle.
LEMMA LeaveRoomInv == ASSUME IInv, NEW c \in Conn, LeaveRoom(c) PROVE IInv'
  <1> USE RoomsAssumption, ConnAssumption DEF IInv, TypeOK, RoomsTypeOK,
         RolesInv, RoomsInv, Running, Members, SourceSteps, ViewerSteps,
         CommonSteps, LeaveRoom, RemoveViewer, Goto, clientVars
  <1>1. TypeOK' /\ RolesInv' /\ HubMuInv'
    BY DEF HubMuInv, Status
  <1>2. RoomsInv' /\ ServedInv'
    BY DEF ServedInv, MembersInv, InRoom, Entering
  <1>3. MembersInv'
    BY DEF MembersInv, InRoom, Entering
  <1>4. TellingInv' /\ AccessInv'
    BY DEF TellingInv, AccessInv, RelayWithinAccess, MembersInv, InRoom, Entering
  <1> QED BY <1>1, <1>2, <1>3, <1>4

\* The holder of the slot is told that a viewer left.
LEMMA LeaveNotifyInv == ASSUME IInv, NEW c \in Conn, LeaveNotify(c) PROVE IInv'
  <1> USE RoomsAssumption, ConnAssumption DEF IInv, TypeOK, RoomsTypeOK,
         RolesInv, RoomsInv, Running, Members, SourceSteps, ViewerSteps,
         CommonSteps, LeaveNotify, Tell, Delivered, Lost, Goto, roomVars
  <1>1. TypeOK' /\ RolesInv' /\ HubMuInv'
    BY DEF HubMuInv, Status
  <1>2. RoomsInv' /\ ServedInv'
    BY DEF ServedInv, MembersInv, InRoom, Entering
  <1>3. MembersInv'
    BY DEF MembersInv, InRoom, Entering
  <1>4. TellingInv' /\ AccessInv'
    BY DEF TellingInv, AccessInv, RelayWithinAccess, MembersInv, InRoom, Entering
  <1> QED BY <1>1, <1>2, <1>3, <1>4

\* A connection that does not delete its room leaves somebody in it.
LEMMA TestEmptyInv == ASSUME IInv, NEW c \in Conn, TestEmpty(c) PROVE IInv'
  <1> USE RoomsAssumption, ConnAssumption
      DEF IInv, TestEmpty, TestRoomEmpty, Close, Goto, clientVars
  <1>1. TypeOK'
    BY DEF TypeOK, RoomsTypeOK, SourceSteps, ViewerSteps, CommonSteps, Status
  <1>8. HubMuInv'
    BY DEF TypeOK, RoomsTypeOK, HubMuInv
  <1>2. RolesInv'
    BY DEF TypeOK, RoomsTypeOK, RolesInv, RoomsInv, Running, SourceSteps,
           ViewerSteps, CommonSteps
  <1>3. RoomsInv'
    BY DEF TypeOK, RoomsTypeOK, RolesInv, RoomsInv, Running, Members,
           SourceSteps, ViewerSteps, CommonSteps
  <1>4. ServedInv'
    <2> SUFFICES ASSUME NEW u \in Vehicle \ Polled, rooms[u] # NoRoom
                 PROVE  \E d \in Conn : Running(d)' /\ handle'[d] = rooms[u]
      BY DEF ServedInv
    <2>1. PICK d \in Conn : Running(d) /\ handle[d] = rooms[u]
      BY DEF ServedInv
    <2>2. CASE d # c \/ pc'[c] # "closed"
      <3>1. Running(d)' /\ handle'[d] = rooms[u]
        BY <2>1, <2>2 DEF Running, TypeOK
      <3> QED BY <3>1
    <2>3. CASE d = c /\ pc'[c] = "closed"
      <3>1. ~RoomEmpty(rooms[u])
        BY <2>1, <2>3 DEF RoomsInv, HubMuInv, TypeOK, Running
      <3>2. PICK e \in Conn : InRoom(e) /\ handle[e] = rooms[u]
        BY <3>1, MemberServes
      <3>3. e # c
        BY <3>2 DEF InRoom, Entering, RolesInv, ViewerSteps, SourceSteps, CommonSteps
      <3>4. Running(e)' /\ handle'[e] = rooms[u]
        BY <3>2, <3>3 DEF InRoom, Entering, Running, TypeOK
      <3> QED BY <3>4
    <2> QED BY <2>2, <2>3
  <1>5. MembersInv'
    <2>1. /\ UNCHANGED <<rooms, publisher, viewers>>
          /\ pc[c] = "test_empty" /\ pc'[c] \in {"delete_room", "closed"}
          /\ \A d \in Conn \ {c} : pc'[d] = pc[d] /\ handle'[d] = handle[d]
      BY DEF TypeOK
    <2>2. \A r \in Room : Members(r)' = Members(r) /\ Members(r) \subseteq Conn
      BY <2>1 DEF Members, TypeOK, RoomsTypeOK
    <2>3. \A v \in Vehicle : rooms[v] # NoRoom => c \notin Members(rooms[v])
      BY <2>1 DEF MembersInv, InRoom, Entering
    <2>4. \A v \in Vehicle : rooms'[v] # NoRoom =>
             \A d \in Members(rooms[v])' : InRoom(d)' /\ handle'[d] = rooms'[v]
      <3> SUFFICES ASSUME NEW v \in Vehicle, rooms[v] # NoRoom,
                          NEW d \in Members(rooms[v])'
                   PROVE  InRoom(d)' /\ handle'[d] = rooms[v]
        BY <2>1
      <3>1. rooms[v] \in Room
        BY DEF TypeOK, RoomsTypeOK
      <3>2. d \in Conn \ {c} /\ InRoom(d) /\ handle[d] = rooms[v]
        BY <2>2, <2>3, <3>1 DEF MembersInv
      <3> QED BY <2>1, <3>2 DEF InRoom
    <2>5. \A d \in Conn : pc'[d] = "leave_notify" => d \notin viewers'[handle'[d]]
      BY <2>1 DEF MembersInv
    <2>6. \A r \in Room : \A d \in Members(r)' :
             /\ pc'[d] \notin {"idle", "set_publisher", "count", "add"}
             /\ pc'[d] \in Entering \cup {"announce", "announcing", "listing",
                                         "unavailable"}
                => handle'[d] = r
      BY <2>1, <2>2 DEF MembersInv, Entering
    <2>7. \A q, r \in Room : \A d \in Members(q)' \cap Members(r)' : q = r
      BY <2>2 DEF MembersInv
    <2> QED BY <2>1, <2>4, <2>5, <2>6, <2>7 DEF MembersInv
  <1>6. TellingInv'
    BY DEF TypeOK, RoomsTypeOK, RolesInv, RoomsInv, MembersInv, TellingInv,
           Running, Members, InRoom, Entering, SourceSteps, ViewerSteps, CommonSteps
  <1>7. AccessInv'
    <2>1. \A x \in Conn : Running(x)' => vehicle'[x] \in Access[x]
      BY DEF TypeOK, AccessInv, Running, SourceSteps, ViewerSteps, CommonSteps
    <2>2. /\ \A e \in Conn : heard'[e] \subseteq heard[e]
          /\ \A e \in Conn : pc'[e] = "idle" => pc[e] = "idle"
          /\ UNCHANGED vehicle
      BY DEF TypeOK
    <2> QED BY <2>1, <2>2 DEF AccessInv, RelayWithinAccess, TypeOK
  <1> QED BY <1>1, <1>2, <1>3, <1>4, <1>5, <1>6, <1>7, <1>8

\* Deleting the entry of an empty room: nobody else was in it.
LEMMA DeleteEmptyInv == ASSUME IInv, NEW c \in Conn, DeleteEmpty(c) PROVE IInv'
  <1> USE RoomsAssumption, ConnAssumption DEF IInv, TypeOK, RoomsTypeOK,
         RolesInv, RoomsInv, Running, Members, SourceSteps, ViewerSteps,
         CommonSteps, DeleteEmpty, DeleteRoom, Close
  <1>1. TypeOK' /\ RolesInv' /\ HubMuInv'
    <2>1. TypeOK'
      BY DEF Status
    <2>2. RolesInv'
      OBVIOUS
    <2>3. HubMuInv'
      BY DEF HubMuInv
    <2> QED BY <2>1, <2>2, <2>3
  <1>2. RoomsInv' /\ ServedInv'
    BY DEF ServedInv, MembersInv, InRoom, Entering
  <1>3. MembersInv'
    BY DEF MembersInv, InRoom, Entering
  <1>4. TellingInv' /\ AccessInv'
    BY DEF TellingInv, AccessInv, RelayWithinAccess, MembersInv, InRoom, Entering
  <1> QED BY <1>1, <1>2, <1>3, <1>4

\* A polled vehicle is exempt from ServedInv; a fresh room has no members.
LEMMA StreamStatusInv == ASSUME IInv, NEW v \in Vehicle, StreamStatus(v) PROVE IInv'
  <1> USE RoomsAssumption, ConnAssumption
      DEF IInv, StreamStatus, localVars, clientVars
  <1>1. PICK r \in Room : HubRoom(v, r)
    OBVIOUS
  <1>2. /\ r \in Room
        /\ rooms' = [rooms EXCEPT ![v] = r]
        /\ created' = created \cup {r}
        /\ \/ rooms[v] = r /\ r \in created /\ UNCHANGED <<rooms, created>>
           \/ rooms[v] = NoRoom /\ r \notin created
        /\ hubMu = NoConn
        /\ UNCHANGED <<publisher, viewers, hubMu>>
    BY <1>1, HubRoomPost
  <1> USE DEF TypeOK, RoomsTypeOK, RolesInv, RoomsInv, Running, Members,
              SourceSteps, ViewerSteps, CommonSteps
  <1>3. TypeOK' /\ RolesInv' /\ HubMuInv'
    BY <1>2 DEF HubMuInv, Status
  <1>4. RoomsInv' /\ ServedInv'
    BY <1>2 DEF ServedInv, MembersInv, InRoom, Entering
  <1>5. MembersInv'
    BY <1>2 DEF MembersInv, InRoom, Entering
  <1>6. TellingInv' /\ AccessInv'
    BY <1>2 DEF TellingInv, AccessInv, RelayWithinAccess, MembersInv, InRoom, Entering
  <1> QED BY <1>3, <1>4, <1>5, <1>6

----------------------------------------------------------------------------
(* The invariant and what follows from it.                                 *)

\* Before anybody joins there are no rooms, no members and nothing relayed.
LEMMA InitIInv == Init => IInv
  <1> SUFFICES ASSUME Init PROVE IInv
    OBVIOUS
  <1> USE RoomsAssumption, ConnAssumption DEF Init, RoomsInit
  <1>1. TypeOK /\ RolesInv /\ HubMuInv
    BY DEF TypeOK, RoomsTypeOK, RolesInv, HubMuInv, SourceSteps, ViewerSteps,
           CommonSteps, Status
  <1>2. RoomsInv /\ MembersInv /\ ServedInv
    BY DEF RoomsInv, MembersInv, ServedInv, Running, Members
  <1>3. TellingInv /\ AccessInv
    BY DEF TellingInv, AccessInv, RelayWithinAccess, Running
  <1> QED BY <1>1, <1>2, <1>3 DEF IInv

\* A step that changes nothing preserves the invariant.
LEMMA StutterInv == IInv /\ UNCHANGED vars => IInv'
  BY DEF IInv, TypeOK, RoomsTypeOK, RolesInv, RoomsInv, MembersInv, HubMuInv,
         ServedInv, TellingInv, AccessInv, RelayWithinAccess, Running, Members,
         InRoom, Entering, vars, roomVars, localVars, clientVars

\* Every step of the server preserves the invariant.
LEMMA NextIInv == IInv /\ [Next]_vars => IInv'
  <1> SUFFICES ASSUME IInv, [Next]_vars PROVE IInv'
    OBVIOUS
  <1>1. ASSUME NEW c \in Conn, SourceStep(c) PROVE IInv'
    BY <1>1, TakeSlotInv, AnnounceStartInv, AnnounceInv, ListViewersInv,
       StopClearInv, StopNotifyInv, StoppingInv, LeaveClearInv, LeaveStopInv,
       LeaveStoppingInv, LeaveGoneInv, LeaveGoingInv DEF SourceStep
  <1>2. ASSUME NEW c \in Conn, ViewerStep(c) PROVE IInv'
    BY <1>2, CountViewersInv, EnterRoomInv, LookAtSlotInv, GreetInv, CheckPublisherInv,
       NotifySourceInv, SayUnavailableInv, LeaveRoomInv, LeaveNotifyInv
       DEF ViewerStep
  <1>3. ASSUME NEW c \in Conn, TestEmpty(c) \/ DeleteEmpty(c) PROVE IInv'
    BY <1>3, TestEmptyInv, DeleteEmptyInv
  <1>4. ASSUME NEW c \in Conn, Client(c) PROVE IInv'
    BY <1>4, JoinInv, RefuseInv, AskStopInv, LeaveInv, RelayInv DEF Client
  <1>5. ASSUME NEW v \in Vehicle, StreamStatus(v) PROVE IInv'
    BY <1>5, StreamStatusInv
  <1>6. CASE UNCHANGED vars
    BY <1>6, StutterInv
  <1> QED BY <1>1, <1>2, <1>3, <1>4, <1>5, <1>6 DEF Next, Step

\* The inductive invariant holds throughout.
THEOREM InductiveInvariant == Spec => []IInv
  BY InitIInv, NextIInv, PTL DEF Spec

\* Type correctness: in particular every handler that uses its room has one.
THEOREM TypeCorrect == Spec => []TypeOK
  <1>1. IInv => TypeOK
    BY DEF IInv
  <1> QED BY <1>1, InductiveInvariant, PTL

\* In whatever order sources and viewers join, stop and leave, a source and a
\* viewer that have both finished joining know of each other's presence: the
\* source was told viewer_joined.
THEOREM JoinsMeet == Spec => []NoMissedViewer
  <1>1. IInv => NoMissedViewer
    BY DEF IInv, TellingInv, Entering, NoMissedViewer
  <1> QED BY <1>1, InductiveInvariant, PTL

\* No handler that has returned is left in a registered room, although cleanup
\* may work on another room object than the one the connection joined.
THEOREM CleanupComplete == Spec => []NoGhostMember
  <1>1. IInv => NoGhostMember
    BY DEF IInv, MembersInv, NoGhostMember, InRoom, Entering, Running
  <1> QED BY <1>1, InductiveInvariant, PTL

\* Outside the vehicles whose stream status is polled, the hub keeps no room
\* that nobody is going to remove.
THEOREM RoomsReclaimed == Spec => []NoRoomLeak
  <1>1. IInv => NoRoomLeak
    <2> SUFFICES ASSUME IInv, NEW v \in Vehicle \ Polled, rooms[v] # NoRoom
                 PROVE  \E c \in Conn : Running(c) /\ vehicle[c] = v
      BY DEF NoRoomLeak
    <2>1. PICK c \in Conn : Running(c) /\ handle[c] = rooms[v]
      BY DEF IInv, ServedInv
    <2>2. vehicle[c] = v
      BY <2>1 DEF IInv, RoomsInv
    <2> QED BY <2>1, <2>2
  <1> QED BY <1>1, InductiveInvariant, PTL

\* Offers, answers and candidates reach only clients whose token is good for
\* the vehicle of the sender.
THEOREM RelayIsolated == Spec => []RelayWithinAccess
  <1>1. IInv => RelayWithinAccess
    BY DEF IInv, AccessInv
  <1> QED BY <1>1, InductiveInvariant, PTL

----------------------------------------------------------------------------
(* The viewer limit.                                                       *)

\* What a step of c that is none of CountViewers, EnterRoom and LeaveRoom does
\* to the viewers of rooms and to those about to enter: nothing.
Apart(c) ==
  /\ UNCHANGED viewers
  /\ pc' = [pc EXCEPT ![c] = pc'[c]]
  /\ pc'[c] # "add"
  /\ handle' = [handle EXCEPT ![c] = handle'[c]]

LEMMA SourceApart == ASSUME IInv, NEW c \in Conn, SourceStep(c) PROVE Apart(c)
  <1> USE DEF Apart, IInv, TypeOK, RoomsTypeOK, Goto
  <1>1. CASE TakeSlot(c)
    BY <1>1 DEF TakeSlot, SetPublisher, Close, roomVars
  <1>2. CASE AnnounceStart(c) \/ StopNotify(c) \/ LeaveStop(c) \/ LeaveGone(c)
    BY <1>2 DEF AnnounceStart, StopNotify, LeaveStop, LeaveGone, Snapshot, roomVars
  <1>3. CASE Announce(c)
    BY <1>3 DEF Announce, SendStatus, Snapshot, roomVars
  <1>4. CASE ListViewers(c)
    BY <1>4 DEF ListViewers, roomVars
  <1>5. CASE StopClear(c) \/ LeaveClear(c)
    BY <1>5 DEF StopClear, LeaveClear, ClearPublisher
  <1>6. CASE Stopping(c) \/ LeaveStopping(c) \/ LeaveGoing(c)
    BY <1>6 DEF Stopping, LeaveStopping, LeaveGoing, SendStatus, roomVars
  <1> QED BY <1>1, <1>2, <1>3, <1>4, <1>5, <1>6 DEF SourceStep

LEMMA ViewerApart ==
  ASSUME IInv, NEW c \in Conn, ViewerStep(c),
         ~CountViewers(c), ~EnterRoom(c), ~LeaveRoom(c)
  PROVE  Apart(c)
  <1> USE DEF Apart, IInv, TypeOK, RoomsTypeOK, Goto, roomVars
  <1>1. CASE LookAtSlot(c)
    BY <1>1 DEF LookAtSlot
  <1>2. CASE Greet(c)
    BY <1>2 DEF Greet
  <1>3. CASE CheckPublisher(c)
    BY <1>3 DEF CheckPublisher
  <1>4. CASE NotifySource(c) \/ SayUnavailable(c) \/ LeaveNotify(c)
    BY <1>4 DEF NotifySource, SayUnavailable, LeaveNotify
  <1> QED BY <1>1, <1>2, <1>3, <1>4 DEF ViewerStep

LEMMA CleanupApart ==
  ASSUME IInv, NEW c \in Conn, TestEmpty(c) \/ DeleteEmpty(c) PROVE Apart(c)
  BY DEF Apart, IInv, TypeOK, RoomsTypeOK, Goto, TestEmpty, DeleteEmpty,
         TestRoomEmpty, DeleteRoom, Close

LEMMA ClientApart == ASSUME IInv, NEW c \in Conn, Client(c) PROVE Apart(c)
  <1> USE DEF Apart, IInv, TypeOK, RoomsTypeOK, Goto, HubRoom
  <1>1. ASSUME NEW v \in Vehicle, Join(c, v) PROVE Apart(c)
    BY <1>1 DEF Join, JoinAs
  <1>2. CASE Refuse(c)
    BY <1>2 DEF Refuse, Close, roomVars
  <1>3. CASE AskStop(c)
    BY <1>3 DEF AskStop, Lookup
  <1>4. CASE Leave(c)
    BY <1>4 DEF Leave, Lookup
  <1>5. ASSUME NEW d \in Conn, Relay(c, d) PROVE Apart(c)
    BY <1>5 DEF Relay
  <1> QED BY <1>1, <1>2, <1>3, <1>4, <1>5 DEF Client

\* Such a step keeps the limit, and keeps room for whoever was let past it.
LEMMA ApartLimit ==
  ASSUME IInv, NEW r \in Room, LimitInv(r), NEW c \in Conn, Apart(c)
  PROVE  LimitInv(r)'
  <1>1. \A w \in Viewers : w \in Crossing(r)' => w \in Crossing(r)
    BY ConnAssumption DEF Apart, Crossing, IInv, TypeOK
  <1>2. viewers'[r] = viewers[r]
    BY DEF Apart
  <1>3. Crossing(r)' # {} => Crossing(r) # {}
    BY <1>1 DEF Crossing
  <1> QED BY <1>2, <1>3 DEF LimitInv, WithinLimit

\* A viewer is let past the limit only while the room has a place left, and
\* takes nobody's place: the room is as it was.
LEMMA CountLimit ==
  ASSUME IInv, NEW r \in Room, LimitInv(r), NEW c \in Conn, CountViewers(c)
  PROVE  LimitInv(r)'
  <1> USE DEF CountViewers, Goto, Close, roomVars
  <1>1. viewers'[r] = viewers[r] /\ Cardinality(viewers[r]) \in Nat
    BY FS_CardinalityType DEF LimitInv
  <1>2. CASE handle[c] = r /\ ~ViewerLimitReached(r)
    BY <1>1, <1>2, RoomsAssumption DEF ViewerLimitReached, LimitInv, WithinLimit
  <1>3. CASE handle[c] # r \/ ViewerLimitReached(handle[c])
    <2>1. \A w \in Viewers : w \in Crossing(r)' => w \in Crossing(r)
      BY <1>3, ConnAssumption DEF Crossing, IInv, TypeOK
    <2>2. Crossing(r)' # {} => Crossing(r) # {}
      BY <2>1 DEF Crossing
    <2> QED BY <1>1, <2>2 DEF LimitInv, WithinLimit
  <1> QED BY <1>2, <1>3

\* Entering uses up the place, and nobody else is on the way.
LEMMA EnterLimit ==
  ASSUME IInv, NEW r \in Room, OneAtATime(r), LimitInv(r),
         NEW c \in Conn, EnterRoom(c)
  PROVE  LimitInv(r)'
  <1> USE DEF EnterRoom, Goto, AddViewer
  <1> USE DEF IInv, TypeOK, RoomsTypeOK
  <1>1. c \in Viewers /\ handle[c] \in Room
    <2>1. c \in Viewers
      BY ConnAssumption DEF RolesInv, SourceSteps, CommonSteps
    <2>2. handle[c] \in created
      BY DEF RoomsInv, Running
    <2> QED BY <2>1, <2>2
  <1>2. CASE handle[c] = r
    <2>1. c \in Crossing(r)
      BY <1>1, <1>2 DEF Crossing
    <2>2. Cardinality(viewers[r]) < MaxViewers
      BY <2>1 DEF LimitInv
    <2>3. viewers'[r] = viewers[r] \cup {c}
      BY <1>2
    <2>4. /\ IsFiniteSet(viewers'[r])
          /\ Cardinality(viewers'[r]) <= Cardinality(viewers[r]) + 1
      <3>1. Cardinality(viewers[r]) \in Nat
        BY FS_CardinalityType DEF LimitInv
      <3>2. IsFiniteSet(viewers[r])
        BY DEF LimitInv
      <3> HIDE DEF EnterRoom, AddViewer, IInv, LimitInv
      <3>3. /\ IsFiniteSet(viewers[r] \cup {c})
            /\ Cardinality(viewers[r] \cup {c})
                = IF c \in viewers[r] THEN Cardinality(viewers[r])
                  ELSE Cardinality(viewers[r]) + 1
        BY <3>2, FS_AddElement
      <3> QED BY <2>3, <3>1, <3>3
    <2>5. Cardinality(viewers[r]) \in Nat /\ Cardinality(viewers'[r]) \in Nat
      BY <2>4, FS_CardinalityType DEF LimitInv
    <2>6. WithinLimit(r)'
      BY <2>2, <2>4, <2>5, RoomsAssumption DEF WithinLimit
    <2>7. Crossing(r)' = {}
      <3> SUFFICES ASSUME NEW w \in Viewers, pc'[w] = "add", handle'[w] = r
                   PROVE  FALSE
        BY DEF Crossing
      <3>1. w # c
        BY ConnAssumption
      <3>2. w \in Crossing(r)
        BY <3>1, ConnAssumption DEF Crossing
      <3> QED BY <2>1, <3>1, <3>2 DEF OneAtATime
    <2> QED BY <2>4, <2>6, <2>7 DEF LimitInv
  <1>3. CASE handle[c] # r
    <2>1. viewers'[r] = viewers[r]
      BY <1>3
    <2>2. \A w \in Viewers : w \in Crossing(r)' => w \in Crossing(r)
      BY <1>3, ConnAssumption DEF Crossing
    <2>3. Crossing(r)' # {} => Crossing(r) # {}
      BY <2>2 DEF Crossing
    <2> QED BY <2>1, <2>3 DEF LimitInv, WithinLimit
  <1> QED BY <1>2, <1>3

\* Leaving only makes place.
LEMMA LeaveLimit ==
  ASSUME IInv, NEW r \in Room, LimitInv(r), NEW c \in Conn, LeaveRoom(c)
  PROVE  LimitInv(r)'
  <1> USE DEF LeaveRoom, Goto, RemoveViewer
  <1>1. viewers'[r] \in SUBSET viewers[r]
    BY DEF IInv, TypeOK, RoomsTypeOK
  <1>2. /\ IsFiniteSet(viewers'[r])
        /\ Cardinality(viewers'[r]) <= Cardinality(viewers[r])
    BY <1>1, FS_Subset DEF LimitInv
  <1>3. Cardinality(viewers[r]) \in Nat /\ Cardinality(viewers'[r]) \in Nat
    BY <1>2, FS_CardinalityType DEF LimitInv
  <1>4. \A w \in Viewers : w \in Crossing(r)' => w \in Crossing(r)
    BY ConnAssumption DEF Crossing, IInv, TypeOK
  <1>5. Crossing(r)' # {} => Crossing(r) # {}
    BY <1>4 DEF Crossing
  <1>6. Cardinality(viewers[r]) <= MaxViewers
    BY DEF LimitInv, WithinLimit
  <1>7. Crossing(r)' # {} => Cardinality(viewers[r]) < MaxViewers
    BY <1>5 DEF LimitInv
  <1> QED BY <1>2, <1>3, <1>6, <1>7, RoomsAssumption DEF LimitInv, WithinLimit

LEMMA NextLimit ==
  ASSUME IInv, NEW r \in Room, OneAtATime(r), LimitInv(r), [Next]_vars
  PROVE  LimitInv(r)'
  <1>1. ASSUME NEW c \in Conn, Step(c) PROVE LimitInv(r)'
    BY <1>1, SourceApart, ViewerApart, CleanupApart, ApartLimit, CountLimit,
       EnterLimit, LeaveLimit DEF Step
  <1>2. ASSUME NEW c \in Conn, Client(c) PROVE LimitInv(r)'
    BY <1>2, ClientApart, ApartLimit
  <1>3. ASSUME NEW v \in Vehicle, StreamStatus(v) PROVE LimitInv(r)'
    BY <1>3 DEF StreamStatus, HubRoom, localVars, LimitInv, WithinLimit, Crossing
  <1>4. CASE UNCHANGED vars
    BY <1>4 DEF vars, roomVars, localVars, LimitInv, WithinLimit, Crossing
  <1> QED BY <1>1, <1>2, <1>3, <1>4 DEF Next

\* WEBRTC_MAX_VIEWERS bounds the viewers of every room in which the test of
\* the limit and the entry of the viewer are not interleaved with another
\* viewer's, whatever sources, departures and the other rooms do meanwhile.
THEOREM LimitHolds == Spec => LimitKept
  <1> SUFFICES ASSUME NEW r \in Room
               PROVE  Spec => ([]OneAtATime(r) => []WithinLimit(r))
    BY DEF LimitKept
  <1>1. Init => LimitInv(r)
    BY FS_EmptySet, RoomsAssumption
       DEF Init, RoomsInit, LimitInv, WithinLimit, Crossing
  <1>2. IInv /\ OneAtATime(r) /\ LimitInv(r) /\ [Next]_vars => LimitInv(r)'
    BY NextLimit
  <1>3. LimitInv(r) => WithinLimit(r)
    BY DEF LimitInv
  <1> QED BY <1>1, <1>2, <1>3, InductiveInvariant, PTL DEF Spec

----------------------------------------------------------------------------
(* The conference.                                                         *)

\* What most steps do to the people of a room: nobody comes to it who is not
\* of it already, a snapshot holds the viewers of the room worked on, and a
\* viewer is going to be told that the stream is live only if it is.
Shrinks ==
  /\ UNCHANGED vehicle
  /\ \A r \in Room : Users(r)' \subseteq Users(r)
  /\ \A c \in Conn : todo'[c] \subseteq todo[c]
                     \/ (Running(c) /\ todo'[c] \subseteq viewers[handle[c]])
  /\ \A c \in Conn : pc'[c] = "idle" => pc[c] = "idle"
  /\ \A c \in Conn : pc'[c] = "greet_live" =>
        pc[c] = "greet_live" \/ (Running(c) /\ publisher[handle[c]] # NoConn)

\* A room object in use is an object.
LEMMA RunningHandle ==
  ASSUME IInv, NEW c \in Conn, Running(c)
  PROVE  handle[c] \in Room /\ c \in Users(handle[c])
  BY DEF IInv, TypeOK, RoomsTypeOK, RoomsInv, Users

\* Users have joined.
LEMMA UserJoined ==
  ASSUME IInv, NEW r \in Room, NEW c \in Users(r)
  PROVE  c \in Conn /\ pc[c] # "idle"
  BY DEF IInv, TypeOK, RoomsTypeOK, MembersInv, Users, Members, Running

LEMMA ShrinksPlace == ASSUME IInv, PlaceInv, Shrinks PROVE PlaceInv'
  <1>1. \A r \in Room : \A c, d \in Users(r)' : vehicle'[c] = vehicle'[d]
    BY DEF Shrinks, PlaceInv
  <1>2. \A c \in Conn : pc'[c] = "idle" => todo'[c] = {}
    BY DEF Shrinks, PlaceInv, Running
  <1>3. ASSUME NEW c \in Conn, NEW w \in todo'[c]
        PROVE  w \in Viewers /\ pc'[w] # "idle" /\ vehicle'[w] = vehicle'[c]
    <2>1. CASE w \in todo[c]
      BY <2>1, ConnAssumption DEF Shrinks, PlaceInv
    <2>2. CASE Running(c) /\ w \in viewers[handle[c]]
      <3>1. handle[c] \in Room /\ c \in Users(handle[c]) /\ w \in Users(handle[c])
        BY <2>2, RunningHandle DEF Users, Members
      <3>2. w \in Viewers
        BY <2>2, <3>1 DEF IInv, RolesInv
      <3>3. vehicle[w] = vehicle[c] /\ pc[w] # "idle" /\ w \in Conn
        BY <3>1, UserJoined DEF PlaceInv
      <3> QED BY <3>2, <3>3 DEF Shrinks
    <2> QED BY <2>1, <2>2 DEF Shrinks
  <1>4. ASSUME NEW w \in Conn, pc'[w] = "greet_live"
        PROVE  \E p \in Sources : pc'[p] # "idle" /\ vehicle'[p] = vehicle'[w]
    <2>1. CASE pc[w] = "greet_live"
      <3>1. PICK p \in Sources : pc[p] # "idle" /\ vehicle[p] = vehicle[w]
        BY <2>1 DEF PlaceInv
      <3> QED BY <3>1, ConnAssumption DEF Shrinks
    <2>2. CASE Running(w) /\ publisher[handle[w]] # NoConn
      <3> DEFINE p == publisher[handle[w]]
      <3>1. handle[w] \in Room /\ w \in Users(handle[w])
        BY <2>2, RunningHandle
      <3>2. p \in Sources /\ p \in Users(handle[w])
        BY <2>2, <3>1 DEF IInv, RolesInv, Users, Members
      <3>3. vehicle[p] = vehicle[w] /\ pc[p] # "idle" /\ p \in Conn
        BY <3>1, <3>2, UserJoined DEF PlaceInv
      <3> QED BY <3>2, <3>3 DEF Shrinks
    <2> QED BY <1>4, <2>1, <2>2 DEF Shrinks
  <1> QED BY <1>1, <1>2, <1>3, <1>4 DEF PlaceInv

\* A connection that fetches the room of a vehicle, its own or, when it joins,
\* the one its token is good for, finds nobody of another vehicle there.
LEMMA FetchPlace ==
  ASSUME IInv, PlaceInv, NEW c \in Conn, NEW v \in Vehicle, NEW r \in Room,
         HubRoom(v, r), handle' = [handle EXCEPT ![c] = r],
         vehicle' = [vehicle EXCEPT ![c] = v],
         pc[c] = "idle" \/ (Running(c) /\ vehicle[c] = v),
         pc' = [pc EXCEPT ![c] = pc'[c]],
         pc'[c] \notin {"idle", "closed", "greet_live"}, UNCHANGED todo
  PROVE  PlaceInv'
  <1>1. /\ rooms[v] = r \/ r \notin created
        /\ UNCHANGED <<publisher, viewers>>
    BY HubRoomPost
  <1>2. /\ pc \in [Conn -> SourceSteps \cup ViewerSteps \cup CommonSteps]
        /\ handle \in [Conn -> Room \cup {NoRoom}]
        /\ vehicle \in [Conn -> Vehicle \cup {NoVehicle}]
    BY DEF IInv, TypeOK
  <1>3. \A d \in Users(r) : vehicle[d] = v
    <2> SUFFICES ASSUME NEW d \in Users(r) PROVE vehicle[d] = v
      OBVIOUS
    <2>0. d \in Conn
      BY UserJoined
    <2>1. CASE r \notin created
      <3>1. Members(r) = {} /\ ~(Running(d) /\ handle[d] = r)
        BY <2>0, <2>1 DEF IInv, RoomsInv
      <3> QED BY <3>1 DEF Users
    <2>2. CASE rooms[v] = r
      <3>1. Running(d) /\ handle[d] = r
        <4>1. CASE d \in Members(r)
          <5>1. InRoom(d) /\ handle[d] = r
            BY <2>2, <4>1, RoomsAssumption DEF IInv, MembersInv
          <5> QED BY <5>1 DEF InRoom, Entering, Running
        <4> QED BY <4>1 DEF Users
      <3> QED BY <2>0, <2>2, <3>1 DEF IInv, RoomsInv
    <2> QED BY <1>1, <2>1, <2>2
  <1>4. \A q \in Room : \A d \in Users(q)' : (d = c /\ q = r) \/ d \in Users(q)
    BY <1>1, <1>2 DEF Users, Members, Running
  <1>5. \A q \in Room : \A d \in Users(q) : vehicle'[d] = vehicle[d]
    <2> SUFFICES ASSUME NEW q \in Room, NEW d \in Users(q)
                 PROVE  vehicle'[d] = vehicle[d]
      OBVIOUS
    <2>1. d \in Conn /\ pc[d] # "idle"
      BY UserJoined
    <2> QED BY <1>2, <2>1
  <1>6. vehicle'[c] = v
    BY <1>2
  <1>7. \A q \in Room : \A d, e \in Users(q)' : vehicle'[d] = vehicle'[e]
    <2> SUFFICES ASSUME NEW q \in Room, NEW d \in Users(q)', NEW e \in Users(q)'
                 PROVE  vehicle'[d] = vehicle'[e]
      OBVIOUS
    <2>1. /\ (d = c /\ q = r) \/ d \in Users(q)
          /\ (e = c /\ q = r) \/ e \in Users(q)
      BY <1>4
    <2>2. CASE d \in Users(q) /\ e \in Users(q)
      BY <1>5, <2>2 DEF PlaceInv
    <2> QED BY <1>3, <1>5, <1>6, <2>1, <2>2
  <1>8. \A d \in Conn : pc'[d] = "idle" => todo'[d] = {}
    BY <1>2 DEF PlaceInv
  <1>9. ASSUME NEW d \in Conn, NEW w \in todo'[d]
        PROVE  w \in Viewers /\ pc'[w] # "idle" /\ vehicle'[w] = vehicle'[d]
    <2>1. w \in Viewers /\ pc[w] # "idle" /\ vehicle[w] = vehicle[d] /\ w \in Conn
          /\ pc[d] # "idle"
      BY <1>9, ConnAssumption DEF PlaceInv
    <2> QED BY <1>2, <2>1
  <1>10. ASSUME NEW w \in Conn, pc'[w] = "greet_live"
         PROVE  \E p \in Sources : pc'[p] # "idle" /\ vehicle'[p] = vehicle'[w]
    <2>1. w # c /\ pc[w] = "greet_live"
      BY <1>2, <1>10
    <2>2. PICK p \in Sources : pc[p] # "idle" /\ vehicle[p] = vehicle[w]
      BY <2>1 DEF PlaceInv
    <2>3. pc'[p] # "idle" /\ vehicle'[p] = vehicle'[w]
      BY <1>2, <2>1, <2>2, ConnAssumption
    <2> QED BY <2>3
  <1> QED BY <1>7, <1>8, <1>9, <1>10 DEF PlaceInv

\* What a step of c that fetches no room does to the others: it lets c take
\* the slot of, or come into, the room c works on, or empties places.
Works(c) ==
  /\ UNCHANGED vehicle
  /\ pc' = [pc EXCEPT ![c] = pc'[c]] /\ pc'[c] # "idle"
  /\ handle' = [handle EXCEPT ![c] = handle'[c]]
  /\ pc'[c] # "closed" => Running(c) /\ handle'[c] = handle[c]
  /\ \A r \in Room : \/ publisher'[r] \in {publisher[r], NoConn}
                     \/ publisher'[r] = c /\ Running(c) /\ handle[c] = r
  /\ \A r \in Room : \A w \in viewers'[r] :
        w \in viewers[r] \/ (w = c /\ Running(c) /\ handle[c] = r)
  /\ todo' = [todo EXCEPT ![c] = todo'[c]]
  /\ todo'[c] \subseteq todo[c] \/ (Running(c) /\ todo'[c] = viewers[handle[c]])
  /\ pc'[c] = "greet_live" => publisher[handle[c]] # NoConn

LEMMA WorksShrinks == ASSUME IInv, NEW c \in Conn, Works(c) PROVE Shrinks
  <1>0. /\ pc \in [Conn -> SourceSteps \cup ViewerSteps \cup CommonSteps]
        /\ handle \in [Conn -> Room \cup {NoRoom}]
        /\ todo \in [Conn -> SUBSET Conn]
    BY DEF IInv, TypeOK
  <1>1. ASSUME NEW d \in Conn, Running(d)'
        PROVE  Running(d) /\ handle'[d] = handle[d]
    BY <1>0, <1>1 DEF Works, Running
  <1>2. ASSUME NEW r \in Room PROVE Users(r)' \subseteq Users(r)
    <2> SUFFICES ASSUME NEW d \in Users(r)' PROVE d \in Users(r)
      OBVIOUS
    <2>1. CASE d \in Conn /\ Running(d)' /\ handle'[d] = r
      BY <1>1, <2>1 DEF Users
    <2>2. CASE d \in viewers'[r]
      BY <2>2 DEF Works, Users, Members
    <2>3. CASE d = publisher'[r] /\ d # NoConn
      BY <2>3 DEF Works, Users, Members
    <2> QED BY <2>1, <2>2, <2>3 DEF Users, Members
  <1>3. \A d \in Conn : todo'[d] \subseteq todo[d]
                        \/ (Running(d) /\ todo'[d] \subseteq viewers[handle[d]])
    BY <1>0 DEF Works
  <1>4. \A d \in Conn : pc'[d] = "idle" => pc[d] = "idle"
    BY <1>0 DEF Works
  <1>5. \A d \in Conn : pc'[d] = "greet_live" =>
           pc[d] = "greet_live" \/ (Running(d) /\ publisher[handle[d]] # NoConn)
    BY <1>0 DEF Works
  <1> QED BY <1>2, <1>3, <1>4, <1>5 DEF Shrinks, Works

\* The steps that fetch no room, in groups.
LEMMA SourceWorks == ASSUME IInv, NEW c \in Conn, SourceStep(c) PROVE Works(c)
  <1>0. Running(c) => handle[c] \in Room
    BY RunningHandle
  <1> USE DEF Works, Running, Goto, IInv, TypeOK, RoomsTypeOK
  <1>1. CASE TakeSlot(c)
    BY <1>0, <1>1 DEF TakeSlot, SetPublisher, Close, roomVars
  <1>2. CASE AnnounceStart(c) \/ StopNotify(c) \/ LeaveStop(c) \/ LeaveGone(c)
    BY <1>0, <1>2 DEF AnnounceStart, StopNotify, LeaveStop, LeaveGone, Snapshot, roomVars
  <1>3. CASE Announce(c)
    BY <1>0, <1>3 DEF Announce, SendStatus, Snapshot, roomVars
  <1>4. CASE ListViewers(c)
    <2>1. UNCHANGED <<vehicle, handle, publisher, viewers>> /\ pc[c] = "listing"
      BY <1>4 DEF ListViewers, roomVars
    <2>2. pc' = [pc EXCEPT ![c] = pc'[c]] /\ pc'[c] \in {"listing", "loop"}
      BY <1>4 DEF ListViewers
    <2>3. \/ UNCHANGED todo
          \/ \E v \in todo[c] : todo' = [todo EXCEPT ![c] = @ \ {v}]
      BY <1>4 DEF ListViewers
    <2>4. todo' = [todo EXCEPT ![c] = todo'[c]] /\ todo'[c] \subseteq todo[c]
      BY <2>3
    <2> QED BY <2>1, <2>2, <2>4
  <1>5. CASE StopClear(c) \/ LeaveClear(c)
    BY <1>0, <1>5 DEF StopClear, LeaveClear, ClearPublisher
  <1>6. CASE Stopping(c) \/ LeaveStopping(c) \/ LeaveGoing(c)
    BY <1>0, <1>6 DEF Stopping, LeaveStopping, LeaveGoing, SendStatus, roomVars
  <1> QED BY <1>1, <1>2, <1>3, <1>4, <1>5, <1>6 DEF SourceStep

LEMMA ViewerWorks == ASSUME IInv, NEW c \in Conn, ViewerStep(c) PROVE Works(c)
  <1>0. Running(c) => handle[c] \in Room
    BY RunningHandle
  <1> USE DEF Works, Running, Goto, IInv, TypeOK, RoomsTypeOK, roomVars
  <1>1. CASE CountViewers(c)
    BY <1>0, <1>1 DEF CountViewers, Close
  <1>2. CASE EnterRoom(c)
    BY <1>0, <1>2 DEF EnterRoom, AddViewer
  <1>3. CASE LookAtSlot(c)
    BY <1>0, <1>3 DEF LookAtSlot, PublisherActive
  <1>4. CASE Greet(c) \/ CheckPublisher(c)
    BY <1>0, <1>4 DEF Greet, CheckPublisher
  <1>5. CASE NotifySource(c) \/ SayUnavailable(c) \/ LeaveNotify(c)
    BY <1>0, <1>5 DEF NotifySource, SayUnavailable, LeaveNotify
  <1>6. CASE LeaveRoom(c)
    BY <1>0, <1>6 DEF LeaveRoom, RemoveViewer
  <1> QED BY <1>1, <1>2, <1>3, <1>4, <1>5, <1>6 DEF ViewerStep

LEMMA CleanupWorks ==
  ASSUME IInv, NEW c \in Conn, TestEmpty(c) \/ DeleteEmpty(c) \/ Refuse(c)
  PROVE  Works(c)
  BY DEF Works, Running, IInv, TypeOK, RoomsTypeOK, Goto, TestEmpty, DeleteEmpty,
         TestRoomEmpty, DeleteRoom, Refuse, Close, roomVars

\* A request for the stream's status moves nobody.
LEMMA StatusShrinks ==
  ASSUME IInv, (\E v \in Vehicle : StreamStatus(v)) \/ UNCHANGED vars
  PROVE  Shrinks
  <1>1. UNCHANGED <<publisher, viewers, pc, vehicle, handle, todo>>
    BY DEF StreamStatus, HubRoom, vars, roomVars, localVars
  <1>2. \A r \in Room : Users(r)' \subseteq Users(r)
    BY <1>1 DEF Users, Members, Running
  <1>3. \A c \in Conn : todo'[c] \subseteq todo[c]
    BY <1>1
  <1>4. \A c \in Conn : pc'[c] = pc[c]
    BY <1>1
  <1> QED BY <1>1, <1>2, <1>3, <1>4 DEF Shrinks

\* The steps that fetch a room.
LEMMA ClientPlace ==
  ASSUME IInv, PlaceInv, NEW c \in Conn, Client(c)
  PROVE  PlaceInv'
  <1>0. /\ pc \in [Conn -> SourceSteps \cup ViewerSteps \cup CommonSteps]
        /\ vehicle \in [Conn -> Vehicle \cup {NoVehicle}]
    BY DEF IInv, TypeOK
  <1>1. ASSUME NEW v \in Vehicle, Join(c, v) PROVE PlaceInv'
    <2>1. PICK r \in Room : HubRoom(v, r) /\ handle' = [handle EXCEPT ![c] = r]
      BY <1>1 DEF Join, JoinAs
    <2>2. pc[c] = "idle" /\ vehicle' = [vehicle EXCEPT ![c] = v] /\ UNCHANGED todo
      BY <1>1 DEF Join, JoinAs, Goto
    <2>3. /\ pc' = [pc EXCEPT ![c] = pc'[c]]
          /\ pc'[c] \notin {"idle", "closed", "greet_live"}
      BY <1>0, <1>1 DEF Join, JoinAs, Goto
    <2> QED BY <2>1, <2>2, <2>3, FetchPlace
  <1>2. CASE Refuse(c)
    BY <1>2, CleanupWorks, WorksShrinks, ShrinksPlace
  <1>3. ASSUME pc[c] = "loop",
               \E r \in Room : HubRoom(vehicle[c], r) /\ handle' = [handle EXCEPT ![c] = r],
               pc' = [pc EXCEPT ![c] = pc'[c]],
               pc'[c] \notin {"idle", "closed", "greet_live"},
               UNCHANGED <<vehicle, todo>>
        PROVE  PlaceInv'
    <2>1. PICK r \in Room : HubRoom(vehicle[c], r) /\ handle' = [handle EXCEPT ![c] = r]
      BY <1>3
    <2>2. Running(c) /\ vehicle[c] \in Vehicle
      BY <1>3, JoinedVehicle DEF Running
    <2>3. vehicle' = [vehicle EXCEPT ![c] = vehicle[c]]
      BY <1>0, <1>3
    <2> QED BY <1>3, <2>1, <2>2, <2>3, FetchPlace
  <1>4. CASE AskStop(c)
    BY <1>0, <1>3, <1>4 DEF AskStop, Lookup, Goto
  <1>5. CASE Leave(c)
    BY <1>0, <1>3, <1>5 DEF Leave, Lookup, Goto
  <1>6. ASSUME NEW d \in Conn, Relay(c, d) PROVE PlaceInv'
    <2>1. \E r \in Room : HubRoom(vehicle[c], r) /\ handle' = [handle EXCEPT ![c] = r]
      BY <1>6 DEF Relay
    <2> QED BY <1>0, <1>3, <1>6, <2>1 DEF Relay, Goto
  <1> QED BY <1>1, <1>2, <1>4, <1>5, <1>6 DEF Client

LEMMA InitPlace == Init => PlaceInv
  BY DEF Init, RoomsInit, PlaceInv, Users, Members, Running

LEMMA NextPlace == IInv /\ PlaceInv /\ [Next]_vars => PlaceInv'
  BY SourceWorks, ViewerWorks, CleanupWorks, StatusShrinks, WorksShrinks,
     ShrinksPlace, ClientPlace DEF Next, Step

\* A step of the signaling server is one of the conference, or none.
Keeps == M!Next \/ UNCHANGED M!vars

LEMMA MeetMeans ==
  ASSUME NEW p \in Sources, NEW w \in Viewers,
         pc[p] # "idle", pc[w] # "idle", vehicle[p] = vehicle[w]
  PROVE  M!Meet(p, w)
  BY ConnAssumption DEF M!Meet, stage, Stage, Leaving

LEMMA PresentMeans ==
  ASSUME NEW c \in Conn, pc[c] \notin {"idle", "closed"} PROVE M!Present(c)
  BY DEF M!Present, stage, Stage, Leaving

LEMMA StageMoves ==
  ASSUME IInv, NEW c \in Conn, NEW q, pc' = [pc EXCEPT ![c] = q]
  PROVE  M!Go(c) /\ stage'[c] = Stage(q)
  BY DEF M!Go, stage, IInv, TypeOK

\* A step of c by itself, within a stage, that neither sends nor joins.
LEMMA Silent ==
  ASSUME IInv, NEW c \in Conn, NEW q, pc' = [pc EXCEPT ![c] = q],
         Stage(q) = Stage(pc[c]), UNCHANGED <<vehicle, told, heard, shown>>
  PROVE  Keeps
  <1>1. stage' = stage
    BY DEF stage, IInv, TypeOK
  <1> QED BY <1>1 DEF Keeps, M!vars

LEMMA CloseEnds ==
  ASSUME IInv, NEW c \in Conn, Close(c), pc[c] # "closed"
  PROVE  Keeps
  <1>1. M!Go(c) /\ stage'[c] = "gone"
    <2>1. M!Go(c) /\ stage'[c] = Stage("closed")
      BY StageMoves DEF Close
    <2> QED BY <2>1 DEF Stage, Leaving
  <1>2. stage[c] # "gone"
    BY DEF stage, Stage, Leaving
  <1>3. M!End(c)
    BY <1>1, <1>2 DEF M!End, Close
  <1> QED BY <1>3 DEF Keeps, M!Next

LEMMA StatusShows ==
  ASSUME IInv, NEW w \in Viewers, NEW status \in {"live", "offline"},
         ShowStatus(w, status), pc[w] # "idle",
         status = "live" => \E p \in Sources : pc[p] # "idle" /\ vehicle[p] = vehicle[w],
         stage' = stage, UNCHANGED <<vehicle, told, heard>>
  PROVE  Keeps
  <1>1. CASE UNCHANGED shown
    BY <1>1 DEF Keeps, M!vars
  <1>2. CASE pc[w] # "closed" /\ shown' = [shown EXCEPT ![w] = status]
    <2>1. w \in Conn
      BY ConnAssumption
    <2>2. M!Present(w)
      BY <1>2, <2>1, PresentMeans
    <2>3. status = "live" => \E p \in Sources : M!Meet(p, w)
      BY MeetMeans
    <2>4. M!Show(w, status)
      BY <1>2, <2>2, <2>3 DEF M!Show
    <2> QED BY <2>1, <2>4 DEF Keeps, M!Next
  <1> QED BY <1>1, <1>2 DEF ShowStatus, Delivered, Lost

\* Sending to a snapshot shows the status to one viewer at a time.
LEMMA SendShows ==
  ASSUME IInv, PlaceInv, NEW c \in Conn, NEW at, NEW status \in {"live", "offline"},
         NEW next, SendStatus(c, at, status, next), Stage(at) = Stage(next),
         status = "live" => c \in Sources, pc[c] # "idle"
  PROVE  Keeps
  <1>1. UNCHANGED <<vehicle, told, heard>> /\ pc[c] = at
    BY DEF SendStatus
  <1>2. CASE Goto(c, at, next) /\ UNCHANGED shown
    BY <1>1, <1>2, Silent DEF Goto
  <1>3. ASSUME NEW w \in todo[c], ShowStatus(w, status), UNCHANGED pc PROVE Keeps
    <2>1. w \in Viewers /\ pc[w] # "idle" /\ vehicle[w] = vehicle[c]
      BY DEF PlaceInv
    <2>2. stage' = stage
      BY <1>3 DEF stage
    <2> QED BY <1>1, <1>3, <2>1, <2>2, StatusShows
  <1> QED BY <1>2, <1>3 DEF SendStatus

\* Telling a source is news for it, unless the message is lost.
LEMMA TellKeeps ==
  ASSUME IInv, NEW p \in Sources, NEW w \in Viewers, NEW known,
         Tell(p, known), pc[p] # "idle", pc[w] # "idle", vehicle[p] = vehicle[w],
         \/ known = told[p] \cup {w}
         \/ known = told[p] \ {w} /\ stage[w] = "leaving",
         stage' = stage, UNCHANGED <<vehicle, heard, shown>>
  PROVE  Keeps
  <1>0. p \in Conn /\ w \in Conn
    BY ConnAssumption
  <1>1. CASE UNCHANGED told
    BY <1>1 DEF Keeps, M!vars
  <1>2. CASE pc[p] # "closed" /\ told' = [told EXCEPT ![p] = known]
    <2>1. M!Meet(p, w) /\ M!Present(p)
      BY <1>0, <1>2, MeetMeans, PresentMeans
    <2>2. M!Introduce(p, w) \/ M!Forget(p, w)
      BY <1>2, <2>1 DEF M!Introduce, M!Forget, M!Meet
    <2> QED BY <1>0, <2>2 DEF Keeps, M!Next
  <1> QED BY <1>1, <1>2 DEF Tell, Delivered, Lost

\* The holder of the slot of a room is of the same vehicle as whoever works
\* on the room.
LEMMA SlotMate ==
  ASSUME IInv, PlaceInv, NEW c \in Conn, Running(c), publisher[handle[c]] # NoConn
  PROVE  /\ publisher[handle[c]] \in Sources
         /\ pc[publisher[handle[c]]] # "idle"
         /\ vehicle[publisher[handle[c]]] = vehicle[c]
  <1> DEFINE p == publisher[handle[c]]
  <1>1. handle[c] \in Room /\ c \in Users(handle[c])
    BY RunningHandle
  <1>2. p \in Sources /\ p \in Users(handle[c])
    BY <1>1 DEF IInv, RolesInv, Users, Members
  <1> QED BY <1>1, <1>2, UserJoined DEF PlaceInv

LEMMA SourceKeeps ==
  ASSUME IInv, PlaceInv, NEW c \in Conn, SourceStep(c)
  PROVE  Keeps
  <1>1. CASE TakeSlot(c)
    <2>1. CASE Close(c)
      BY <1>1, <2>1, CloseEnds DEF TakeSlot
    <2>2. CASE Goto(c, "set_publisher", "announce") /\ UNCHANGED <<vehicle, clientVars>>
      BY <2>2, Silent DEF Goto, Stage, Leaving, clientVars
    <2> QED BY <1>1, <2>1, <2>2 DEF TakeSlot
  <1>2. CASE AnnounceStart(c) \/ StopNotify(c) \/ LeaveStop(c) \/ LeaveGone(c)
    BY <1>2, Silent DEF AnnounceStart, StopNotify, LeaveStop, LeaveGone, Snapshot,
                        Goto, Stage, Leaving, clientVars
  <1>3. CASE Announce(c)
    <2>1. CASE SendStatus(c, "announcing", "live", "announcing")
      <3>1. pc[c] = "announcing" /\ c \in Sources
        BY <2>1, ConnAssumption
           DEF SendStatus, IInv, RolesInv, ViewerSteps, CommonSteps
      <3> QED BY <2>1, <3>1, SendShows
    <2>2. CASE Snapshot(c, "announcing", "listing")
      BY <2>2, Silent DEF Snapshot, Goto, Stage, Leaving, clientVars
    <2> QED BY <1>3, <2>1, <2>2 DEF Announce
  <1>4. CASE ListViewers(c)
    <2>1. pc[c] = "listing" /\ UNCHANGED <<vehicle, heard, shown>> /\ c \in Sources
      BY <1>4, ConnAssumption
         DEF ListViewers, IInv, RolesInv, ViewerSteps, CommonSteps
    <2>2. CASE Goto(c, "listing", "loop") /\ UNCHANGED told
      BY <2>1, <2>2, Silent DEF Goto, Stage, Leaving
    <2>3. ASSUME NEW w \in todo[c], Tell(c, told[c] \cup {w}), UNCHANGED pc PROVE Keeps
      <3>1. w \in Viewers /\ pc[w] # "idle" /\ vehicle[w] = vehicle[c]
        BY DEF PlaceInv
      <3>2. stage' = stage
        BY <2>3 DEF stage
      <3> QED BY <2>1, <2>3, <3>1, <3>2, TellKeeps
    <2> QED BY <1>4, <2>2, <2>3 DEF ListViewers
  <1>5. CASE StopClear(c) \/ LeaveClear(c)
    BY <1>5, Silent DEF StopClear, LeaveClear, Goto, Stage, Leaving, clientVars
  <1>6. CASE Stopping(c) \/ LeaveStopping(c) \/ LeaveGoing(c)
    <2>1. pc[c] # "idle"
      BY <1>6 DEF Stopping, LeaveStopping, LeaveGoing, SendStatus
    <2> QED BY <1>6, <2>1, SendShows DEF Stopping, LeaveStopping, LeaveGoing, Stage, Leaving
  <1> QED BY <1>1, <1>2, <1>3, <1>4, <1>5, <1>6 DEF SourceStep

LEMMA ViewerKeeps ==
  ASSUME IInv, PlaceInv, NEW c \in Conn, ViewerStep(c)
  PROVE  Keeps
  <1>0. c \in Viewers
    BY ConnAssumption
       DEF ViewerStep, CountViewers, EnterRoom, LookAtSlot, Greet, CheckPublisher,
           NotifySource, SayUnavailable, LeaveRoom, LeaveNotify, Goto, IInv, RolesInv,
           SourceSteps, CommonSteps
  <1>1. CASE CountViewers(c)
    <2>1. CASE Close(c)
      BY <1>1, <2>1, CloseEnds DEF CountViewers
    <2>2. CASE Goto(c, "count", "add") /\ UNCHANGED <<vehicle, clientVars>>
      BY <2>2, Silent DEF Goto, Stage, Leaving, clientVars
    <2> QED BY <1>1, <2>1, <2>2 DEF CountViewers
  <1>2. CASE EnterRoom(c) \/ LeaveRoom(c)
    BY <1>2, Silent DEF EnterRoom, LeaveRoom, Goto, Stage, Leaving, clientVars
  <1>3. CASE LookAtSlot(c) \/ CheckPublisher(c)
    BY <1>3, Silent DEF LookAtSlot, CheckPublisher, Goto, Stage, Leaving, clientVars
  <1>4. CASE Greet(c)
    <2>1. stage' = stage
      BY <1>4 DEF Greet, stage, Stage, Leaving, IInv, TypeOK
    <2>2. CASE pc[c] = "greet_live" /\ ShowStatus(c, "live")
      <3>1. \E p \in Sources : pc[p] # "idle" /\ vehicle[p] = vehicle[c]
        BY <2>2 DEF PlaceInv
      <3> QED BY <1>0, <1>4, <2>1, <2>2, <3>1, StatusShows DEF Greet
    <2>3. CASE pc[c] = "greet_offline" /\ ShowStatus(c, "offline")
      BY <1>0, <1>4, <2>1, <2>3, StatusShows DEF Greet
    <2> QED BY <1>4, <2>2, <2>3 DEF Greet
  <1>5. CASE NotifySource(c)
    <2>1. stage' = stage /\ pc[c] = "notify" /\ UNCHANGED <<vehicle, heard, shown>>
      BY <1>5 DEF NotifySource, Goto, stage, Stage, Leaving, IInv, TypeOK
    <2>2. CASE publisher[handle[c]] = NoConn
      BY <1>5, <2>1, <2>2 DEF NotifySource, Keeps, M!vars
    <2>3. CASE publisher[handle[c]] # NoConn
      BY <1>0, <1>5, <2>1, <2>3, SlotMate, TellKeeps DEF NotifySource, Running
    <2> QED BY <2>2, <2>3
  <1>6. CASE SayUnavailable(c)
    <2>1. stage' = stage /\ pc[c] = "unavailable"
      BY <1>6 DEF SayUnavailable, Goto, stage, Stage, Leaving, IInv, TypeOK
    <2> QED BY <1>0, <1>6, <2>1, StatusShows DEF SayUnavailable
  <1>7. CASE LeaveNotify(c)
    <2>1. /\ stage' = stage /\ stage[c] = "leaving" /\ pc[c] = "leave_notify"
          /\ UNCHANGED <<vehicle, heard, shown>>
      BY <1>7 DEF LeaveNotify, Goto, stage, Stage, Leaving, IInv, TypeOK
    <2>2. CASE publisher[handle[c]] = NoConn
      BY <1>7, <2>1, <2>2 DEF LeaveNotify, Keeps, M!vars
    <2>3. CASE publisher[handle[c]] # NoConn
      BY <1>0, <1>7, <2>1, <2>3, SlotMate, TellKeeps DEF LeaveNotify, Running
    <2> QED BY <2>2, <2>3
  <1> QED BY <1>1, <1>2, <1>3, <1>4, <1>5, <1>6, <1>7 DEF ViewerStep

LEMMA CleanupKeeps ==
  ASSUME IInv, NEW c \in Conn, TestEmpty(c) \/ DeleteEmpty(c)
  PROVE  Keeps
  <1>1. CASE Close(c)
    BY <1>1, CloseEnds DEF TestEmpty, DeleteEmpty, DeleteRoom, IInv, HubMuInv
  <1>2. CASE Goto(c, "test_empty", "delete_room") /\ UNCHANGED <<vehicle, clientVars>>
    BY <1>2, Silent DEF Goto, Stage, Leaving, clientVars
  <1> QED BY <1>1, <1>2 DEF TestEmpty, DeleteEmpty

\* A relayed message goes to a member of the room its sender's vehicle has
\* registered, if it goes anywhere.
LEMMA RelayKeeps ==
  ASSUME IInv, PlaceInv, NEW c \in Conn, NEW d \in Conn, Relay(c, d)
  PROVE  Keeps
  <1>0. /\ pc[c] = "loop" /\ Running(c) /\ stage' = stage
        /\ UNCHANGED <<vehicle, told, shown>>
    BY DEF Relay, Goto, Running, stage, Stage, Leaving, IInv, TypeOK
  <1>1. PICK r \in Room : /\ HubRoom(vehicle[c], r)
                        /\ IF d \in Addressees(c, r) THEN Hear(d, c)
                                                     ELSE UNCHANGED heard
    BY DEF Relay
  <1>2. CASE UNCHANGED heard
    BY <1>0, <1>2 DEF Keeps, M!vars
  <1>3. CASE d \in Addressees(c, r) /\ heard' = [heard EXCEPT ![d] = @ \cup {c}]
    <2>1. vehicle[c] \in Vehicle
      BY <1>0, JoinedVehicle
    <2>2. d \in Members(r)
      BY <1>3 DEF Addressees, Members
    <2>3. rooms[vehicle[c]] = r
      <3>1. rooms[vehicle[c]] = r \/ r \notin created
        BY <1>1, <2>1, HubRoomPost
      <3> QED BY <2>2, <3>1 DEF IInv, RoomsInv
    <2>4. InRoom(d) /\ handle[d] = r
      BY <2>1, <2>2, <2>3, RoomsAssumption DEF IInv, MembersInv
    <2>5. Running(d)
      BY <2>4 DEF InRoom, Entering, Running
    <2>6. vehicle[d] = vehicle[c]
      BY <2>1, <2>3, <2>4, <2>5 DEF IInv, RoomsInv
    <2>7. \/ c \in Sources /\ d \in Viewers
          \/ c \in Viewers /\ d \in Sources
      <3>1. CASE c \in Sources
        BY <1>3, <3>1 DEF Addressees, IInv, RolesInv
      <3>2. CASE c \notin Sources
        BY <1>3, <3>2, ConnAssumption DEF Addressees, IInv, RolesInv
      <3> QED BY <3>1, <3>2
    <2>8. stage[c] = "in" /\ M!Present(d)
      BY <1>0, <2>5, PresentMeans DEF Running, stage, Stage, Leaving
    <2>9. M!Relay(c, d)
      BY <1>0, <1>3, <2>6, <2>8 DEF M!Relay
    <2> QED BY <2>7, <2>9 DEF Keeps, M!Next
  <1> QED BY <1>1, <1>2, <1>3 DEF Hear

LEMMA ClientKeeps ==
  ASSUME IInv, PlaceInv, NEW c \in Conn, Client(c)
  PROVE  Keeps
  <1>1. ASSUME NEW v \in Vehicle, Join(c, v) PROVE Keeps
    <2>1. /\ v \in Access[c] /\ pc[c] = "idle"
          /\ vehicle' = [vehicle EXCEPT ![c] = v]
          /\ UNCHANGED <<told, heard, shown>>
      BY <1>1 DEF Join, JoinAs, Goto, clientVars
    <2>2. stage[c] = "out"
      BY <2>1 DEF stage, Stage, Leaving
    <2>3. M!Go(c) /\ stage'[c] = "in"
      BY <1>1, StageMoves DEF Join, JoinAs, Goto, Stage, Leaving
    <2>4. M!Enter(c, v)
      BY <2>1, <2>2, <2>3 DEF M!Enter
    <2> QED BY <2>4 DEF Keeps, M!Next
  <1>2. CASE Refuse(c)
    BY <1>2, CloseEnds DEF Refuse
  <1>3. CASE AskStop(c)
    BY <1>3, Silent DEF AskStop, Lookup, Goto, Stage, Leaving
  <1>4. CASE Leave(c)
    <2>1. stage[c] = "in" /\ UNCHANGED <<vehicle, told, heard, shown>>
      BY <1>4 DEF Leave, Lookup, Goto, stage, Stage, Leaving, clientVars
    <2>2. M!Go(c) /\ stage'[c] = "leaving"
      BY <1>4, StageMoves DEF Leave, Lookup, Goto, Stage, Leaving
    <2>3. M!Leave(c)
      BY <2>1, <2>2 DEF M!Leave
    <2> QED BY <2>3 DEF Keeps, M!Next
  <1>5. ASSUME NEW d \in Conn, Relay(c, d) PROVE Keeps
    BY <1>5, RelayKeeps
  <1> QED BY <1>1, <1>2, <1>3, <1>4, <1>5 DEF Client

LEMMA NextKeeps == IInv /\ PlaceInv /\ [Next]_vars => Keeps
  <1>1. ASSUME \/ \E v \in Vehicle : StreamStatus(v)
               \/ UNCHANGED vars
        PROVE  Keeps
    BY <1>1 DEF Keeps, M!vars, StreamStatus, vars, localVars, clientVars, stage
  <1> QED BY <1>1, SourceKeeps, ViewerKeeps, CleanupKeeps, ClientKeeps DEF Next, Step

LEMMA InitKeeps == Init => M!Init
  BY DEF Init, M!Init, stage, Stage, Leaving

\* Through all the looking up, dropping and registering again of rooms, and
\* the working through snapshots of viewers that have long left, the clients
\* of one vehicle confer among themselves, each in the one it was let into.
THEOREM ConferenceKept == Spec => KeepsConference
  <1>1. IInv /\ PlaceInv /\ [Next]_vars => [M!Next]_(M!vars)
    BY NextKeeps DEF Keeps
  <1> QED BY <1>1, InitKeeps, InitPlace, NextPlace, InductiveInvariant, PTL
          DEF Spec, KeepsConference, M!Spec
============================================================================
