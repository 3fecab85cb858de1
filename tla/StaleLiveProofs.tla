-------------------------- MODULE StaleLiveProofs --------------------------
(***************************************************************************)
(* NoStaleLive holds of the signaling server: IInv and LiveInv together    *)
(* are inductive.  A viewer of a room without publisher that believes the  *)
(* stream live is owed a message by a source on its way, or has a source   *)
(* that another's clearPublisher has deposed.  One lemma per action again. *)
(***************************************************************************)
EXTENDS WebRTCSignalingProofs

\* The step of one goroutine leaves the others' variables alone, and changes
\* a slot by freeing it or taking it for itself.
Alone(c) ==
    /\ \A d \in Conn \ {c} :
          /\ pc'[d] = pc[d] /\ handle'[d] = handle[d] /\ todo'[d] = todo[d]
          /\ vehicle'[d] = vehicle[d] /\ (d \in stopped' <=> d \in stopped)
    /\ \A r \in Room : publisher'[r] \in {publisher[r], NoConn, c}

\* What is left to show of a step of c: a viewer stale after it was stale
\* before, and c is still its excuse if it was; or it has a new excuse.
StaleStays(c, v, w) ==
    \/ \E p \in Sources : Excuse(p, v, w)'
    \/ /\ Stale(v, w)
       /\ rooms'[v] = rooms[v]
       /\ c \in Sources /\ Excuse(c, v, w) => Excuse(c, v, w)'

\* A step of one goroutine preserves StaleInv if it does so for the excuse it is.
LEMMA StaleKept ==
  ASSUME IInv, StaleInv, NEW c \in Conn, Alone(c),
         \A v \in Vehicle : \A w \in Viewers \ SlowPeers :
            Stale(v, w)' => StaleStays(c, v, w)
  PROVE  StaleInv'
  <1> SUFFICES ASSUME NEW v \in Vehicle, NEW w \in Viewers \ SlowPeers, Stale(v, w)'
               PROVE  \E p \in Sources : Excuse(p, v, w)'
    BY DEF StaleInv
  <1>1. CASE \E p \in Sources : Excuse(p, v, w)'
    BY <1>1
  <1>2. CASE /\ Stale(v, w) /\ rooms'[v] = rooms[v]
             /\ c \in Sources /\ Excuse(c, v, w) => Excuse(c, v, w)'
    <2>1. PICK p \in Sources : Excuse(p, v, w)
      BY <1>2 DEF StaleInv
    <2>2. CASE p = c
      BY <1>2, <2>1, <2>2
    <2>3. CASE p # c
      <3>1. p \in Conn \ {c}
        BY <2>3, ConnAssumption
      <3>2. pc'[p] = pc[p] /\ handle'[p] = handle[p] /\ todo'[p] = todo[p]
            /\ vehicle'[p] = vehicle[p] /\ (p \in stopped' <=> p \in stopped)
        BY <3>1 DEF Alone
      <3>3. Owes(p, w, rooms[v]) => Excuse(p, v, w)'
        BY <1>2, <3>2 DEF Owes, Excuse
      <3>4. Deposed(p) /\ vehicle[p] = v => Deposed(p)' /\ vehicle'[p] = v
        BY <3>1, <3>2, RoomsAssumption DEF Deposed, Live, Alone
      <3>5. Excuse(p, v, w)'
        BY <2>1, <3>3, <3>4 DEF Excuse
      <3> QED BY <3>5
    <2> QED BY <2>2, <2>3
  <1> QED BY <1>1, <1>2 DEF StaleStays

----------------------------------------------------------------------------
(* The steps of viewers.                                                   *)

\* Counting the viewers sends nothing.
LEMMA CountViewersLive == ASSUME IInv, LiveInv, NEW c \in Conn, CountViewers(c) PROVE LiveInv'
  <1> USE RoomsAssumption, ConnAssumption
      DEF IInv, TypeOK, RoomsTypeOK, CountViewers, Goto, roomVars, clientVars
  <1>1. c \in Viewers
    BY DEF RolesInv, SourceSteps, ViewerSteps, CommonSteps
  <1>2. Alone(c)
    BY DEF Alone, Close, AddViewer, RemoveViewer, ShowStatus, Tell
  <1>3. StaleInv'
    <2> SUFFICES ASSUME NEW v \in Vehicle, NEW w \in Viewers \ SlowPeers, Stale(v, w)'
                 PROVE  StaleStays(c, v, w)
      BY <1>2, StaleKept DEF LiveInv
    <2> QED BY <1>1 DEF StaleStays, Stale, PublisherActive, AddViewer, RemoveViewer,
            Close, ShowStatus, Tell, Lost, Delivered, MembersInv, InRoom, Members, Entering
  <1>4. AnnouncingInv'
    BY DEF LiveInv, AnnouncingInv, AddViewer, RemoveViewer, Close, ShowStatus, Tell
  <1> QED BY <1>3, <1>4 DEF LiveInv

\* A viewer that enters has still to look at the slot.
LEMMA EnterRoomLive == ASSUME IInv, LiveInv, NEW c \in Conn, EnterRoom(c) PROVE LiveInv'
  <1> USE RoomsAssumption, ConnAssumption
      DEF IInv, TypeOK, RoomsTypeOK, EnterRoom, Goto, roomVars, clientVars
  <1>1. c \in Viewers
    BY DEF RolesInv, SourceSteps, ViewerSteps, CommonSteps
  <1>2. Alone(c)
    BY DEF Alone, Close, AddViewer, RemoveViewer, ShowStatus, Tell
  <1>3. StaleInv'
    <2> SUFFICES ASSUME NEW v \in Vehicle, NEW w \in Viewers \ SlowPeers, Stale(v, w)'
                 PROVE  StaleStays(c, v, w)
      BY <1>2, StaleKept DEF LiveInv
    <2> QED BY <1>1 DEF StaleStays, Stale, PublisherActive, AddViewer, RemoveViewer,
            Close, ShowStatus, Tell, Lost, Delivered, MembersInv, InRoom, Members, Entering
  <1>4. AnnouncingInv'
    BY DEF LiveInv, AnnouncingInv, AddViewer, RemoveViewer, Close, ShowStatus, Tell
  <1> QED BY <1>3, <1>4 DEF LiveInv

\* A look at the slot sends nothing yet.
LEMMA LookAtSlotLive == ASSUME IInv, LiveInv, NEW c \in Conn, LookAtSlot(c) PROVE LiveInv'
  <1> USE RoomsAssumption, ConnAssumption
      DEF IInv, TypeOK, RoomsTypeOK, LookAtSlot, Goto, roomVars, clientVars
  <1>1. c \in Viewers
    BY DEF RolesInv, SourceSteps, ViewerSteps, CommonSteps
  <1>2. Alone(c)
    BY DEF Alone, Close, AddViewer, RemoveViewer, ShowStatus, Tell
  <1>3. StaleInv'
    <2> SUFFICES ASSUME NEW v \in Vehicle, NEW w \in Viewers \ SlowPeers, Stale(v, w)'
                 PROVE  StaleStays(c, v, w)
      BY <1>2, StaleKept DEF LiveInv
    <2> QED BY <1>1 DEF StaleStays, Stale, PublisherActive, AddViewer, RemoveViewer,
            Close, ShowStatus, Tell, Lost, Delivered, MembersInv, InRoom, Members, Entering
  <1>4. AnnouncingInv'
    BY DEF LiveInv, AnnouncingInv, AddViewer, RemoveViewer, Close, ShowStatus, Tell
  <1> QED BY <1>3, <1>4 DEF LiveInv

\* The joined message may come late; the second look is still to come.
LEMMA GreetLive == ASSUME IInv, LiveInv, NEW c \in Conn, Greet(c) PROVE LiveInv'
  <1> USE RoomsAssumption, ConnAssumption
      DEF IInv, TypeOK, RoomsTypeOK, Greet, Goto, roomVars, clientVars
  <1>1. c \in Viewers
    BY DEF RolesInv, SourceSteps, ViewerSteps, CommonSteps
  <1>2. Alone(c)
    BY DEF Alone, Close, AddViewer, RemoveViewer, ShowStatus, Tell
  <1>3. StaleInv'
    <2> SUFFICES ASSUME NEW v \in Vehicle, NEW w \in Viewers \ SlowPeers, Stale(v, w)'
                 PROVE  StaleStays(c, v, w)
      BY <1>2, StaleKept DEF LiveInv
    <2> QED BY <1>1 DEF StaleStays, Stale, PublisherActive, AddViewer, RemoveViewer,
            Close, ShowStatus, Tell, Lost, Delivered, MembersInv, InRoom, Members, Entering
  <1>4. AnnouncingInv'
    BY DEF LiveInv, AnnouncingInv, AddViewer, RemoveViewer, Close, ShowStatus, Tell
  <1> QED BY <1>3, <1>4 DEF LiveInv

\* A viewer goes on to notify only if the slot is taken.
LEMMA CheckPublisherLive == ASSUME IInv, LiveInv, NEW c \in Conn, CheckPublisher(c) PROVE LiveInv'
  <1> USE RoomsAssumption, ConnAssumption
      DEF IInv, TypeOK, RoomsTypeOK, CheckPublisher, Goto, roomVars, clientVars
  <1>1. c \in Viewers
    BY DEF RolesInv, SourceSteps, ViewerSteps, CommonSteps
  <1>2. Alone(c)
    BY DEF Alone, Close, AddViewer, RemoveViewer, ShowStatus, Tell
  <1>3. StaleInv'
    <2> SUFFICES ASSUME NEW v \in Vehicle, NEW w \in Viewers \ SlowPeers, Stale(v, w)'
                 PROVE  StaleStays(c, v, w)
      BY <1>2, StaleKept DEF LiveInv
    <2> QED BY <1>1 DEF StaleStays, Stale, PublisherActive, AddViewer, RemoveViewer,
            Close, ShowStatus, Tell, Lost, Delivered, MembersInv, InRoom, Members, Entering
  <1>4. AnnouncingInv'
    BY DEF LiveInv, AnnouncingInv, AddViewer, RemoveViewer, Close, ShowStatus, Tell
  <1> QED BY <1>3, <1>4 DEF LiveInv

\* Telling the source shows nothing to viewers.
LEMMA NotifySourceLive == ASSUME IInv, LiveInv, NEW c \in Conn, NotifySource(c) PROVE LiveInv'
  <1> USE RoomsAssumption, ConnAssumption
      DEF IInv, TypeOK, RoomsTypeOK, NotifySource, Goto, roomVars, clientVars
  <1>1. c \in Viewers
    BY DEF RolesInv, SourceSteps, ViewerSteps, CommonSteps
  <1>2. Alone(c)
    BY DEF Alone, Close, AddViewer, RemoveViewer, ShowStatus, Tell
  <1>3. StaleInv'
    <2> SUFFICES ASSUME NEW v \in Vehicle, NEW w \in Viewers \ SlowPeers, Stale(v, w)'
                 PROVE  StaleStays(c, v, w)
      BY <1>2, StaleKept DEF LiveInv
    <2> QED BY <1>1 DEF StaleStays, Stale, PublisherActive, AddViewer, RemoveViewer,
            Close, ShowStatus, Tell, Lost, Delivered, MembersInv, InRoom, Members, Entering
  <1>4. AnnouncingInv'
    BY DEF LiveInv, AnnouncingInv, AddViewer, RemoveViewer, Close, ShowStatus, Tell
  <1> QED BY <1>3, <1>4 DEF LiveInv

\* A viewer that found no publisher is told so.
LEMMA SayUnavailableLive == ASSUME IInv, LiveInv, NEW c \in Conn, SayUnavailable(c) PROVE LiveInv'
  <1> USE RoomsAssumption, ConnAssumption
      DEF IInv, TypeOK, RoomsTypeOK, SayUnavailable, Goto, roomVars, clientVars
  <1>1. c \in Viewers
    BY DEF RolesInv, SourceSteps, ViewerSteps, CommonSteps
  <1>2. Alone(c)
    BY DEF Alone, Close, AddViewer, RemoveViewer, ShowStatus, Tell
  <1>3. StaleInv'
    <2> SUFFICES ASSUME NEW v \in Vehicle, NEW w \in Viewers \ SlowPeers, Stale(v, w)'
                 PROVE  StaleStays(c, v, w)
      BY <1>2, StaleKept DEF LiveInv
    <2> QED BY <1>1 DEF StaleStays, Stale, PublisherActive, AddViewer, RemoveViewer,
            Close, ShowStatus, Tell, Lost, Delivered, MembersInv, InRoom, Members, Entering
  <1>4. AnnouncingInv'
    BY DEF LiveInv, AnnouncingInv, AddViewer, RemoveViewer, Close, ShowStatus, Tell
  <1> QED BY <1>3, <1>4 DEF LiveInv

\* A viewer that leaves takes its belief along.
LEMMA LeaveRoomLive == ASSUME IInv, LiveInv, NEW c \in Conn, LeaveRoom(c) PROVE LiveInv'
  <1> USE RoomsAssumption, ConnAssumption
      DEF IInv, TypeOK, RoomsTypeOK, LeaveRoom, Goto, roomVars, clientVars
  <1>1. c \in Viewers
    BY DEF RolesInv, SourceSteps, ViewerSteps, CommonSteps
  <1>2. Alone(c)
    BY DEF Alone, Close, AddViewer, RemoveViewer, ShowStatus, Tell
  <1>3. StaleInv'
    <2> SUFFICES ASSUME NEW v \in Vehicle, NEW w \in Viewers \ SlowPeers, Stale(v, w)'
                 PROVE  StaleStays(c, v, w)
      BY <1>2, StaleKept DEF LiveInv
    <2> QED BY <1>1 DEF StaleStays, Stale, PublisherActive, AddViewer, RemoveViewer,
            Close, ShowStatus, Tell, Lost, Delivered, MembersInv, InRoom, Members, Entering
  <1>4. AnnouncingInv'
    BY DEF LiveInv, AnnouncingInv, AddViewer, RemoveViewer, Close, ShowStatus, Tell
  <1> QED BY <1>3, <1>4 DEF LiveInv

\* Telling the source of a departure shows nothing to viewers.
LEMMA LeaveNotifyLive == ASSUME IInv, LiveInv, NEW c \in Conn, LeaveNotify(c) PROVE LiveInv'
  <1> USE RoomsAssumption, ConnAssumption
      DEF IInv, TypeOK, RoomsTypeOK, LeaveNotify, Goto, roomVars, clientVars
  <1>1. c \in Viewers
    BY DEF RolesInv, SourceSteps, ViewerSteps, CommonSteps
  <1>2. Alone(c)
    BY DEF Alone, Close, AddViewer, RemoveViewer, ShowStatus, Tell
  <1>3. StaleInv'
    <2> SUFFICES ASSUME NEW v \in Vehicle, NEW w \in Viewers \ SlowPeers, Stale(v, w)'
                 PROVE  StaleStays(c, v, w)
      BY <1>2, StaleKept DEF LiveInv
    <2> QED BY <1>1 DEF StaleStays, Stale, PublisherActive, AddViewer, RemoveViewer,
            Close, ShowStatus, Tell, Lost, Delivered, MembersInv, InRoom, Members, Entering
  <1>4. AnnouncingInv'
    BY DEF LiveInv, AnnouncingInv, AddViewer, RemoveViewer, Close, ShowStatus, Tell
  <1> QED BY <1>3, <1>4 DEF LiveInv

----------------------------------------------------------------------------
(* The steps of sources.                                                   *)

\* A source takes a free slot, or returns.
LEMMA TakeSlotLive == ASSUME IInv, LiveInv, NEW c \in Conn, TakeSlot(c) PROVE LiveInv'
  <1> USE RoomsAssumption, ConnAssumption
      DEF IInv, TypeOK, RoomsTypeOK, TakeSlot, Goto, Snapshot, SendStatus, roomVars, clientVars
  <1>1. c \in Sources
    BY DEF RolesInv, SourceSteps, ViewerSteps, CommonSteps
  <1>2. Alone(c)
    BY DEF Alone, Close, SetPublisher, ShowStatus, Tell
  <1>3. StaleInv'
    <2> SUFFICES ASSUME NEW v \in Vehicle, NEW w \in Viewers \ SlowPeers, Stale(v, w)'
                 PROVE  StaleStays(c, v, w)
      BY <1>2, StaleKept DEF LiveInv
    <2>1. Stale(v, w) /\ rooms'[v] = rooms[v]
      BY <1>1 DEF Stale, PublisherActive, SetPublisher, Close, ShowStatus, Tell
    <2>2. Excuse(c, v, w) => Excuse(c, v, w)'
      BY <1>1, <2>1 DEF Stale, Excuse, Owes, Deposed, Live, SetPublisher, Close,
         ShowStatus, Tell, Lost, Delivered, MembersInv, Members
    <2> QED BY <2>1, <2>2 DEF StaleStays
  <1>4. AnnouncingInv'
    BY DEF LiveInv, AnnouncingInv, SetPublisher, Close, ShowStatus, Tell, MembersInv, Members
  <1> QED BY <1>3, <1>4 DEF LiveInv

\* The snapshot to announce to is of the source's own room.
LEMMA AnnounceStartLive == ASSUME IInv, LiveInv, NEW c \in Conn, AnnounceStart(c) PROVE LiveInv'
  <1> USE RoomsAssumption, ConnAssumption
      DEF IInv, TypeOK, RoomsTypeOK, AnnounceStart, Goto, Snapshot, SendStatus, roomVars, clientVars
  <1>1. c \in Sources
    BY DEF RolesInv, SourceSteps, ViewerSteps, CommonSteps
  <1>2. Alone(c)
    BY DEF Alone, Close, SetPublisher, ShowStatus, Tell
  <1>3. StaleInv'
    <2> SUFFICES ASSUME NEW v \in Vehicle, NEW w \in Viewers \ SlowPeers, Stale(v, w)'
                 PROVE  StaleStays(c, v, w)
      BY <1>2, StaleKept DEF LiveInv
    <2>1. Stale(v, w) /\ rooms'[v] = rooms[v]
      BY <1>1 DEF Stale, PublisherActive, SetPublisher, Close, ShowStatus, Tell
    <2>2. Excuse(c, v, w) => Excuse(c, v, w)'
      BY <1>1, <2>1 DEF Stale, Excuse, Owes, Deposed, Live, SetPublisher, Close,
         ShowStatus, Tell, Lost, Delivered, MembersInv, Members
    <2> QED BY <2>1, <2>2 DEF StaleStays
  <1>4. AnnouncingInv'
    <2>1. \A w \in viewers[handle[c]] :
             /\ pc[w] \notin {"idle", "set_publisher", "count", "add"} /\ w # c
             /\ \A r \in Room : w \in viewers[r] => r = handle[c]
      BY <1>1 DEF RolesInv, RoomsInv, Running, MembersInv, Members
    <2>2. /\ todo' = [todo EXCEPT ![c] = viewers[handle[c]]]
          /\ pc' = [pc EXCEPT ![c] = "announcing"] /\ pc[c] = "announce"
          /\ UNCHANGED <<viewers, handle, stopped>>
      OBVIOUS
    <2> QED BY <2>1, <2>2 DEF LiveInv, AnnouncingInv
  <1> QED BY <1>3, <1>4 DEF LiveInv

\* A source is told of its viewers; they are told nothing.
LEMMA ListViewersLive == ASSUME IInv, LiveInv, NEW c \in Conn, ListViewers(c) PROVE LiveInv'
  <1> USE RoomsAssumption, ConnAssumption
      DEF IInv, TypeOK, RoomsTypeOK, ListViewers, Goto, Snapshot, SendStatus, roomVars, clientVars
  <1>1. c \in Sources
    BY DEF RolesInv, SourceSteps, ViewerSteps, CommonSteps
  <1>2. Alone(c)
    BY DEF Alone, Close, SetPublisher, ShowStatus, Tell
  <1>3. StaleInv'
    <2> SUFFICES ASSUME NEW v \in Vehicle, NEW w \in Viewers \ SlowPeers, Stale(v, w)'
                 PROVE  StaleStays(c, v, w)
      BY <1>2, StaleKept DEF LiveInv
    <2>1. Stale(v, w) /\ rooms'[v] = rooms[v]
      BY <1>1 DEF Stale, PublisherActive, SetPublisher, Close, ShowStatus, Tell
    <2>2. Excuse(c, v, w) => Excuse(c, v, w)'
      BY <1>1, <2>1 DEF Stale, Excuse, Owes, Deposed, Live, SetPublisher, Close,
         ShowStatus, Tell, Lost, Delivered, MembersInv, Members
    <2> QED BY <2>1, <2>2 DEF StaleStays
  <1>4. AnnouncingInv'
    BY DEF LiveInv, AnnouncingInv, SetPublisher, Close, ShowStatus, Tell, MembersInv, Members
  <1> QED BY <1>3, <1>4 DEF LiveInv

\* The snapshot that hears of the stop has every viewer of the room.
LEMMA StopNotifyLive == ASSUME IInv, LiveInv, NEW c \in Conn, StopNotify(c) PROVE LiveInv'
  <1> USE RoomsAssumption, ConnAssumption
      DEF IInv, TypeOK, RoomsTypeOK, StopNotify, Goto, Snapshot, SendStatus, roomVars, clientVars
  <1>1. c \in Sources
    BY DEF RolesInv, SourceSteps, ViewerSteps, CommonSteps
  <1>2. Alone(c)
    BY DEF Alone, Close, SetPublisher, ShowStatus, Tell
  <1>3. StaleInv'
    <2> SUFFICES ASSUME NEW v \in Vehicle, NEW w \in Viewers \ SlowPeers, Stale(v, w)'
                 PROVE  StaleStays(c, v, w)
      BY <1>2, StaleKept DEF LiveInv
    <2>1. Stale(v, w) /\ rooms'[v] = rooms[v]
      BY <1>1 DEF Stale, PublisherActive, SetPublisher, Close, ShowStatus, Tell
    <2>2. Excuse(c, v, w) => Excuse(c, v, w)'
      BY <1>1, <2>1 DEF Stale, Excuse, Owes, Deposed, Live, SetPublisher, Close,
         ShowStatus, Tell, Lost, Delivered, MembersInv, Members
    <2> QED BY <2>1, <2>2 DEF StaleStays
  <1>4. AnnouncingInv'
    BY DEF LiveInv, AnnouncingInv, SetPublisher, Close, ShowStatus, Tell, MembersInv, Members
  <1> QED BY <1>3, <1>4 DEF LiveInv

\* Who has been told of the stop is owed nothing more.
LEMMA StoppingLive == ASSUME IInv, LiveInv, NEW c \in Conn, Stopping(c) PROVE LiveInv'
  <1> USE RoomsAssumption, ConnAssumption
      DEF IInv, TypeOK, RoomsTypeOK, Stopping, Goto, Snapshot, SendStatus, roomVars, clientVars
  <1>1. c \in Sources
    BY DEF RolesInv, SourceSteps, ViewerSteps, CommonSteps
  <1>2. Alone(c)
    BY DEF Alone, Close, SetPublisher, ShowStatus, Tell
  <1>3. StaleInv'
    <2> SUFFICES ASSUME NEW v \in Vehicle, NEW w \in Viewers \ SlowPeers, Stale(v, w)'
                 PROVE  StaleStays(c, v, w)
      BY <1>2, StaleKept DEF LiveInv
    <2>1. Stale(v, w) /\ rooms'[v] = rooms[v]
      BY <1>1 DEF Stale, PublisherActive, SetPublisher, Close, ShowStatus, Tell
    <2>2. Excuse(c, v, w) => Excuse(c, v, w)'
      BY <1>1, <2>1 DEF Stale, Excuse, Owes, Deposed, Live, SetPublisher, Close,
         ShowStatus, Tell, Lost, Delivered, MembersInv, Members
    <2> QED BY <2>1, <2>2 DEF StaleStays
  <1>4. AnnouncingInv'
    BY DEF LiveInv, AnnouncingInv, SetPublisher, Close, ShowStatus, Tell, MembersInv, Members
  <1> QED BY <1>3, <1>4 DEF LiveInv

\* The first snapshot of a departure has every viewer of the room.
LEMMA LeaveStopLive == ASSUME IInv, LiveInv, NEW c \in Conn, LeaveStop(c) PROVE LiveInv'
  <1> USE RoomsAssumption, ConnAssumption
      DEF IInv, TypeOK, RoomsTypeOK, LeaveStop, Goto, Snapshot, SendStatus, roomVars, clientVars
  <1>1. c \in Sources
    BY DEF RolesInv, SourceSteps, ViewerSteps, CommonSteps
  <1>2. Alone(c)
    BY DEF Alone, Close, SetPublisher, ShowStatus, Tell
  <1>3. StaleInv'
    <2> SUFFICES ASSUME NEW v \in Vehicle, NEW w \in Viewers \ SlowPeers, Stale(v, w)'
                 PROVE  StaleStays(c, v, w)
      BY <1>2, StaleKept DEF LiveInv
    <2>1. Stale(v, w) /\ rooms'[v] = rooms[v]
      BY <1>1 DEF Stale, PublisherActive, SetPublisher, Close, ShowStatus, Tell
    <2>2. Excuse(c, v, w) => Excuse(c, v, w)'
      BY <1>1, <2>1 DEF Stale, Excuse, Owes, Deposed, Live, SetPublisher, Close,
         ShowStatus, Tell, Lost, Delivered, MembersInv, Members
    <2> QED BY <2>1, <2>2 DEF StaleStays
  <1>4. AnnouncingInv'
    BY DEF LiveInv, AnnouncingInv, SetPublisher, Close, ShowStatus, Tell, MembersInv, Members
  <1> QED BY <1>3, <1>4 DEF LiveInv

\* Whoever the first round misses, the second will reach.
LEMMA LeaveStoppingLive == ASSUME IInv, LiveInv, NEW c \in Conn, LeaveStopping(c) PROVE LiveInv'
  <1> USE RoomsAssumption, ConnAssumption
      DEF IInv, TypeOK, RoomsTypeOK, LeaveStopping, Goto, Snapshot, SendStatus, roomVars, clientVars
  <1>1. c \in Sources
    BY DEF RolesInv, SourceSteps, ViewerSteps, CommonSteps
  <1>2. Alone(c)
    BY DEF Alone, Close, SetPublisher, ShowStatus, Tell
  <1>3. StaleInv'
    <2> SUFFICES ASSUME NEW v \in Vehicle, NEW w \in Viewers \ SlowPeers, Stale(v, w)'
                 PROVE  StaleStays(c, v, w)
      BY <1>2, StaleKept DEF LiveInv
    <2>1. Stale(v, w) /\ rooms'[v] = rooms[v]
      BY <1>1 DEF Stale, PublisherActive, SetPublisher, Close, ShowStatus, Tell
    <2>2. Excuse(c, v, w) => Excuse(c, v, w)'
      BY <1>1, <2>1 DEF Stale, Excuse, Owes, Deposed, Live, SetPublisher, Close,
         ShowStatus, Tell, Lost, Delivered, MembersInv, Members
    <2> QED BY <2>1, <2>2 DEF StaleStays
  <1>4. AnnouncingInv'
    BY DEF LiveInv, AnnouncingInv, SetPublisher, Close, ShowStatus, Tell, MembersInv, Members
  <1> QED BY <1>3, <1>4 DEF LiveInv

\* The second snapshot of a departure has every viewer of the room.
LEMMA LeaveGoneLive == ASSUME IInv, LiveInv, NEW c \in Conn, LeaveGone(c) PROVE LiveInv'
  <1> USE RoomsAssumption, ConnAssumption
      DEF IInv, TypeOK, RoomsTypeOK, LeaveGone, Goto, Snapshot, SendStatus, roomVars, clientVars
  <1>1. c \in Sources
    BY DEF RolesInv, SourceSteps, ViewerSteps, CommonSteps
  <1>2. Alone(c)
    BY DEF Alone, Close, SetPublisher, ShowStatus, Tell
  <1>3. StaleInv'
    <2> SUFFICES ASSUME NEW v \in Vehicle, NEW w \in Viewers \ SlowPeers, Stale(v, w)'
                 PROVE  StaleStays(c, v, w)
      BY <1>2, StaleKept DEF LiveInv
    <2>1. Stale(v, w) /\ rooms'[v] = rooms[v]
      BY <1>1 DEF Stale, PublisherActive, SetPublisher, Close, ShowStatus, Tell
    <2>2. Excuse(c, v, w) => Excuse(c, v, w)'
      BY <1>1, <2>1 DEF Stale, Excuse, Owes, Deposed, Live, SetPublisher, Close,
         ShowStatus, Tell, Lost, Delivered, MembersInv, Members
    <2> QED BY <2>1, <2>2 DEF StaleStays
  <1>4. AnnouncingInv'
    BY DEF LiveInv, AnnouncingInv, SetPublisher, Close, ShowStatus, Tell, MembersInv, Members
  <1> QED BY <1>3, <1>4 DEF LiveInv

\* Who has been told of the departure is owed nothing more.
LEMMA LeaveGoingLive == ASSUME IInv, LiveInv, NEW c \in Conn, LeaveGoing(c) PROVE LiveInv'
  <1> USE RoomsAssumption, ConnAssumption
      DEF IInv, TypeOK, RoomsTypeOK, LeaveGoing, Goto, Snapshot, SendStatus, roomVars, clientVars
  <1>1. c \in Sources
    BY DEF RolesInv, SourceSteps, ViewerSteps, CommonSteps
  <1>2. Alone(c)
    BY DEF Alone, Close, SetPublisher, ShowStatus, Tell
  <1>3. StaleInv'
    <2> SUFFICES ASSUME NEW v \in Vehicle, NEW w \in Viewers \ SlowPeers, Stale(v, w)'
                 PROVE  StaleStays(c, v, w)
      BY <1>2, StaleKept DEF LiveInv
    <2>1. Stale(v, w) /\ rooms'[v] = rooms[v]
      BY <1>1 DEF Stale, PublisherActive, SetPublisher, Close, ShowStatus, Tell
    <2>2. Excuse(c, v, w) => Excuse(c, v, w)'
      BY <1>1, <2>1 DEF Stale, Excuse, Owes, Deposed, Live, SetPublisher, Close,
         ShowStatus, Tell, Lost, Delivered, MembersInv, Members
    <2> QED BY <2>1, <2>2 DEF StaleStays
  <1>4. AnnouncingInv'
    BY DEF LiveInv, AnnouncingInv, SetPublisher, Close, ShowStatus, Tell, MembersInv, Members
  <1> QED BY <1>3, <1>4 DEF LiveInv

\* A source that announces itself to a viewer after losing its slot is the
\* viewer's excuse.
LEMMA AnnounceLive == ASSUME IInv, LiveInv, NEW c \in Conn, Announce(c) PROVE LiveInv'
  <1> USE RoomsAssumption, ConnAssumption
      DEF IInv, TypeOK, RoomsTypeOK, Announce, Goto, Snapshot, SendStatus, roomVars,
          clientVars
  <1>1. c \in Sources
    BY DEF RolesInv, SourceSteps, ViewerSteps, CommonSteps
  <1>2. Alone(c)
    BY DEF Alone, ShowStatus
  <1>3. StaleInv'
    <2> SUFFICES ASSUME NEW v \in Vehicle, NEW w \in Viewers \ SlowPeers, Stale(v, w)'
                 PROVE  StaleStays(c, v, w)
      BY <1>2, StaleKept DEF LiveInv
    <2>1. CASE Stale(v, w)
      <3>1. rooms'[v] = rooms[v]
        OBVIOUS
      <3>2. Excuse(c, v, w) => Excuse(c, v, w)'
        BY <1>1 DEF Excuse, Owes, Deposed, Live
      <3> QED BY <2>1, <3>1, <3>2 DEF StaleStays
    <2>2. CASE ~Stale(v, w)
      <3>1. w \in todo[c] /\ pc[c] = "announcing" /\ pc'[c] = "announcing"
        BY <2>2 DEF Stale, PublisherActive, ShowStatus
      <3>2. rooms[v] \in Room /\ w \in viewers[rooms[v]] /\ publisher[rooms[v]] = NoConn
        BY DEF Stale, PublisherActive
      <3>3. handle[c] = rooms[v] /\ c \notin stopped
        BY <1>1, <3>1, <3>2 DEF LiveInv, AnnouncingInv
      <3>4. vehicle[c] = v
        BY <3>1, <3>3 DEF RoomsInv, Running
      <3>5. \A r \in Room : publisher[r] # c
        BY <3>1, <3>2, <3>3 DEF MembersInv, Members
      <3>6. Deposed(c)' /\ vehicle'[c] = v
        BY <1>1, <3>1, <3>3, <3>4, <3>5 DEF Deposed, Live
      <3> QED BY <1>1, <3>6 DEF StaleStays, Excuse
    <2> QED BY <2>1, <2>2
  <1>4. AnnouncingInv'
    BY DEF LiveInv, AnnouncingInv, ShowStatus
  <1> QED BY <1>3, <1>4 DEF LiveInv

\* Whoever clears a slot owes its viewers the news.
LEMMA StopClearLive == ASSUME IInv, LiveInv, NEW c \in Conn, StopClear(c) PROVE LiveInv'
  <1> USE RoomsAssumption, ConnAssumption
      DEF IInv, TypeOK, RoomsTypeOK, StopClear, Goto, ClearPublisher, clientVars
  <1>1. c \in Sources
    BY DEF RolesInv, SourceSteps, ViewerSteps, CommonSteps
  <1>2. Alone(c)
    BY DEF Alone
  <1>3. StaleInv'
    <2> SUFFICES ASSUME NEW v \in Vehicle, NEW w \in Viewers \ SlowPeers, Stale(v, w)'
                 PROVE  StaleStays(c, v, w)
      BY <1>2, StaleKept DEF LiveInv
    <2>1. CASE handle[c] = rooms[v]
      BY <1>1, <2>1 DEF StaleStays, Excuse, Owes
    <2>2. CASE handle[c] # rooms[v]
      BY <1>1, <2>2 DEF StaleStays, Stale, PublisherActive, Excuse, Owes, Deposed, Live
    <2> QED BY <2>1, <2>2
  <1>4. AnnouncingInv'
    BY DEF LiveInv, AnnouncingInv
  <1> QED BY <1>3, <1>4 DEF LiveInv

\* A source that leaves owes the viewers the news, too.
LEMMA LeaveClearLive == ASSUME IInv, LiveInv, NEW c \in Conn, LeaveClear(c) PROVE LiveInv'
  <1> USE RoomsAssumption, ConnAssumption
      DEF IInv, TypeOK, RoomsTypeOK, LeaveClear, Goto, ClearPublisher, clientVars
  <1>1. c \in Sources
    BY DEF RolesInv, SourceSteps, ViewerSteps, CommonSteps
  <1>2. Alone(c)
    BY DEF Alone
  <1>3. StaleInv'
    <2> SUFFICES ASSUME NEW v \in Vehicle, NEW w \in Viewers \ SlowPeers, Stale(v, w)'
                 PROVE  StaleStays(c, v, w)
      BY <1>2, StaleKept DEF LiveInv
    <2>1. CASE handle[c] = rooms[v]
      BY <1>1, <2>1 DEF StaleStays, Excuse, Owes
    <2>2. CASE handle[c] # rooms[v]
      BY <1>1, <2>2 DEF StaleStays, Stale, PublisherActive, Excuse, Owes, Deposed, Live
    <2> QED BY <2>1, <2>2
  <1>4. AnnouncingInv'
    BY DEF LiveInv, AnnouncingInv
  <1> QED BY <1>3, <1>4 DEF LiveInv

----------------------------------------------------------------------------
(* The steps of both, and of clients.                                      *)

\* Testing a room for emptiness, and returning, shows nothing.
LEMMA TestEmptyLive == ASSUME IInv, LiveInv, NEW c \in Conn, TestEmpty(c) PROVE LiveInv'
  <1> USE RoomsAssumption, ConnAssumption
      DEF IInv, TypeOK, RoomsTypeOK, TestEmpty, TestRoomEmpty, Goto, Close, roomVars, clientVars
  <1>1. Alone(c)
    BY DEF Alone
  <1>2. StaleInv'
    <2> SUFFICES ASSUME NEW v \in Vehicle, NEW w \in Viewers \ SlowPeers, Stale(v, w)'
                 PROVE  StaleStays(c, v, w)
      BY <1>1, StaleKept DEF LiveInv
    <2>1. Stale(v, w) /\ rooms'[v] = rooms[v]
      BY DEF Stale, PublisherActive
    <2>2. ~Excuse(c, v, w)
      BY DEF Excuse, Owes, Deposed, Live
    <2> QED BY <2>1, <2>2 DEF StaleStays
  <1>3. AnnouncingInv'
    BY DEF LiveInv, AnnouncingInv
  <1> QED BY <1>2, <1>3 DEF LiveInv

\* Deleting an empty room, and returning, shows nothing.
LEMMA DeleteEmptyLive == ASSUME IInv, LiveInv, NEW c \in Conn, DeleteEmpty(c) PROVE LiveInv'
  <1> USE RoomsAssumption, ConnAssumption
      DEF IInv, TypeOK, RoomsTypeOK, DeleteEmpty, DeleteRoom, Goto, Close, roomVars, clientVars
  <1>1. Alone(c)
    BY DEF Alone
  <1>2. StaleInv'
    <2> SUFFICES ASSUME NEW v \in Vehicle, NEW w \in Viewers \ SlowPeers, Stale(v, w)'
                 PROVE  StaleStays(c, v, w)
      BY <1>1, StaleKept DEF LiveInv
    <2>1. Stale(v, w) /\ rooms'[v] = rooms[v]
      BY DEF Stale, PublisherActive
    <2>2. ~Excuse(c, v, w)
      BY DEF Excuse, Owes, Deposed, Live
    <2> QED BY <2>1, <2>2 DEF StaleStays
  <1>3. AnnouncingInv'
    BY DEF LiveInv, AnnouncingInv
  <1> QED BY <1>2, <1>3 DEF LiveInv

\* A connection refused has shown nothing.
LEMMA RefuseLive == ASSUME IInv, LiveInv, NEW c \in Conn, Refuse(c) PROVE LiveInv'
  <1> USE RoomsAssumption, ConnAssumption
      DEF IInv, TypeOK, RoomsTypeOK, Refuse, Goto, Close, roomVars, clientVars
  <1>1. Alone(c)
    BY DEF Alone
  <1>2. StaleInv'
    <2> SUFFICES ASSUME NEW v \in Vehicle, NEW w \in Viewers \ SlowPeers, Stale(v, w)'
                 PROVE  StaleStays(c, v, w)
      BY <1>1, StaleKept DEF LiveInv
    <2>1. Stale(v, w) /\ rooms'[v] = rooms[v]
      BY DEF Stale, PublisherActive
    <2>2. ~Excuse(c, v, w)
      BY DEF Excuse, Owes, Deposed, Live
    <2> QED BY <2>1, <2>2 DEF StaleStays
  <1>3. AnnouncingInv'
    BY DEF LiveInv, AnnouncingInv
  <1> QED BY <1>2, <1>3 DEF LiveInv

\* A room fetched from the hub that was not registered has no viewers.
LEMMA NewRoomHasNoViewers ==
  ASSUME IInv, NEW u \in Vehicle, NEW r, HubRoom(u, r), NEW v \in Vehicle,
         rooms'[v] # NoRoom, NEW w \in viewers[rooms'[v]]
  PROVE  rooms'[v] = rooms[v]
  <1>1. /\ r \in Room
        /\ rooms' = [rooms EXCEPT ![u] = r]
        /\ \/ rooms[u] = r
           \/ rooms[u] = NoRoom /\ r \notin created
    BY HubRoomPost
  <1> QED BY <1>1 DEF IInv, TypeOK, RoomsTypeOK, RoomsInv, Members

\* Joining fetches a room and shows nothing.
LEMMA JoinLive ==
  ASSUME IInv, LiveInv, NEW c \in Conn, NEW v1 \in Vehicle, Join(c, v1)
  PROVE  LiveInv'
  <1> USE RoomsAssumption, ConnAssumption
      DEF Join, JoinAs, Lookup, Goto, clientVars
  <1>1. PICK r : HubRoom(v1, r) /\ handle' = [handle EXCEPT ![c] = r]
    OBVIOUS
  <1>2. v1 \in Vehicle
    BY DEF IInv, TypeOK
  <1>3. UNCHANGED <<publisher, viewers>>
    BY <1>1 DEF HubRoom
  <1>4. \A v \in Vehicle : \A w \in Viewers :
           Stale(v, w)' => Stale(v, w) /\ rooms'[v] = rooms[v]
    BY <1>1, <1>2, <1>3, NewRoomHasNoViewers, ZenonT(40) DEF Stale,
           PublisherActive, IInv, TypeOK
  <1>5. /\ rooms' = [rooms EXCEPT ![v1] = r] /\ r \in Room
    BY <1>1, <1>2, HubRoomPost
  <1> USE DEF IInv, TypeOK, RoomsTypeOK
  <1>6. Alone(c)
    BY <1>1, <1>3 DEF Alone
  <1>7. StaleInv'
    <2> SUFFICES ASSUME NEW v \in Vehicle, NEW w \in Viewers \ SlowPeers, Stale(v, w)'
                 PROVE  StaleStays(c, v, w)
      BY <1>6, StaleKept DEF LiveInv
    <2>1. Stale(v, w) /\ rooms'[v] = rooms[v] /\ rooms[v] # NoRoom
      BY <1>4 DEF Stale
    <2>2. c \in Sources /\ Excuse(c, v, w) => Excuse(c, v, w)'
      BY <1>1, <1>3, <1>5, <2>1 DEF Excuse, Owes, Deposed, Live
    <2> QED BY <2>1, <2>2 DEF StaleStays
  <1>8. AnnouncingInv'
    BY <1>1, <1>3 DEF LiveInv, AnnouncingInv
  <1> QED BY <1>7, <1>8 DEF LiveInv

\* A deposed source that stops works on the registered room, and owes its viewers.
LEMMA AskStopLive ==
  ASSUME IInv, LiveInv, NEW c \in Conn, AskStop(c)
  PROVE  LiveInv'
  <1> USE RoomsAssumption, ConnAssumption
      DEF AskStop, JoinAs, Lookup, Goto, clientVars
  <1>1. PICK r : HubRoom(vehicle[c], r) /\ handle' = [handle EXCEPT ![c] = r]
    OBVIOUS
  <1>2. vehicle[c] \in Vehicle
    BY JoinedVehicle DEF Running
  <1>3. UNCHANGED <<publisher, viewers>>
    BY <1>1 DEF HubRoom
  <1>4. \A v \in Vehicle : \A w \in Viewers :
           Stale(v, w)' => Stale(v, w) /\ rooms'[v] = rooms[v]
    BY <1>1, <1>2, <1>3, NewRoomHasNoViewers DEF Stale, PublisherActive, IInv, TypeOK
  <1>5. /\ rooms' = [rooms EXCEPT ![vehicle[c]] = r] /\ r \in Room
    BY <1>1, <1>2, HubRoomPost
  <1> USE DEF IInv, TypeOK, RoomsTypeOK
  <1>6. Alone(c)
    BY <1>1, <1>3 DEF Alone
  <1>7. StaleInv'
    <2> SUFFICES ASSUME NEW v \in Vehicle, NEW w \in Viewers \ SlowPeers, Stale(v, w)'
                 PROVE  StaleStays(c, v, w)
      BY <1>6, StaleKept DEF LiveInv
    <2>1. Stale(v, w) /\ rooms'[v] = rooms[v] /\ rooms[v] # NoRoom
      BY <1>4 DEF Stale
    <2>2. c \in Sources /\ Excuse(c, v, w) => Excuse(c, v, w)'
      BY <1>1, <1>3, <1>5, <2>1 DEF Excuse, Owes, Deposed, Live
    <2> QED BY <2>1, <2>2 DEF StaleStays
  <1>8. AnnouncingInv'
    BY <1>1, <1>3 DEF LiveInv, AnnouncingInv
  <1> QED BY <1>7, <1>8 DEF LiveInv

\* A deposed source that leaves works on the registered room, and owes its viewers.
LEMMA LeaveLive ==
  ASSUME IInv, LiveInv, NEW c \in Conn, Leave(c)
  PROVE  LiveInv'
  <1> USE RoomsAssumption, ConnAssumption
      DEF Leave, JoinAs, Lookup, Goto, clientVars
  <1>1. PICK r : HubRoom(vehicle[c], r) /\ handle' = [handle EXCEPT ![c] = r]
    OBVIOUS
  <1>2. vehicle[c] \in Vehicle
    BY JoinedVehicle DEF Running
  <1>3. UNCHANGED <<publisher, viewers>>
    BY <1>1 DEF HubRoom
  <1>4. \A v \in Vehicle : \A w \in Viewers :
           Stale(v, w)' => Stale(v, w) /\ rooms'[v] = rooms[v]
    BY <1>1, <1>2, <1>3, NewRoomHasNoViewers DEF Stale, PublisherActive, IInv, TypeOK
  <1>5. /\ rooms' = [rooms EXCEPT ![vehicle[c]] = r] /\ r \in Room
    BY <1>1, <1>2, HubRoomPost
  <1> USE DEF IInv, TypeOK, RoomsTypeOK
  <1>6. Alone(c)
    BY <1>1, <1>3 DEF Alone
  <1>7. StaleInv'
    <2> SUFFICES ASSUME NEW v \in Vehicle, NEW w \in Viewers \ SlowPeers, Stale(v, w)'
                 PROVE  StaleStays(c, v, w)
      BY <1>6, StaleKept DEF LiveInv
    <2>1. Stale(v, w) /\ rooms'[v] = rooms[v] /\ rooms[v] # NoRoom
      BY <1>4 DEF Stale
    <2>2. c \in Sources /\ Excuse(c, v, w) => Excuse(c, v, w)'
      BY <1>1, <1>3, <1>5, <2>1 DEF Excuse, Owes, Deposed, Live
    <2> QED BY <2>1, <2>2 DEF StaleStays
  <1>8. AnnouncingInv'
    BY <1>1, <1>3 DEF LiveInv, AnnouncingInv
  <1> QED BY <1>7, <1>8 DEF LiveInv

\* Relaying leaves a source as live as it was.
LEMMA RelayLive ==
  ASSUME IInv, LiveInv, NEW c \in Conn, NEW d1 \in Conn, Relay(c, d1)
  PROVE  LiveInv'
  <1> USE RoomsAssumption, ConnAssumption
      DEF Relay, JoinAs, Lookup, Goto, clientVars
  <1>1. PICK r : HubRoom(vehicle[c], r) /\ handle' = [handle EXCEPT ![c] = r]
    OBVIOUS
  <1>2. vehicle[c] \in Vehicle
    BY JoinedVehicle DEF Running
  <1>3. UNCHANGED <<publisher, viewers>>
    BY <1>1 DEF HubRoom
  <1>4. \A v \in Vehicle : \A w \in Viewers :
           Stale(v, w)' => Stale(v, w) /\ rooms'[v] = rooms[v]
    BY <1>1, <1>2, <1>3, NewRoomHasNoViewers DEF Stale, PublisherActive, IInv, TypeOK
  <1>5. /\ rooms' = [rooms EXCEPT ![vehicle[c]] = r] /\ r \in Room
    BY <1>1, <1>2, HubRoomPost
  <1> USE DEF IInv, TypeOK, RoomsTypeOK
  <1>6. Alone(c)
    BY <1>1, <1>3 DEF Alone
  <1>7. StaleInv'
    <2> SUFFICES ASSUME NEW v \in Vehicle, NEW w \in Viewers \ SlowPeers, Stale(v, w)'
                 PROVE  StaleStays(c, v, w)
      BY <1>6, StaleKept DEF LiveInv
    <2>1. Stale(v, w) /\ rooms'[v] = rooms[v] /\ rooms[v] # NoRoom
      BY <1>4 DEF Stale
    <2>2. c \in Sources /\ Excuse(c, v, w) => Excuse(c, v, w)'
      BY <1>1, <1>3, <1>5, <2>1 DEF Excuse, Owes, Deposed, Live
    <2> QED BY <2>1, <2>2 DEF StaleStays
  <1>8. AnnouncingInv'
    BY <1>1, <1>3 DEF LiveInv, AnnouncingInv
  <1> QED BY <1>7, <1>8 DEF LiveInv

\* Asking for a stream's status may register an empty room.
LEMMA StreamStatusLive ==
  ASSUME IInv, LiveInv, NEW u \in Vehicle, StreamStatus(u) PROVE LiveInv'
  <1> USE DEF StreamStatus, localVars, clientVars
  <1>1. PICK r \in Room : HubRoom(u, r)
    OBVIOUS
  <1>2. UNCHANGED <<publisher, viewers>>
    BY <1>1 DEF HubRoom
  <1>3. \A v \in Vehicle : \A w \in Viewers :
           Stale(v, w)' => Stale(v, w) /\ rooms'[v] = rooms[v]
    BY <1>1, <1>2, NewRoomHasNoViewers DEF Stale, PublisherActive
  <1>4. StaleInv'
    BY <1>2, <1>3 DEF LiveInv, StaleInv, Excuse, Owes, Deposed, Live
  <1>5. AnnouncingInv'
    BY <1>2 DEF LiveInv, AnnouncingInv
  <1> QED BY <1>4, <1>5 DEF LiveInv

----------------------------------------------------------------------------
(* The invariant and what follows from it.                                 *)

\* Nobody has been shown anything yet.
LEMMA InitLiveInv == Init => LiveInv
  <1> SUFFICES ASSUME Init PROVE LiveInv
    OBVIOUS
  <1>1. AnnouncingInv
    BY ConnAssumption DEF Init, AnnouncingInv
  <1>2. StaleInv
    BY DEF Init, RoomsInit, StaleInv, Stale
  <1> QED BY <1>1, <1>2 DEF LiveInv

\* Every step of the server preserves the invariant.
LEMMA NextLiveInv == IInv /\ LiveInv /\ [Next]_vars => LiveInv'
  <1> SUFFICES ASSUME IInv, LiveInv, [Next]_vars PROVE LiveInv'
    OBVIOUS
  <1>1. ASSUME NEW c \in Conn, SourceStep(c) PROVE LiveInv'
    BY <1>1, TakeSlotLive, AnnounceStartLive, AnnounceLive, ListViewersLive,
       StopClearLive, StopNotifyLive, StoppingLive, LeaveClearLive, LeaveStopLive,
       LeaveStoppingLive, LeaveGoneLive, LeaveGoingLive DEF SourceStep
  <1>2. ASSUME NEW c \in Conn, ViewerStep(c) PROVE LiveInv'
    BY <1>2, CountViewersLive, EnterRoomLive, LookAtSlotLive, GreetLive,
       CheckPublisherLive, NotifySourceLive, SayUnavailableLive, LeaveRoomLive,
       LeaveNotifyLive DEF ViewerStep
  <1>3. ASSUME NEW c \in Conn, TestEmpty(c) \/ DeleteEmpty(c) PROVE LiveInv'
    BY <1>3, TestEmptyLive, DeleteEmptyLive
  <1>4. ASSUME NEW c \in Conn, Client(c) PROVE LiveInv'
    BY <1>4, JoinLive, RefuseLive, AskStopLive, LeaveLive, RelayLive DEF Client
  <1>5. ASSUME NEW v \in Vehicle, StreamStatus(v) PROVE LiveInv'
    BY <1>5, StreamStatusLive
  <1>6. CASE UNCHANGED vars
    BY <1>6 DEF LiveInv, AnnouncingInv, StaleInv, Stale, PublisherActive, Excuse, Owes,
       Deposed, Live, vars, roomVars, localVars, clientVars
  <1> QED BY <1>1, <1>2, <1>3, <1>4, <1>5, <1>6 DEF Next, Step

\* When nothing is under way and no live source has been deposed, no viewer of
\* a registered room without publisher believes the stream live: whatever the
\* order of joins, announcements, stops and departures, the last status each
\* viewer was sent is the end of the stream.
THEOREM NoneStaysStale == Spec => []NoStaleLive
  <1>1. Spec => []LiveInv
    BY InitLiveInv, NextLiveInv, InductiveInvariant, PTL DEF Spec
  <1>2. IInv /\ LiveInv => NoStaleLive
    <2> SUFFICES ASSUME IInv, LiveInv, Quiet,
                        \A p \in Sources : Live(p) => \E r \in Room : publisher[r] = p,
                        NEW v \in Vehicle, rooms[v] # NoRoom, ~PublisherActive(rooms[v]),
                        NEW w \in viewers[rooms[v]] \ SlowPeers, shown[w] = "live"
                 PROVE  FALSE
      BY DEF NoStaleLive
    <2>1. w \in Viewers /\ w \in Conn /\ InRoom(w)
      BY ConnAssumption DEF IInv, TypeOK, RoomsTypeOK, RolesInv, MembersInv, Members
    <2>2. Stale(v, w)
      BY <2>1, ConnAssumption DEF Stale, Quiet, InRoom, Entering
    <2>3. PICK p \in Sources : Excuse(p, v, w)
      BY <2>1, <2>2 DEF LiveInv, StaleInv
    <2> QED BY <2>3, ConnAssumption DEF Excuse, Owes, Deposed, Quiet
  <1> QED BY <1>1, <1>2, InductiveInvariant, PTL
=============================================================================
