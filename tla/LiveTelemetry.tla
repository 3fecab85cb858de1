--------------------------- MODULE LiveTelemetry ---------------------------
(***************************************************************************)
(* Live telemetry (handlers_compat.go): devices POST updates, the server   *)
(* keeps the newest ones and fans each out to the dashboards connected by  *)
(* WebSocket.  wsMu guards recentLive, liveTotal, wsClients and the        *)
(* subscription of each client.  A broadcast keeps wsMu while it visits    *)
(* the clients in no particular order; every other critical section is one *)
(* step.  What is written to a socket is left out, apart from its failure. *)
(*                                                                         *)
(* The fleet does not change here: normalizeLiveData and liveUpdates read  *)
(* it in one View.  Commands a client sends are taken when its loop gets   *)
(* to them; a command dropped because the channel is full never is.        *)
(*                                                                         *)
(* A View waits for Store.mu, and does so for ever once a request has      *)
(* locked that twice (UpdateEnds of StoreRequests).  A POST whose View     *)
(* does not return has not come yet; the loop of a client is stuck.        *)
(***************************************************************************)
EXTENDS Integers, Sequences

CONSTANTS
    Post,         \* POSTs of updates, each served by a goroutine of its own
    Nobody,       \* a mutex nobody holds
    Client,       \* WebSocket connections
    Role,         \* per client: "public", "admin", "installation" or "owner"
    Uid,          \* per client: the user it is authenticated as, 0 for none
    VehicleOwner, \* per vehicle of the fleet: its owner, 0 for none
    VehicleDevice,\* per vehicle: its device, 0 for none
    DeviceOwner,  \* per device: its owner
    Body,         \* the bodies devices send
    Wanted,       \* per client: the vehicles its commands name
    RecentCap,    \* updates remembered (200)
    QueueCap      \* updates queued per client (32)

Vehicle == DOMAIN VehicleOwner
Types == {b.type : b \in Body} \cup {"location"}
Update == [vehicle : Nat, owner : Nat, type : Types]
NoUpdate == [vehicle |-> 0, owner |-> 0, type |-> "location"]

ASSUME LiveAssumption ==
    /\ Nobody \notin Post
    /\ Vehicle \subseteq Nat \ {0}
    /\ VehicleOwner \in [Vehicle -> Nat]
    /\ VehicleDevice \in [Vehicle -> DOMAIN DeviceOwner \cup {0}]
    /\ \A d \in DOMAIN DeviceOwner : DeviceOwner[d] \in Nat
    /\ Uid \in [Client -> Nat]
    /\ Role \in [Client -> {"public", "admin", "installation", "owner"}]
    /\ \A b \in Body : b.vehicle \in Nat /\ b.owner \in Nat
    /\ Wanted \in [Client -> SUBSET Nat]
    /\ RecentCap \in Nat \ {0} /\ QueueCap \in Nat \ {0}

VARIABLES
    wsMu,        \* the broadcasting POST that holds the mutex, or Nobody
    recentLive,  \* the newest updates, newest first
    liveTotal,   \* how many were received
    wsClients,   \* the registered clients
    subscribed,  \* subscribedVehicleID of each client, 0 for all vehicles
    sent,        \* what was put into the send channel of each client, in order
    taken,       \* how many of those the client's loop has taken out
    closed,      \* clients whose send channel is closed
    pc,          \* the next step of each POST
    update,      \* the update each POST under way makes
    todo,        \* the clients its broadcast has still to visit
    loop,        \* where the loop of each client is: "hung" when its connection
                 \* is gone and the reader has closed done, "stuck" in a View
                 \* that never returns
    order        \* all updates remembered, newest first (history)

bufferVars == <<recentLive, liveTotal, order>>
clientVars == <<wsClients, subscribed, taken, closed, loop>>
postVars == <<pc, update, todo>>
vars == <<wsMu, bufferVars, clientVars, sent, postVars>>

TypeOK ==
    /\ wsMu \in Post \cup {Nobody}
    /\ recentLive \in Seq(Post) /\ Len(recentLive) <= RecentCap
    /\ liveTotal \in Nat
    /\ wsClients \in SUBSET Client
    /\ subscribed \in [Client -> Nat]
    /\ sent \in [Client -> Seq(Post)]
    /\ taken \in [Client -> Nat]
    /\ \A c \in Client : taken[c] <= Len(sent[c]) /\ Len(sent[c]) <= taken[c] + QueueCap
    /\ closed \in SUBSET Client
    /\ pc \in [Post -> {"idle", "remember", "broadcast", "visit", "done"}]
    /\ update \in [Post -> Update]
    /\ todo \in [Post -> SUBSET Client]
    /\ loop \in [Client -> {"new", "select", "hung", "stuck", "leave", "end"}]
    /\ order \in Seq(Post)

Init ==
    /\ wsMu = Nobody
    /\ recentLive = <<>> /\ liveTotal = 0 /\ order = <<>>
    /\ wsClients = {} /\ closed = {}
    /\ subscribed = [c \in Client |-> 0]
    /\ sent = [c \in Client |-> <<>>]
    /\ taken = [c \in Client |-> 0]
    /\ loop = [c \in Client |-> "new"]
    /\ pc = [p \in Post |-> "idle"]
    /\ update = [p \in Post |-> NoUpdate]
    /\ todo = [p \in Post |-> {}]

----------------------------------------------------------------------------
(* What an update is about, and who may see it.                            *)

First(S) == CHOOSE v \in S : \A w \in S : v <= w

FirstNonZero(a, b) == IF a # 0 THEN a ELSE b

\* Is vehicle v the one that body b means?  A plate stands for the vehicle
\* that bears it.  A body that names nothing means any vehicle.
Matches(b, v) ==
    IF b.vehicle # 0 THEN v = b.vehicle
    ELSE IF b.device \in DOMAIN DeviceOwner THEN VehicleDevice[v] = b.device \/ v = b.plate
    ELSE b.plate # 0 => v = b.plate

\* normalizeLiveData: the first vehicle that matches.  The owner named by the
\* body comes before that of the device, and that before the vehicle's.
NormalizeLiveData(b) ==
    LET matching == {v \in Vehicle : Matches(b, v)}
        named == FirstNonZero(b.owner, IF b.device \in DOMAIN DeviceOwner
                                       THEN DeviceOwner[b.device] ELSE 0)
    IN [vehicle |-> IF matching = {} THEN b.vehicle ELSE First(matching),
        owner |-> IF matching = {} THEN named
                  ELSE FirstNonZero(named, VehicleOwner[First(matching)]),
        type |-> b.type]

\* wsUpdateAllowed
Allowed(c, u) ==
    /\ subscribed[c] > 0 => u.vehicle = subscribed[c]
    /\ \/ Role[c] \in {"public", "admin"}
       \/ Role[c] = "installation" /\ u.type \in {"installation_updated", "device_state"}
       \/ Role[c] = "owner" /\ Uid[c] > 0 /\ u.owner = Uid[c]

----------------------------------------------------------------------------
(* A POST: remember the update, then visit the clients.                    *)

Goto(p, from, to) ==
    /\ pc[p] = from
    /\ pc' = [pc EXCEPT ![p] = to]

Receive(p, b) ==
    /\ Goto(p, "idle", "remember")
    /\ update' = [update EXCEPT ![p] = NormalizeLiveData(b)]
    /\ UNCHANGED <<wsMu, bufferVars, clientVars, sent, todo>>

\* An update is made up for the first vehicle.
Simulate(p) ==
    /\ Vehicle # {}
    /\ Goto(p, "idle", "remember")
    /\ LET v == First(Vehicle) IN
          update' = [update EXCEPT ![p] = [vehicle |-> v, owner |-> VehicleOwner[v],
                                           type |-> "location"]]
    /\ UNCHANGED <<wsMu, bufferVars, clientVars, sent, todo>>

\* Variant: nothing is cut off.
RememberAll(p) ==
    /\ Goto(p, "remember", "broadcast")
    /\ wsMu = Nobody
    /\ liveTotal' = liveTotal + 1
    /\ recentLive' = <<p>> \o recentLive
    /\ order' = <<p>> \o order
    /\ UNCHANGED <<wsMu, clientVars, sent, update, todo>>

\* Variant: a full buffer takes nothing more.
RememberUntilFull(p) ==
    /\ Goto(p, "remember", "broadcast")
    /\ wsMu = Nobody
    /\ liveTotal' = liveTotal + 1
    /\ recentLive' = IF Len(recentLive) < RecentCap THEN <<p>> \o recentLive
                                                    ELSE recentLive
    /\ order' = <<p>> \o order
    /\ UNCHANGED <<wsMu, clientVars, sent, update, todo>>

RememberLiveUpdate(p) ==
    /\ Goto(p, "remember", "broadcast")
    /\ wsMu = Nobody
    /\ liveTotal' = liveTotal + 1
    /\ LET all == <<p>> \o recentLive IN
          recentLive' = IF Len(all) > RecentCap THEN SubSeq(all, 1, RecentCap) ELSE all
    /\ order' = <<p>> \o order
    /\ UNCHANGED <<wsMu, clientVars, sent, update, todo>>

\* Variant: the clients are visited without the mutex.
VisitUnlocked(p) ==
    /\ Goto(p, "broadcast", "visit")
    /\ wsMu = Nobody
    /\ todo' = [todo EXCEPT ![p] = wsClients]
    /\ UNCHANGED <<wsMu, bufferVars, clientVars, sent, update>>

BroadcastLiveUpdate(p) ==
    /\ Goto(p, "broadcast", "visit")
    /\ wsMu = Nobody
    /\ wsMu' = p
    /\ todo' = [todo EXCEPT ![p] = wsClients]
    /\ UNCHANGED <<bufferVars, clientVars, sent, update>>

Full(c) == Len(sent[c]) - taken[c] = QueueCap

\* Variant: the send waits for room in the channel.
VisitAndWait(p, c) ==
    /\ pc[p] = "visit" /\ c \in todo[p]
    /\ todo' = [todo EXCEPT ![p] = @ \ {c}]
    /\ Allowed(c, update[p]) => ~Full(c)
    /\ sent' = IF Allowed(c, update[p])
               THEN [sent EXCEPT ![c] = Append(@, p)] ELSE sent
    /\ UNCHANGED <<wsMu, bufferVars, clientVars, pc, update>>

\* The update goes into the client's channel, or is dropped if that is full.
Visit(p, c) ==
    /\ pc[p] = "visit" /\ c \in todo[p]
    /\ todo' = [todo EXCEPT ![p] = @ \ {c}]
    /\ sent' = IF Allowed(c, update[p]) /\ ~Full(c)
               THEN [sent EXCEPT ![c] = Append(@, p)] ELSE sent
    /\ UNCHANGED <<wsMu, bufferVars, clientVars, pc, update>>

\* Everybody is visited: unlock, answer the POST.
EndBroadcast(p) ==
    /\ Goto(p, "visit", "done")
    /\ todo[p] = {}
    /\ wsMu' = Nobody
    /\ update' = [update EXCEPT ![p] = NoUpdate]
    /\ UNCHANGED <<bufferVars, clientVars, sent, todo>>

\* Variant: the counter is not reset.
ClearBufferOnly ==
    /\ wsMu = Nobody
    /\ recentLive' = <<>>
    /\ UNCHANGED <<wsMu, liveTotal, order, clientVars, sent, postVars>>

\* handleLiveDataClear
Clear ==
    /\ wsMu = Nobody
    /\ recentLive' = <<>> /\ liveTotal' = 0
    /\ UNCHANGED <<wsMu, order, clientVars, sent, postVars>>

----------------------------------------------------------------------------
(* The loop of a client (handleWebSocket).                                 *)

At(c, from, to) ==
    /\ loop[c] = from
    /\ loop' = [loop EXCEPT ![c] = to]

Running(c) == loop[c] \in {"select", "hung"}

\* A write fails when the connection is gone or ten seconds have passed.
Write(c) ==
    /\ Running(c)
    /\ UNCHANGED loop \/ loop' = [loop EXCEPT ![c] = "leave"]

\* sendUpdates: liveUpdates reads the store, then all is written.
ViewAndWrite(c) ==
    \/ Write(c)
    \/ Running(c) /\ loop' = [loop EXCEPT ![c] = "stuck"]

Register(c) ==
    /\ At(c, "new", "select")
    /\ wsMu = Nobody
    /\ wsClients' = wsClients \cup {c}
    /\ UNCHANGED <<wsMu, bufferVars, subscribed, taken, closed, sent, postVars>>

\* At the start, in case ticker, and for a command that is neither of the two
\* below.
SendUpdates(c) ==
    /\ ViewAndWrite(c)
    /\ UNCHANGED <<wsMu, bufferVars, wsClients, subscribed, taken, closed, sent, postVars>>

\* Variant: the subscription is changed without the mutex.
CommandUnlocked(c, v) ==
    /\ ViewAndWrite(c)
    /\ subscribed' = [subscribed EXCEPT ![c] = v]
    /\ UNCHANGED <<wsMu, bufferVars, wsClients, taken, closed, sent, postVars>>

\* case cmd: subscribe, or unsubscribe with v = 0; then sendUpdates.
Command(c, v) ==
    /\ ViewAndWrite(c)
    /\ wsMu = Nobody
    /\ subscribed' = [subscribed EXCEPT ![c] = v]
    /\ UNCHANGED <<wsMu, bufferVars, wsClients, taken, closed, sent, postVars>>

\* case update
Take(c) ==
    /\ taken[c] < Len(sent[c])
    /\ Write(c)
    /\ taken' = [taken EXCEPT ![c] = @ + 1]
    /\ UNCHANGED <<wsMu, bufferVars, wsClients, subscribed, closed, sent, postVars>>

\* case done
Done(c) ==
    /\ At(c, "hung", "leave")
    /\ UNCHANGED <<wsMu, bufferVars, wsClients, subscribed, taken, closed, sent, postVars>>

\* The client closes, or the network does.
HangUp(c) ==
    /\ At(c, "select", "hung")
    /\ UNCHANGED <<wsMu, bufferVars, wsClients, subscribed, taken, closed, sent, postVars>>

\* Variant: without the mutex.
UnregisterUnlocked(c) ==
    /\ At(c, "leave", "end")
    /\ wsClients' = wsClients \ {c}
    /\ closed' = IF c \in wsClients THEN closed \cup {c} ELSE closed
    /\ UNCHANGED <<wsMu, bufferVars, subscribed, taken, sent, postVars>>

Unregister(c) ==
    /\ At(c, "leave", "end")
    /\ wsMu = Nobody
    /\ wsClients' = wsClients \ {c}
    /\ closed' = IF c \in wsClients THEN closed \cup {c} ELSE closed
    /\ UNCHANGED <<wsMu, bufferVars, subscribed, taken, sent, postVars>>

----------------------------------------------------------------------------
PostStep(p) ==
    \/ RememberLiveUpdate(p) \/ BroadcastLiveUpdate(p) \/ EndBroadcast(p)
    \/ \E c \in Client : Visit(p, c)

ClientStep(c) ==
    \/ Register(c) \/ SendUpdates(c) \/ Take(c) \/ Done(c) \/ Unregister(c)
    \/ \E v \in Wanted[c] \cup {0} : Command(c, v)

Next ==
    \/ \E p \in Post : PostStep(p) \/ Simulate(p) \/ (\E b \in Body : Receive(p, b))
    \/ \E c \in Client : ClientStep(c) \/ HangUp(c)
    \/ Clear

Spec == Init /\ [][Next]_vars

\* The handler of a POST runs on; a loop that is not stuck leaves select by done
\* once it can, since select chooses at random, and runs its deferred call.
\* Nothing makes a client read.
FairSpec ==
    /\ Spec
    /\ \A p \in Post : WF_vars(PostStep(p))
    /\ \A c \in Client : WF_vars(Done(c)) /\ WF_vars(Unregister(c))

----------------------------------------------------------------------------
(* Correctness.                                                            *)

\* A broadcast never sends to a channel that unregisterWSClient has closed,
\* which would end the process.
NoSendToClosed == \A p \in Post : todo[p] \cap closed = {}

\* Two dashboards that are sent the same two updates are sent them in the same
\* order, though POSTs race and the clients are visited in any order.
SameOrder ==
    \A c, d \in Client : \A i, j \in DOMAIN sent[c], k, l \in DOMAIN sent[d] :
        /\ i < j
        /\ sent[c][i] = sent[d][k]
        /\ sent[c][j] = sent[d][l]
        => k < l

\* The counter and the buffer that the statistics are made of agree.
StatsAgree ==
    Len(recentLive) = IF liveTotal < RecentCap THEN liveTotal ELSE RecentCap

\* An update that a dashboard was sent is among the recent ones it can fetch,
\* unless they were cleared since or RecentCap newer ones have come.
DeliveredIsRecent ==
    \A c \in Client : \A i \in DOMAIN sent[c] :
        \E k \in DOMAIN order :
            /\ order[k] = sent[c][i]
            /\ k <= liveTotal /\ k <= RecentCap => recentLive[k] = sent[c][i]

\* A broadcast visits one client after another, while clients read, hang up and
\* send commands; yet it is as if the update went out at once, when the visits
\* end: to clients connected then, by the subscriptions that hold then, to none
\* twice, and to all but some that have been sent QueueCap updates before.
Stage(q) ==
    CASE q = "idle" -> "waiting"
      [] q = "remember" -> "made"
      [] q = "done" -> "published"
      [] OTHER -> "remembered"
Going(p) == pc[p] \notin {"idle", "done"}
Seeing(c) == sent[c] # <<>> /\ pc[sent[c][Len(sent[c])]] = "visit"

stage == [p \in Post |-> Stage(pc[p])]
audience == [p \in Post |-> {c \in Client : Going(p) /\ Allowed(c, update[p])}]
left == {c \in Client : loop[c] = "end"}
feed == [c \in Client |->
            IF Seeing(c) THEN SubSeq(sent[c], 1, Len(sent[c]) - 1) ELSE sent[c]]

F == INSTANCE AtomicFeed WITH recent <- recentLive, total <- liveTotal,
                              members <- wsClients

PublishedAtOnce == F!Spec

\* A POST is answered whatever the dashboards do, also when one stops reading.
PostsAnswered == \A p \in Post : pc[p] = "remember" ~> pc[p] = "done"

\* A client whose connection is gone is unregistered, unless its loop waits for
\* a store that is locked for ever.
HungUpLeaves ==
    \A c \in Client : loop[c] = "hung" ~> c \notin wsClients \/ loop[c] = "stuck"

(* The inductive invariant behind the safety properties above.             *)

\* wsMu is held by the POST that visits the clients; those it has yet to visit
\* are registered, for nobody can leave meanwhile.
HolderInv ==
    \A p \in Post :
        /\ wsMu = p <=> pc[p] = "visit"
        /\ todo[p] # {} => pc[p] = "visit"
        /\ todo[p] \subseteq wsClients

ClientInv ==
    /\ wsClients \cap closed = {}
    /\ \A c \in Client :
          /\ c \in wsClients <=> loop[c] \in {"select", "hung", "stuck", "leave"}
          /\ c \in closed => loop[c] = "end"

\* recentLive starts order; an update is remembered before it is broadcast.
BufferInv ==
    /\ StatsAgree
    /\ liveTotal <= Len(order)
    /\ \A k \in DOMAIN recentLive : recentLive[k] = order[k]
    /\ \A p \in Post : pc[p] \in {"broadcast", "visit", "done"} =>
          \E k \in DOMAIN order : order[k] = p

\* An update is put into a channel at most once, while its POST visits the
\* clients, and nothing is put in after it until the visits end.
SentInv ==
    \A c \in Client :
        /\ \A i, j \in DOMAIN sent[c] : sent[c][i] = sent[c][j] => i = j
        /\ \A i \in DOMAIN sent[c] :
              /\ pc[sent[c][i]] \in {"visit", "done"}
              /\ pc[sent[c][i]] = "visit" => i = Len(sent[c]) /\ c \notin todo[sent[c][i]]

\* Of the clients visited so far, those got the update that may see it and had
\* room for it.
VisitedInv ==
    \A p \in Post : pc[p] = "visit" =>
        \A c \in Client :
            /\ (\E i \in DOMAIN sent[c] : sent[c][i] = p) =>
                  c \in wsClients /\ Allowed(c, update[p])
            /\ c \in wsClients \ todo[p] /\ Allowed(c, update[p]) =>
                  (\E i \in DOMAIN sent[c] : sent[c][i] = p) \/ Len(sent[c]) >= QueueCap

IInv ==
    /\ TypeOK
    /\ HolderInv
    /\ ClientInv
    /\ BufferInv
    /\ SentInv
    /\ VisitedInv
    /\ SameOrder
============================================================================
