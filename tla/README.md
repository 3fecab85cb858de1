# Verification of the Copilot API server

TLA+ models of the Go server under `src/backend`, TLC runs that check them on
small instances, and TLAPS proofs that hold for every instance. Paths below are
relative to `src/backend/internal`.

## 1. The system

The server keeps a fleet (users, vehicles, drivers, devices) in one SQLite file,
takes telemetry from the boxes and phones in the vehicles, shows it to dashboards,
and introduces a phone's camera to dashboards by WebRTC signaling. Every HTTP
request and every WebSocket connection is served by a goroutine of its own. Three
groups of state are shared between them, each behind mutexes of its own; nothing
holds two groups' mutexes at a time.

| Component | State | Operations | What is hard |
|---|---|---|---|
| WebRTC hub and rooms, `server/webrtc_rooms.go` | `hub.rooms`, each room's `publisher`, `streamActive`, `viewers` | `room`, `removeRoomIfEmpty`, `setPublisher`, `clearPublisher`, `addViewer`, `removeViewer`, broadcasts | room objects outlive their registration; each method is a critical section of its own, so what one read may be stale at the next |
| Signaling handler, `server/handlers_webrtc.go` | per connection: `role`, `vehicleID`, `viewerID`, `joined`, two channels | join as phone or dashboard, offer, answer, candidate, stop, ping, hang up, `cleanup` | two joins racing; status messages from several goroutines in one channel; clean-up racing a join; lost sends |
| Store, `store/sqlite_storage.go` | `mu`; users, sessions, devices, drivers, vehicles, preferences | single statements; `Update`: load six tables, call a closure, delete and rewrite them in one transaction | whole-snapshot writes beside single statements; closures that call back; foreign keys; crash between steps |
| Handlers of sessions, vehicles, alerts, members, `server/handlers_auth.go`, `handlers_vehicles.go`, `handlers_activity.go`, `handlers_compat.go` | none of their own | sequences of store calls: each call is atomic, the handler is not | what a handler read may be gone when it writes; a crash between its writes |
| Live telemetry, `server/handlers_compat.go` 1738-2377 | `wsMu`, `recentLive`, `liveTotal`, `wsClients`, subscriptions, a channel per client | POST, simulate, clear, recent, statistics; the loop of a dashboard | sending to a channel another goroutine closes; slow dashboards; two broadcasts racing; buffer and counter |
| Drivers, devices, fleets, members, manufacturing, installation, `handlers_drivers.go`, `handlers_rest.go`, `handlers_local_data.go`, `handlers_compat.go` | tables of the store | look up, then append, edit or delete under `Update` | ids given out again, what was looked up is stale, constraints that roll back, errors that are ignored |
| Leads, orders, OTA, settings, barcode key, API forwarding, notifications, uploads, `store/dashboard_data.go`, `store/activity.go` | tables only single statements touch, and the forwarding columns of `users` | inserts, updates, deletions, two or more of them per method | several statements without a transaction, any of which may fail; two first calls of the barcode key; columns that `Update` rewrites too |
| WebSocket frames, `readWSFrame`, `writeWSFrame` | none | encode, decode | three encodings of the length, masks, streams that end anywhere |
| Feeds, reports, barcodes, `cmd/server`, deployment | none | read-only views; start | - |

Interactions: signaling asks the store for the verdict on a token when a client joins;
live telemetry reads the fleet in one `View` per update; all else goes through
the database.

What makes each component correct is stated next to its model: the section
*Correctness* at the end of each module.

## 2. Modules

    WebRTCRooms  <-  WebRTCSignaling  <-  MCSignaling          (TLC)
                                      <-  WebRTCSignalingProofs <- StaleLiveProofs (TLAPS)
    Conference   <=  WebRTCSignaling
    Store        <-  StoreRequests    <-  MCStore              (TLC)
                                      <-  StoreProofs           (TLAPS)
    AtomicStore  <=  StoreRequests
    Accounts     <=  Fleet            <-  MCFleet              (TLC)
                                      <-  FleetProofs <- FleetRefinement (TLAPS)
    Records                           <-  MCRecords            (TLC)
                                      <-  RecordsProofs         (TLAPS)
    AtomicFeed   <=  LiveTelemetry    <-  MCLive               (TLC)
                                      <-  LiveProofs            (TLAPS)
    Frames                            <-  MCLive               (TLC)
                                      <-  FramesProofs          (TLAPS)

A single arrow is EXTENDS. A double arrow is a refinement, by INSTANCE. Each of the
three groups of shared state has an abstract specification without its mutexes, loops and
snapshots, which its handlers implement: `WebRTCSignaling` implements `Conference`,
`StoreRequests` implements `AtomicStore`, `Fleet` implements `Accounts`, and
`LiveTelemetry` implements `AtomicFeed`. The store is seen at three heights: one step per
critical section (`Store`), one per `Update` (`AtomicStore`, `Fleet`), and without tables
at all (`Accounts`).

Definitions named *Variant* in a comment are plausible slips of the definition
that follows them. No behaviour uses them; they exist so that each property can be
seen to fail when the code is wrong in that way (`mutants` in `PROJECT.json`).

### Signaling: `WebRTCRooms`, `WebRTCSignaling`, `Conference`

`rooms` is `hub.rooms`; `publisher` and `viewers` are fields of the room *objects*,
because a goroutine keeps the object it was given (`handle`) after the hub has
dropped it. One action is one critical section. `removeRoomIfEmpty` is two
(`TestRoomEmpty`, `DeleteRoom`): it releases the room's own lock before it deletes
the entry, and `hubMu` records that the hub's is kept. `pc` is where a goroutine
stands: the arms of the `switch` in `runWebRTCSignaling` are the actions

| code | actions |
|---|---|
| `phone_join` 284-309 | `Join`, `TakeSlot`, `AnnounceStart`, `Announce`, `ListViewers` |
| `viewer_join` 310-342 | `Join`, `CountViewers`, `EnterRoom`, `LookAtSlot`, `Greet`, `CheckPublisher`, `NotifySource`, `SayUnavailable` |
| `offer`, `answer`, `ice_candidate` 352-378 | `Relay` |
| `stream_stopped` 379-386 | `AskStop`, `StopClear`, `StopNotify`, `Stopping` |
| `cleanup` 242-264 | `Leave`, `LeaveClear`, `LeaveStop`..`LeaveGoing`, `LeaveRoom`, `LeaveNotify`, `TestEmpty`, `DeleteEmpty` |
| refused or hung up before joining | `Refuse` |
| `handleWebRTCStreamStatus` | `StreamStatus` |

Abstractions. `streamActive` is assigned with `publisher` in the same two critical
sections, so the slot stands for both. A channel is first in, first out and its reader
only writes to the socket, so instead of its contents the model keeps what they
add up to: the last status shown to a dashboard (`shown`), the dashboards a phone
knows (`told`), whose messages were relayed to whom (`heard`). A send to a closed
or full channel is dropped, as `safePeerSend` and `send` do; `SlowPeers` are the
connections whose channel may be full. Client messages are inputs, taken when the
goroutine reads them. The verdict on a token is the constant `Access`; until it is good
`vehicle` is `NoVehicle`, and the handler uses no vehicle. A ping
looks its room up like any message and changes nothing else: it is a `Relay` with
no addressee.

Properties: `NoMissedViewer` (the two-sided handshake of joining), `NoGhostMember`,
`NoRoomLeak`, `NoStaleLive`, `RelayWithinAccess`, `LimitKept`, `KeepsConference`, and for
liveness `ViewerEventuallyTold` and `CleanupReturns`.

The viewer limit is tested in one critical section and used in another, so two dashboards
may pass the test together, and a room may exceed it. `LimitKept` says that this is the only way:
as long as no two dashboards of a room are between the two sections at once, it never does.

`KeepsConference` is the refinement of `Conference`, which knows no hub, room, slot or
snapshot: a client enters the conference of one vehicle, once; there the sources are told of
viewers and forget those that leave, messages go between a source and a viewer who are
present, a viewer is shown a live stream only if a source has entered its conference, and a client
leaves and is gone. The mapping: `place` is `vehicle`, `knows` is `told`, and `stage` what `pc`
says of entering and leaving. A room object that served two vehicles, or a handler that worked on
a room of another vehicle than its own, would break it.

### Store: `Store`, `StoreRequests`

`Store` has one action per method with a single statement, and `Update` in three:
`Load` takes `mu`, `Change` is the closure, `ReplaceAllData` or `GiveUp` releases
`mu`. `db` is what is committed, `snap[r]` the `Data` value of a request inside
`Update`; what is committed is a record of users, sessions, vehicles and, per
vehicle, the alerts counted. `StoreRequests` gives each request the calls its handler
makes, `pc` being the next one: `handleLogin`, `handleLogout`, `requireAuth`,
`handleCreateVehicle`, `handleEditVehicle`, `handleDeleteVehicle`,
`handleCreateNotification` with `incrementVehicleAlertCounter`,
`handleDeleteTeamMember`, `recordAudit`. `Restart` ends the process between any two
steps: requests are lost, `mu` is free, the database is what was committed.

Abstractions. Columns other than the alert counters are left out, so an edit
changes nothing that is kept. Who may do what is granted: requesters are
entitled to what they ask for. Failures of the disk, the seven-day expiry of sessions
and the write timeout of the database are not modelled; the foreign key is. Errors that the handlers ignore
(`AddEvent`, `recordAudit`, the counter's `Update`, every error but
`ErrNotFound` in `handleDeleteVehicle`) are ignored.

Properties: `LogoutIsFinal`, `CommittedStays`, `CreatedOnce`, `SessionsHaveUsers`,
`CountedWasNotified`, for liveness `RequestsEnd`, and `ChangesAreAtomic`: the requests
implement `AtomicStore`, in which each makes its change in one step, at most once,
from what is stored at that moment, and in which there is no snapshot, mutex,
transaction or restart. A request's step there is its `ReplaceAllData` that commits, or its
single statement; all the others are stutters.

### Fleet: `Accounts`, `Fleet`

`Store` takes one `Update` apart; `StoreProofs` shows that under `mu` its snapshot
equals what is stored until it is replaced. `Fleet` builds on that: a whole
`Update` is one step, and the handlers are sequences of such steps. It has all
the tables that `Update` rewrites (`users`, `sessions`, `prefs`, `devices`, `drivers`,
`vehicles`), each a function from the ids in use, and every handler that changes
them:

| code | actions |
|---|---|
| `handleSignup`, `handleCreateFleetOwner`, `handleCreateTeamMember` | `LookUp`, `AppendUser`, `Reread`, `NewSession` |
| `handleLogin`, `handleLogout` | `LookUp`, `NewSession`; `EndSession` |
| `handleUpdateProfile`, `handleUpdatePassword` | `EditSelf` |
| `handleUpdateTeamMember`, `handleUpdatePasswordForUser`, `handleDeleteTeamMember` | `EditMember`, `DeleteMember` |
| `handleEditFleet`, `handleDeleteFleet`, `handlePutDashboardSettings` | `IsAdmin`, `EditFleet`, `DeleteFleet`; `SavePrefs` |
| `handleCreateDriver`, `handleCreateDevice`, `handleCreateVehicle` | `IsAdmin`, `CreateDriver`, `CreateDevice`, `CreateVehicle` |
| `handleCreateManufacturingBatch`, `handleManufacturingLinkDevice`, `handleInstallationAssignDevice` | `CreateBatch`, `LinkDevice`, `AssignInstall` |
| `handleInstallationCreateVehicle` | `View`, `InstallVehicle` |
| handlers of drivers, faces, devices, vehicles whose closure calls `isAdmin` | `ChangeDriver`, `FaceOfDriver`, `ChangeDevice`, `AssignDevice`, `ChangeVehicle`: found, they stop for ever |

`NextId` is one more than the largest id in use: both `loadAllData` and SQLite's rowid
(no AUTOINCREMENT) compute it so, hence the id of the newest row, once deleted,
is given out again. `Accepted` is what the schema demands of the rows written
back: unique addresses, and the foreign keys of sessions and preferences; when it
fails everything is rolled back, and the handlers answer as they do (or, in
`handleCreateDevice`, do not notice). Two histories tell rows apart that bear
one id after the other: `users[u].account`, and `opened`/`issued`.

`Accounts` says what all this is for, without tables, ids or handlers: an
account is opened once, moved to an address nobody has, closed when no session is
left; a session begins once, for an open account, stays with it, and ends once.
The mapping: `address[a]` is the e-mail address of the row that bears account `a`;
`holder[t]` the account of the row that session `t` refers to.

Columns no handler decides by are left out (names, passwords, the driver and device
of a vehicle). Rows other than users have their owner, for handlers choose rows by it.
An edit that names no address is the edit with the address the row has.

Properties: `KeepsAccounts` (the refinement), `SettingsNotInherited`, `DeviceKept`,
`SessionIsOnesOwn`. The last is what remains of the claim that `LoginIsOnesOwn` refutes: the
session a login hands out is that of the account it has checked, or that account's row is gone
(and its id may have been given out again).

### Single statements: `Records`

A method of the store holds `mu` while it makes its statements one after the other, but
they are no transaction. `todo[r]` is what the method of request `r` has still to
make, `StatementsOf` which statements a method has and `Rank` in which order
(`SaveSettings` ranges over a map, hence in any). Any statement may fail (`Fail`): the
earlier ones stay, and the client gets an error. `Restart` may come between any two.

| code | actions |
|---|---|
| `handleBarcodeKey` | `LookForKey`, then `Upsert` for key and id |
| `handlePutSettings`, `SaveSettings` | `Upsert` per setting |
| `handleUpdateAPIForwarding`, `SetAPIForwarding` | `SetColumn` per column |
| `AddLead`, `AddOrder`, `AddOTAFile`, `AddNotification`, `AddUploadedFile` | `Insert`, and `Number` where the payload needs the id |
| `UpdateLeadStatus`, `UpdateOrderStatus` | `SelectPayload`, `WriteStatus` |
| `AddOTADeployments` | `InsertDeployment`, `NumberDeployment` per item |
| `DeleteOTAFile` | `DropDeployments`, `DropFile` |
| `MarkNotificationRead`, `MarkAllNotificationsRead` | `MarkRead` |
| `Update` as far as it concerns forwarding | `LoadUsers`, `ReplaceUsers` |
| `recordAudit` after any of them | `Audit` |

A value is represented by the request that wrote it, a row by the request that made
it: these tables are AUTOINCREMENT, so no id is given out twice. Payloads
keep what the properties tell apart, the number of an order and the status that is
also a column. Requests are entitled to what they ask.

Properties: `SettingsKept`, `ForwardingKept`, `RowsKept`, `DeploymentsKept` and `ReadKept` say of
each table that what a client was told of is stored, whole, until a request whose
method came later replaces it; `KeySettles` and `KeyComesWithId` what two first calls
of the barcode key, or one cut short, may leave behind.

### Live telemetry: `LiveTelemetry`

A POST is `Receive` (or `Simulate`), `RememberLiveUpdate`, `BroadcastLiveUpdate`, one
`Visit` per client in any order (the order of a Go map), `EndBroadcast`. `wsMu` is held
from `BroadcastLiveUpdate` to `EndBroadcast`; every other critical section is a
step that needs it free. Remembering and broadcasting are two critical sections, so
another POST may come in between. `sent[c]` is all that was ever put into the
channel of client `c` and `taken[c]` how much of it the client's loop has taken
out, so the channel holds the difference. `loop` is the `select` of
`handleWebSocket`; a write may fail and end it; `HangUp` closes `done`; `Unregister` is
the deferred call. `sendUpdates` reads the store first (`liveUpdates`), so in `SendUpdates` and
`Command` the loop may also become `stuck`: after `UpdateEnds` that View waits for `Store.mu` for ever.
A POST whose View does not return has not come yet. `Wanted` gives the vehicles a client's
commands name, of the fleet or not. `NormalizeLiveData` and `Allowed` are `normalizeLiveData` and
`wsUpdateAllowed` with every case of their conditions; a plate is abstracted to the
vehicle that bears it. `order` is history: everything remembered, newest first.

The fleet is constant, what is written to sockets is left out but for its
failure, and so is the channel of commands: a command is taken when the loop gets to it.

Properties: `NoSendToClosed`, `SameOrder`, `DeliveredIsRecent`, `StatsAgree`, `PublishedAtOnce`,
and for liveness `PostsAnswered` and `HungUpLeaves`.

`HungUpLeaves` therefore excuses one case: a client whose connection is gone is unregistered unless
its loop is stuck, just as `RequestsEnd` excuses a request that waits for its own mutex.

`PublishedAtOnce` is the refinement of `AtomicFeed`, in which an update is made, remembered
and published, each in one step, and dashboards connect, subscribe and leave in between. The
step that publishes is `EndBroadcast`: until then the mapping takes the update off the feeds of
those already visited (`Seeing`). So nobody is left out because the visits take time, and nobody gets an update by
a subscription that was replaced before the broadcast was over; only a channel that was
full may be passed over.

### Frames: `Frames`

The codec has no state, so it is operators: `WriteWSFrame` is what `writeWSFrame` puts on a
connection, `Frame` any frame a browser may send (any opcode, masked or not), and
`ReadWSFrame` what `readWSFrame` makes of the bytes that arrive before the connection
ends, and how many it takes. Byte-wise exclusive or is the constant `ByteXor`, of which
only `XorAssumption` is used; TLC gets `^^` for it.

## 3. Runs

| run | instance | states | shows |
|---|---|---|---|
| `TwoPhones` | 2 phones, 1 dashboard, 2 vehicles, one of them polled; tokens for one and for both | 1.0 million | the safety of signaling and its refinement of `Conference` |
| `TwoDashboards` | 1 phone, 2 dashboards, one of which may lose any message, 1 vehicle | 98 thousand | the liveness of signaling; the viewer limit |
| `StoreWrites` | 3 requests, 2 users, 3 vehicle ids, every handler, restarts | 235 thousand | the safety of the store, its refinement of `AtomicStore`, and that every request ends unless one waits for its own mutex |
| `FleetRows` | 2 requests of 22 kinds, 3 addresses, restarts | 116 thousand | accounts, sessions, settings and devices survive interleaved handlers and reused ids; a login's session is its own account's |
| `RecordWrites` | 3 requests of 14 kinds, a page at a time, any statement failing, restarts | 261 thousand up to symmetry | what clients were told is stored whole, and the barcode key settles |
| `LiveUpdates` | 2 POSTs of 2 bodies or simulated, an owner and an installer, buffer 1, channels 1; the owner may look at a vehicle outside the fleet; a View may never return | 180 thousand | safety and liveness of live telemetry and its refinement of `AtomicFeed`; before it starts, frames of every encoding |

Violated on purpose, each refuting what a document, a comment or a message of the
repository says (quotes in `PROJECT.json`, "findings"):

| run | what happens |
|---|---|
| `OneSourcePerVehicle` | phone A gets the room object; B's clean-up drops that still empty room from the hub; phone C registers a new room; A and C both stream. A's room cannot be found by anybody any more |
| `LiveSourceKeepsSlot` | A stops its stream and stays connected; C takes the slot; A hangs up, and `clearPublisher` evicts C |
| `ViewerSeesStream` | a dashboard looks at the slot, the phone takes it and announces `stream_started`, the dashboard then queues its own `stream_unavailable` |
| `UpdateEnds` | the closure of `handleEditVehicle` calls `isAdmin`, which locks the mutex that `Update` holds: the request and every later one wait for ever. The same call is in `handleDeleteVehicle` and in closures of `handlers_drivers.go` (205, 258, 297, 393, 436) and `handlers_rest.go` (152, 191, 251) |
| `LoginIsOnesOwn` | a login has read its row; a colleague deletes that account and creates another, which gets the same id; the login's session is the new account's |
| `DeletionCascades` | a team member with a session cannot be deleted: the snapshot keeps the session, the foreign key refuses it, the transaction is rolled back |

Bounds and why they are enough:

* Three connections: a handshake needs a phone and a dashboard, and every hazard
  needs one more that leaves, joins or competes. A connection joins once, and
  drops at most one room, so a behaviour allocates at most one room per vehicle and
  one per connection: `Room` has that many (4, and 5 with two vehicles).
* `TwoPhones` has two vehicles because a message looks its room up again by name: one
  phone's token is good for both, the others' for one. Only the second vehicle is polled, so that
  `NoRoomLeak` still says something of the first. The phone that may use both and the dashboard are the
  `Talkers`: whatever the other phone could relay, this one can.
* `MaxViewers` 1 is the smallest limit and reaches the refusal with two dashboards.
* Three requests: one that creates the session all bear, and two that race. One
  vehicle may exist at the start and two requests may create, so `MaxVehicle` 3
  never stands in a creation's way.
* `FleetRows` has two requests of every kind, since 22 kinds in every interleaving are
  what it is about, and each property relates two handlers; the proofs cover any
  number. (An id given out again during a login takes three requests, as in `LoginIsOnesOwn`;
  of that case `SessionIsOnesOwn` is known by its theorem.) Two users exist and two requests may add one each: `MaxUser` 4; likewise two
  vehicles and `MaxVehicle` 4, one driver and `MaxDriver` 3. `MaxDevice` 4 bounds a batch
  (200 in the code) to the ids left. `LoginIsOnesOwn` takes three requests, and the
  three kinds that disagree.
* `RecordWrites`: handlers of different tables do not meet (those of forwarding and `Update`
  do), so a behaviour uses the handlers of one of five `Pages`. Three requests are one
  that writes, one that races it, and one that deletes, marks or reads; `MaxItems` 2 is
  the smallest deployment that can be half made. `Named` has the sets of fields that split a pair
  (the limits, the key without its id) and all of forwarding. The requests are
  interchangeable, hence the symmetry: an invariant and a step property are
  checked, no liveness.
* `LiveUpdates` checks frames of 0, 1, 125, 126, 127, 65535 and 65536 bytes, the lengths around
  which the header changes, those up to 127 also masked; `FramesProofs` has every length and mask.
* The installer of `LiveUpdates` sends no subscription (`Subscriptions`): one client that changes
  what it sees while another does not is what the order of visits can tell apart.
* `RecentCap` and `QueueCap` 1 (200 and 32 in the code) make two POSTs fill both.
* `CHECK_DEADLOCK FALSE` everywhere: connections, requests and POSTs of an instance
  run out, and a quiescent server has nothing to do. That nothing is stuck before
  is what the liveness properties say.

Fairness. `FairSpec` of `WebRTCSignaling` and of `StoreRequests` is weak fairness of each
goroutine's own steps: the Go scheduler runs what can run, and `sync.Mutex` hands itself to
a waiter that has waited for a millisecond, so a mutex free again and again is
obtained. Clients owe nothing: joining, stopping, hanging up and arriving are
not fair. `LiveTelemetry` asks the same of POSTs; of the loop of a client it asks only that
`case <-done` is taken once it is ready (a `select` chooses among ready cases
at random) and that the deferred call runs. That holds of a loop which gets back to its `select`:
a write ends within ten seconds, but a View may wait for ever, hence `stuck`, of which no fairness is
asked. Nor does it ask that a client ever takes an update out, since a client need not read.

## 4. Proofs

Eight modules hold theorems: `WebRTCSignalingProofs`, `StaleLiveProofs`, `StoreProofs`, `FleetProofs`,
`FleetRefinement`, `RecordsProofs`, `LiveProofs` and `FramesProofs`. All are for every value of the
constants that satisfies the named assumptions (`RoomsAssumption`, `ConnAssumption`,
`StoreAssumption`, `KindsAssumption`, `FleetAssumption`, `RecordsAssumption`, `LiveAssumption`,
`XorAssumption`). Each component's module proves `Spec => []IInv` by one lemma per action and derives the properties from it. `IInv`
is the conjunction of the type invariant and the named parts below; TLC has checked
each of them on the instances above first.

* **Signaling.** `NoMissedViewer` is about both sides being done; in between, the viewer
  not told of is either still to be listed by the holder of the slot, or will look at
  the slot itself: `TellingInv`. That a membership belongs to the connection's `handle`, that
  no room object serves two vehicles, and that a registered room's members stand
  where clean-up will still reach them are `MembersInv` and `RoomsInv`. `NoRoomLeak` needs
  `ServedInv`: some connection being served has the room *in hand*. That connection's
  clean-up tests the room again, under `hub.mu` (`HubMuInv`).
  `StaleLiveProofs` adds `LiveInv` for `NoStaleLive`. That invariant speaks of quiet states only; what
  holds throughout is that a dashboard which believes an ended stream live is either
  *owed* the news by a source that stands before its notification of that room (`Owes`), or
  its source was *deposed* by another's `clearPublisher` (the finding `LiveSourceKeepsSlot`). When
  all is quiet nobody owes anything. `AnnouncingInv` keeps a source that has stopped from
  announcing, and the dashboards it lists in its own room.
  `ConferenceKept` needs `PlaceInv`: all who are in a room object, or work on it, are of one
  vehicle, also when the hub has dropped the object; a snapshot holds viewers of the vehicle of
  whoever took it. Most steps only let people go (`Works`, `Shrinks`); the five that fetch a room
  find in it nobody of another vehicle, by `RoomsInv` (`FetchPlace`). Each action is then one step
  of the conference or none (`SourceKeeps` .. `ClientKeeps`).
  `LimitHolds` has an assumption that is itself temporal, that dashboards pass the test of the limit one at a
  time (`OneAtATime`): `LimitInv` is inductive together with `IInv` only in steps from states where it
  holds, and says that while one has passed, the room has a place left.
* **Store.** `HolderInv`: `mu` is held exactly from loading to replacing. `SnapInv`: a
  snapshot therefore equals what is stored until it is replaced, so replacing it
  changes only what the handler changed. `LogInv` orders an alert's notification before its
  counting. The five properties are themselves conjuncts. `AsksItself` proves for
  any number of requests what `UpdateEnds` finds in an instance. `StoreIsAtomic` is the
  refinement: by `SnapInv` a commit changes what is stored at that moment by what the closure
  did, and by `pc` each request commits once at most.
* **Fleet.** `AccountInv`: every account is in one row at most, every request opens one
  account and begins one session at most, and only while it has not yet passed that
  call. `EmailInv`: whoever inserts an address has one. `MadeInv`: the devices made for
  different clients differ and stay. With `Accepted` (unique addresses, foreign keys)
  these are inductive. `FleetRefinement` then proves `Spec => A!Spec`: each of the 27
  actions is first reduced to one of five effects on users and sessions
  (`StepEffect`); a row added is `Register`, a row rewritten `Readdress` or a stutter,
  a row removed `Close` (no session refers to it, or `Accepted` would have refused), a
  session added `SignIn`, one removed `SignOut`.
  `LoginsOwnSession` follows a login through its calls (`LoginInv`): from the row it has found
  (`FoundInv`) to the session it is given (`GivenInv`), the account is the one looked up unless its row
  is `Gone`.
* **Records.** `IInv` says of every request how far its statements have come: those made are
  in the tables unless a later request has overwritten them, `turn` orders the methods as `mu` does,
  and only the holder of `mu` has statements left. What `Update` has loaded equals the columns it
  will rewrite. A barcode key without its id needs an excuse (`KeyInv`, `Excused`).
* **Frames.** `FrameIsRead` (every opcode, mask and length up to 1 MiB, and whatever follows
  in the stream), `CutFrameIsRefused`, `LongFrameIsRefused`, `Uint64RoundTrip`. The frames are
  operators, so these are statements about values and need no `Spec`.
* **Live telemetry.** `HolderInv`: whom a broadcast has still to visit is registered, since
  nobody can leave while it holds `wsMu`; with `ClientInv` no channel it sends to is closed.
  `SentInv`: an update is put into a channel at most once, and stays its last element until
  its broadcast ends; this is what makes `SameOrder` inductive. `BufferInv`: the buffer is the
  beginning of `order`. `VisitedInv` is what `FeedIsAtomic` needs: of those visited so far, exactly
  those have the update that may see it by their subscriptions *now* and had room for it, since
  nobody's can change while `wsMu` is held.

Every safety property of the passing runs is proved, and all four refinements. Only
model-checked: the liveness properties and everything under fairness, which the prover
does not treat.

## 5. Not modelled, and what the models do not say

Not modelled:

* the import of a legacy JSON file at the first start, errors of the disk below a failing
  statement, the seven-day expiry of sessions and the database's write timeout;
* signing, parsing and expiry of tokens, and the list of ICE servers: `Access` stands for
  their verdict;
* lists, feeds, reports and barcodes: they read rows already stored and keep nothing;
* `cmd/server` and the configuration of nginx, coturn and systemd: no state of the program's own;
* what is written to sockets and files, the wording of payloads, names and passwords.

What the models do not say:

* `publisher_disconnected` in `docs/WEBRTC_STREAMING.md` (69) is `source_disconnected` in the code;
  names of messages are not modelled.
* A dashboard in a room that the hub has dropped may believe a stopped stream live
  (`NoStaleLive` speaks of registered rooms only); a `viewer_joined` may reach a phone
  after the `viewer_disconnected` of the same dashboard.
* `webrtcHub()` creates the hub on first use without a lock; the models start with the hub.
* A barcode key stored without its id stays so: no later call adds one.
* Headers, notifications and uploads keep the id of a user that is deleted.
* A vehicle is named in signaling by the text of its id: "1", "01" and "+1" give
  access to the same vehicle and name three rooms. `Vehicle` there is the set of such names.
* A dashboard whose loop waits for a store that is locked for ever (`UpdateEnds`) stays registered, and
  its channel fills, after its connection is gone.
* `handleCreateDevice` ignores the error of its `Update` and answers with the device all the same.
  `DeviceKept` does not see that: nothing makes that commit fail in `Fleet`.
* Updates queued for a dashboard before it subscribes to another vehicle are still
  written afterwards; role and user are read once, when it connects.
* That a vehicle's, driver's or device's owner exists: no foreign key says so, `owner_id` may
  name nobody, and `handleDeleteTeamMember` leaves the rows of the member behind. An
  account that is given the id later owns them.
* Signup looks its row up again by address: if an admin has moved the address to
  another account meanwhile, the client gets that account's session, as in `LoginIsOnesOwn`.
* Two dashboards that count the viewers before either is added exceed the limit by one: hence the
  condition of `LimitKept`.
* Deleted vehicles are `Removed` in `CommittedStays` and `CreatedOnce`; as long as
  `handleDeleteVehicle` waits for itself no vehicle is.

## 6. Plan

Done: signaling, the store and its handlers, the fleet tables, the single-statement tables, live
telemetry, frames; the abstract conference, store, accounts and feed with their refinements; a proof of every
safety property that is checked. What is left, in this order:

1. **The hub's lazy creation**, which needs the first connections only, and delivery of messages through
   bounded channels instead of what they add up to.
2. **Live telemetry over the store**: the fleet changes between the View and the broadcast.
3. **The import of a legacy file**, with a crash between its statements.
