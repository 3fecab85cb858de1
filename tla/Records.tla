------------------------------ MODULE Records ------------------------------
(***************************************************************************)
(* The tables that only single statements touch (activity.go,              *)
(* dashboard_data.go): settings and the barcode key, API forwarding, leads *)
(* and orders, OTA files and deployments, notifications, uploads; and      *)
(* Update, which rewrites the users among whose columns are those of       *)
(* forwarding.                                                             *)
(*                                                                         *)
(* A method of Store holds mu while it makes its statements one after the  *)
(* other.  They are no transaction: when one fails, or the process ends,   *)
(* the earlier ones stay.  todo is what the method has still to make.      *)
(*                                                                         *)
(* A value is represented by the request that wrote it, a row by the       *)
(* request that made it (ids here are AUTOINCREMENT: never given out       *)
(* twice).  Requests are authenticated, and entitled to what they ask.     *)
(***************************************************************************)
EXTENDS FiniteSets, Integers

CONSTANTS
    Request,   \* HTTP requests, each served by a goroutine of its own
    Nobody,    \* a mutex nobody holds
    Unset,     \* no value
    User,      \* ids of users
    Stranger,  \* an id no user has, or has any longer
    Everyone,  \* an admin, who sees everybody's notifications
    MaxItems,  \* devices that one deployment names, at most
    Named,     \* the sets of settings and columns that clients name together
    Pages      \* the sets of handlers that clients use in one behaviour

AllKinds == {"barcode", "put_settings", "forward", "lead", "order", "status",
             "publish", "deploy", "withdraw", "notify", "read_one", "read_all",
             "upload", "update"}

ASSUME RecordsAssumption ==
    /\ Nobody \notin Request /\ Unset \notin Request
    /\ Stranger \notin User /\ Everyone \notin User \cup {Stranger}
    /\ MaxItems \in Nat
    /\ {} \notin Named
    /\ Pages \subseteq SUBSET AllKinds

VARIABLES
    mu,     \* the request that holds Store.mu, or Nobody
    db,     \* the rows
    pc,     \* where each request stands
    kind,   \* its handler
    body,   \* what it names
    todo,   \* the statements its method has still to make
    local,  \* what its method has read: a row's payload, or the users
    missed, \* calls that found no barcode key
    given,  \* the barcode key and key id a call is answered with
    answer, \* what the client got
    turn,   \* when its method got mu, 0 before (history)
    clock   \* how many have got it (history)

history == <<turn, clock>>
vars == <<mu, db, pc, kind, body, todo, local, missed, given, answer, history>>

Value == Request \cup {Unset}
BarcodeKey == {"secure_barcode_key", "secure_barcode_key_id"}
Limit == {"speed_limit", "acceleration_limit"}
UserColumn == {"is_api", "api_url", "interval"}
Column == UserColumn \cup {"headers"}
Setting == BarcodeKey \cup Limit
Item == 1 .. MaxItems
\* AddOTAFile and the like insert a row, then update it with what only its id
\* could tell.
RowState == {"none", "inserted", "whole"}

Payload == [number : BOOLEAN, status : Value]
Sale == [state : RowState, status : Value, payload : Payload]
NoPayload == [number |-> FALSE, status |-> Unset]
NoSale == [state |-> "none", status |-> Unset, payload |-> NoPayload]
Forwarding == [User \cup {Stranger} -> [Column -> Value]]

Rows == [settings : [Setting -> Value],
         forwarding : Forwarding,
         sales : [Request -> Sale],
         files : [Request -> RowState],
         deployments : [Request -> [Item -> RowState]],
         notifications : [Request -> {"none", "unread", "read"}],
         uploads : SUBSET Request]

Body == [fields : SUBSET (Setting \cup Column),
         user : User \cup {Stranger, Everyone},
         target : Request,
         items : 0 .. MaxItems]
Statement ==
    ({"setting"} \X Setting) \cup ({"column"} \X Column)
    \cup ({"insert", "number", "select", "status", "drop_deployments", "drop_file",
           "mark", "load", "replace"} \X {"row"})
    \cup ({"insert_item", "number_item"} \X Item)

NoForwarding == [u \in User \cup {Stranger} |-> [c \in Column |-> Unset]]

TypeOK ==
    /\ mu \in Request \cup {Nobody}
    /\ db \in Rows
    /\ pc \in [Request -> {"idle", "settings", "call", "run", "audit", "done"}]
    /\ kind \in [Request -> AllKinds]
    /\ body \in [Request -> Body]
    /\ todo \in [Request -> SUBSET Statement]
    /\ local \in [Request -> [payload : Payload, users : Forwarding]]
    /\ missed \in SUBSET Request
    /\ given \in [Request -> [key : Value, id : Value]]
    /\ answer \in [Request -> {"none", "ok", "not_found", "error", "lost"}]
    /\ turn \in [Request -> Nat]
    /\ clock \in Nat

Init ==
    /\ mu = Nobody
    /\ db = [settings |-> [k \in Setting |-> Unset],
             forwarding |-> NoForwarding,
             sales |-> [r \in Request |-> NoSale],
             files |-> [r \in Request |-> "none"],
             deployments |-> [r \in Request |-> [i \in Item |-> "none"]],
             notifications |-> [r \in Request |-> "none"],
             uploads |-> {}]
    /\ pc = [r \in Request |-> "idle"]
    /\ kind = [r \in Request |-> "lead"]
    /\ body = [r \in Request |-> [fields |-> {}, user |-> Stranger,
                                  target |-> r, items |-> 0]]
    /\ todo = [r \in Request |-> {}]
    /\ local = [r \in Request |-> [payload |-> NoPayload, users |-> NoForwarding]]
    /\ missed = {}
    /\ given = [r \in Request |-> [key |-> Unset, id |-> Unset]]
    /\ answer = [r \in Request |-> "none"]
    /\ turn = [r \in Request |-> 0]
    /\ clock = 0

----------------------------------------------------------------------------
(* The methods: which statements, and in which order.                      *)

StatementsOf(k, b) ==
    CASE k = "barcode" -> {"setting"} \X BarcodeKey
      [] k = "put_settings" -> {"setting"} \X b.fields
      [] k = "forward" -> {"column"} \X b.fields
      [] k \in {"lead", "notify", "upload"} -> {<<"insert", "row">>}
      [] k \in {"order", "publish"} -> {<<"insert", "row">>, <<"number", "row">>}
      [] k = "status" -> {<<"select", "row">>, <<"status", "row">>}
      [] k = "deploy" -> {"insert_item", "number_item"} \X (1 .. b.items)
      [] k = "withdraw" -> {<<"drop_deployments", "row">>, <<"drop_file", "row">>}
      [] k \in {"read_one", "read_all"} -> {<<"mark", "row">>}
      [] k = "update" -> {<<"load", "row">>, <<"replace", "row">>}

\* SaveSettings ranges over a map, in any order.
Rank(s) ==
    CASE s[1] = "column" ->
              (CASE s[2] = "is_api" -> 1 [] s[2] = "api_url" -> 2
                 [] s[2] = "interval" -> 3 [] s[2] = "headers" -> 4)
      [] s[1] \in {"number", "status", "drop_file", "replace"} -> 1
      [] s[1] = "insert_item" -> 2 * s[2]
      [] s[1] = "number_item" -> 2 * s[2] + 1
      [] OTHER -> 0

\* The handlers that write an audit record at the end.
Audited == {"put_settings", "forward", "lead", "order", "notify", "read_one",
            "read_all", "upload", "update"}

Answer(r, a) ==
    /\ pc' = [pc EXCEPT ![r] = "done"]
    /\ answer' = [answer EXCEPT ![r] = a]

\* Request r makes statement s; after its last one mu is released.
Makes(r, s) ==
    /\ pc[r] = "run"
    /\ s \in todo[r]
    /\ \A t \in todo[r] : Rank(s) <= Rank(t)
    /\ todo' = [todo EXCEPT ![r] = @ \ {s}]
    /\ IF todo[r] # {s} THEN UNCHANGED <<mu, pc, answer>>
       ELSE /\ mu' = Nobody
            /\ IF kind[r] \in Audited
               THEN pc' = [pc EXCEPT ![r] = "audit"] /\ UNCHANGED answer
               ELSE Answer(r, "ok")
    /\ UNCHANGED <<kind, body, missed, history>>

\* The method returns ErrNotFound.
NotFound(r, s) ==
    /\ pc[r] = "run"
    /\ s \in todo[r]
    /\ \A t \in todo[r] : Rank(s) <= Rank(t)
    /\ mu' = Nobody
    /\ Answer(r, "not_found")
    /\ UNCHANGED <<kind, body, todo, local, missed, given, history>>

----------------------------------------------------------------------------
(* Requests arrive, and get their turn.                                    *)

Arrive(r, k, b) ==
    /\ pc[r] = "idle"
    /\ \E page \in Pages :
          k \in page /\ \A q \in Request : pc[q] # "idle" => kind[q] \in page
    /\ pc' = [pc EXCEPT ![r] = IF k = "barcode" THEN "settings" ELSE "call"]
    /\ kind' = [kind EXCEPT ![r] = k]
    /\ body' = [body EXCEPT ![r] = b]
    /\ UNCHANGED <<mu, db, todo, local, missed, given, answer, history>>

\* What clients name.  A client may well put a barcode key of its own.
Bodies(k) ==
    {b \in Body :
        /\ b.fields \in CASE k = "put_settings" -> Named \cap SUBSET Setting
                          [] k = "forward" -> Named \cap SUBSET Column
                          [] OTHER -> {{}}
        /\ b.user \in CASE k \in {"forward", "notify"} -> User \cup {Stranger}
                        [] k \in {"read_one", "read_all"} -> User \cup {Everyone}
                        [] OTHER -> {Stranger}
        /\ b.items = IF k = "deploy" THEN MaxItems ELSE 0}

\* Kinds whose body names another row; the rest name themselves.
Targeting == {"status", "deploy", "withdraw", "read_one"}

\* Variant: the key is generated whatever is stored.
AlwaysGenerate(r) ==
    /\ pc[r] = "settings"
    /\ mu = Nobody
    /\ missed' = IF db.settings["secure_barcode_key"] = Unset
                 THEN missed \cup {r} ELSE missed
    /\ pc' = [pc EXCEPT ![r] = "call"]
    /\ UNCHANGED <<mu, db, kind, body, todo, local, given, answer, history>>

\* handleBarcodeKey reads all settings; without a key it generates one.
Look(r) ==
    /\ pc[r] = "settings"
    /\ IF db.settings["secure_barcode_key"] = Unset
       THEN /\ pc' = [pc EXCEPT ![r] = "call"]
            /\ missed' = missed \cup {r}
            /\ UNCHANGED <<given, answer>>
       ELSE /\ Answer(r, "ok")
            /\ given' = [given EXCEPT ![r] =
                            [key |-> db.settings["secure_barcode_key"],
                             id |-> db.settings["secure_barcode_key_id"]]]
            /\ UNCHANGED missed
    /\ UNCHANGED <<mu, db, kind, body, todo, local, history>>

LookForKey(r) == mu = Nobody /\ Look(r)

\* Variant: the statements are made without the mutex.
BeginUnlocked(r) ==
    /\ pc[r] = "call"
    /\ pc' = [pc EXCEPT ![r] = "run"]
    /\ todo' = [todo EXCEPT ![r] = StatementsOf(kind[r], body[r])]
    /\ turn' = [turn EXCEPT ![r] = clock + 1]
    /\ clock' = clock + 1
    /\ UNCHANGED <<mu, db, kind, body, local, missed, given, answer>>

\* The method gets mu.
Begin(r) ==
    /\ pc[r] = "call"
    /\ mu = Nobody
    /\ mu' = r
    /\ pc' = [pc EXCEPT ![r] = "run"]
    /\ todo' = [todo EXCEPT ![r] = StatementsOf(kind[r], body[r])]
    /\ turn' = [turn EXCEPT ![r] = clock + 1]
    /\ clock' = clock + 1
    /\ UNCHANGED <<db, kind, body, local, missed, given, answer>>

----------------------------------------------------------------------------
(* Statements.                                                             *)

\* SaveSettings: one row.  The barcode key's handler answers with what it saves.
Upsert(r, k) ==
    /\ Makes(r, <<"setting", k>>)
    /\ db' = [db EXCEPT !.settings[k] = r]
    /\ given' = IF kind[r] = "barcode" THEN [given EXCEPT ![r] = [key |-> r, id |-> r]]
                                       ELSE given
    /\ UNCHANGED local

\* SetAPIForwarding: a column of the user's row, if there is one, or the
\* headers, which have a row of their own whether there is a user or not.
SetColumn(r, c) ==
    /\ Makes(r, <<"column", c>>)
    /\ db' = IF c = "headers" \/ body[r].user \in User
             THEN [db EXCEPT !.forwarding[body[r].user][c] = r] ELSE db
    /\ UNCHANGED <<local, given>>

\* AddLead, AddOrder, AddOTAFile, AddNotification, AddUploadedFile.  A lead is
\* complete; the number of an order and the payload of a file follow.
Insert(r) ==
    /\ Makes(r, <<"insert", "row">>)
    /\ db' = CASE kind[r] \in {"lead", "order"} ->
                    [db EXCEPT !.sales[r] =
                        [state |-> IF kind[r] = "lead" THEN "whole" ELSE "inserted",
                         status |-> r,
                         payload |-> [number |-> FALSE, status |-> r]]]
               [] kind[r] = "publish" -> [db EXCEPT !.files[r] = "inserted"]
               [] kind[r] = "notify" -> [db EXCEPT !.notifications[r] = "unread"]
               [] kind[r] = "upload" -> [db EXCEPT !.uploads = @ \cup {r}]
    /\ UNCHANGED <<local, given>>

\* AddOrder writes the number made from the id, and the payload it has just
\* inserted with it; AddOTAFile its payload with the id.
Number(r) ==
    /\ Makes(r, <<"number", "row">>)
    /\ db' = IF kind[r] = "order"
             THEN [db EXCEPT !.sales[r] = [@ EXCEPT !.state = "whole",
                                 !.payload = [number |-> TRUE, status |-> r]]]
             ELSE [db EXCEPT !.files[r] = "whole"]
    /\ UNCHANGED <<local, given>>

\* UpdateLeadStatus and UpdateOrderStatus read the payload, if the row exists ...
SelectPayload(r) ==
    LET row == db.sales[body[r].target] IN
    \/ /\ row.state # "none"
       /\ Makes(r, <<"select", "row">>)
       /\ local' = [local EXCEPT ![r].payload = row.payload]
       /\ UNCHANGED <<db, given>>
    \/ /\ row.state = "none"
       /\ NotFound(r, <<"select", "row">>)
       /\ UNCHANGED db

\* Variant: the status goes to its column only.
WriteColumn(r) ==
    /\ Makes(r, <<"status", "row">>)
    /\ db' = [db EXCEPT !.sales[body[r].target].status = r]
    /\ UNCHANGED <<local, given>>

\* ... and write it back with the status.
WriteStatus(r) ==
    /\ Makes(r, <<"status", "row">>)
    /\ db' = [db EXCEPT !.sales[body[r].target] =
                 [@ EXCEPT !.status = r,
                           !.payload = [local[r].payload EXCEPT !.status = r]]]
    /\ UNCHANGED <<local, given>>

\* AddOTADeployments, device by device.  Nobody asks whether the file exists.
InsertDeployment(r, i) ==
    /\ Makes(r, <<"insert_item", i>>)
    /\ db' = [db EXCEPT !.deployments[r][i] = "inserted"]
    /\ UNCHANGED <<local, given>>

NumberDeployment(r, i) ==
    /\ Makes(r, <<"number_item", i>>)
    /\ db' = [db EXCEPT !.deployments[r][i] = "whole"]
    /\ UNCHANGED <<local, given>>

\* Variant: the deployment with the id of the file is deleted.
DropById(r) ==
    /\ Makes(r, <<"drop_deployments", "row">>)
    /\ db' = [db EXCEPT !.deployments[body[r].target] = [i \in Item |-> "none"]]
    /\ UNCHANGED <<local, given>>

\* DeleteOTAFile: first the deployments of the file, then the file.
DropDeployments(r) ==
    /\ Makes(r, <<"drop_deployments", "row">>)
    /\ db' = [db EXCEPT !.deployments =
                 [q \in Request |->
                     IF kind[q] = "deploy" /\ body[q].target = body[r].target
                     THEN [i \in Item |-> "none"] ELSE db.deployments[q]]]
    /\ UNCHANGED <<local, given>>

DropFile(r) ==
    \/ /\ db.files[body[r].target] # "none"
       /\ Makes(r, <<"drop_file", "row">>)
       /\ db' = [db EXCEPT !.files[body[r].target] = "none"]
       /\ UNCHANGED <<local, given>>
    \/ /\ db.files[body[r].target] = "none"
       /\ NotFound(r, <<"drop_file", "row">>)
       /\ UNCHANGED db

Sees(u, q) == u = Everyone \/ body[q].user = u

\* Variant: an admin's notifications are only those of no owner.
MarksOwn(r) ==
    {q \in Request : /\ db.notifications[q] # "none"
                     /\ body[q].user = body[r].user
                     /\ kind[r] = "read_one" => q = body[r].target}

\* What r marks as read: one notification, or all that its user sees.
Marks(r) ==
    {q \in Request : /\ db.notifications[q] # "none"
                     /\ Sees(body[r].user, q)
                     /\ kind[r] = "read_one" => q = body[r].target}

MarkRead(r) ==
    \/ /\ kind[r] = "read_one" => Marks(r) # {}
       /\ Makes(r, <<"mark", "row">>)
       /\ db' = [db EXCEPT !.notifications =
                    [q \in Request |-> IF q \in Marks(r) THEN "read" ELSE @[q]]]
       /\ UNCHANGED <<local, given>>
    \/ /\ kind[r] = "read_one" /\ Marks(r) = {}
       /\ NotFound(r, <<"mark", "row">>)
       /\ UNCHANGED db

\* Update, of a profile say: all rows of users are loaded ...
LoadUsers(r) ==
    /\ Makes(r, <<"load", "row">>)
    /\ local' = [local EXCEPT ![r].users = db.forwarding]
    /\ UNCHANGED <<db, given>>

\* Variant: the headers are written back too, and they were not loaded.
ReplaceHeaders(r) ==
    /\ Makes(r, <<"replace", "row">>)
    /\ db' = [db EXCEPT !.forwarding =
                 [u \in User \cup {Stranger} |->
                     [c \in UserColumn |-> local[r].users[u][c]]]]
    /\ UNCHANGED <<local, given>>

\* ... and written back in one transaction; the headers are not among them.
ReplaceUsers(r) ==
    /\ Makes(r, <<"replace", "row">>)
    /\ db' = [db EXCEPT !.forwarding =
                 [u \in User \cup {Stranger} |->
                     [c \in Column |-> IF c \in UserColumn THEN local[r].users[u][c]
                                                           ELSE @[u][c]]]]
    /\ UNCHANGED <<local, given>>

----------------------------------------------------------------------------
(* Failures, and the end of a request.                                     *)

\* Variant: the error of a statement is not looked at.
FailUnnoticed(r) ==
    /\ pc[r] = "run"
    /\ mu' = Nobody
    /\ Answer(r, "ok")
    /\ UNCHANGED <<db, kind, body, todo, local, missed, given, history>>

\* A statement fails: the method returns, what it wrote before stays.  The
\* handlers of status and withdraw answer any error with 404.
Fail(r) ==
    /\ pc[r] = "run" \/ (pc[r] = "settings" /\ mu = Nobody)
    /\ mu' = Nobody
    /\ Answer(r, IF kind[r] \in {"status", "withdraw"} THEN "not_found" ELSE "error")
    /\ UNCHANGED <<db, kind, body, todo, local, missed, given, history>>

\* recordAudit, whatever comes of it, as of the event and the counter that
\* follow a notification (StoreRequests).
Audit(r) ==
    /\ pc[r] = "audit"
    /\ mu = Nobody
    /\ Answer(r, "ok")
    /\ UNCHANGED <<mu, db, kind, body, todo, local, missed, given, history>>

\* The process ends; SQLite keeps every statement made.
Restart ==
    /\ \E r \in Request : pc[r] \notin {"idle", "done"}
    /\ mu' = Nobody
    /\ pc' = [r \in Request |-> IF pc[r] = "idle" THEN "idle" ELSE "done"]
    /\ answer' = [r \in Request |->
                     IF pc[r] \in {"idle", "done"} THEN answer[r] ELSE "lost"]
    /\ UNCHANGED <<db, kind, body, todo, local, missed, given, history>>

Step(r) ==
    \/ LookForKey(r) \/ Begin(r)
    \/ \E k \in Setting : Upsert(r, k)
    \/ \E c \in Column : SetColumn(r, c)
    \/ Insert(r) \/ Number(r) \/ SelectPayload(r) \/ WriteStatus(r)
    \/ \E i \in Item : InsertDeployment(r, i) \/ NumberDeployment(r, i)
    \/ DropDeployments(r) \/ DropFile(r) \/ MarkRead(r)
    \/ LoadUsers(r) \/ ReplaceUsers(r)
    \/ Fail(r) \/ Audit(r)

Next ==
    \/ \E r \in Request :
          \/ Step(r)
          \/ \E k \in AllKinds : \E b \in Bodies(k) :
                (b.target = r \/ (k \in Targeting /\ pc[b.target] # "idle"))
                /\ Arrive(r, k, b)
    \/ Restart

Spec == Init /\ [][Next]_vars
----------------------------------------------------------------------------
(* Correctness.                                                            *)

\* The value is that of r, or of a request whose method came later.
Newer(q, r) == q = r \/ (q \in Request /\ turn[q] > turn[r])

\* A client told that its settings are saved finds every one of them stored,
\* until somebody saves that setting again: a save is never answered half done.
SettingsKept ==
    \A r \in Request : kind[r] = "put_settings" /\ answer[r] = "ok" =>
        \A k \in body[r].fields : Newer(db.settings[k], r)

\* The same of API forwarding, whose columns every Update rewrites from rows it
\* has loaded before.  An id no user has keeps only the headers.
ForwardingKept ==
    \A r \in Request : kind[r] = "forward" /\ answer[r] = "ok" =>
        \A c \in body[r].fields :
            c = "headers" \/ body[r].user \in User =>
                Newer(db.forwarding[body[r].user][c], r)

\* A lead, an order, a notification, an upload a client was told of is in its
\* table, with its number, and its payload agrees with the status of the row
\* (lists lay the columns over it); a status a client has set stays until it
\* is set again.
RowsKept ==
    \A r \in Request : answer[r] = "ok" =>
        /\ kind[r] \in {"lead", "order"} =>
              /\ db.sales[r].state = "whole"
              /\ db.sales[r].payload = [number |-> kind[r] = "order",
                                        status |-> db.sales[r].status]
        /\ kind[r] = "notify" => db.notifications[r] # "none"
        /\ kind[r] = "upload" => r \in db.uploads
        /\ kind[r] = "status" => Newer(db.sales[body[r].target].status, r)

\* A later request deletes file t.
Withdrawn(t, r) ==
    \E q \in Request : /\ kind[q] = "withdraw" /\ body[q].target = t
                       /\ turn[q] > turn[r]

\* A file and all the deployments a client was told of are there until the file
\* is deleted; once a client is told that it is, neither the file nor any
\* deployment made before is left.
DeploymentsKept ==
    \A r \in Request : answer[r] = "ok" =>
        /\ kind[r] = "publish" => db.files[r] = "whole" \/ Withdrawn(r, r)
        /\ kind[r] = "deploy" =>
              \A i \in 1 .. body[r].items :
                  db.deployments[r][i] = "whole" \/ Withdrawn(body[r].target, r)
        /\ kind[r] = "withdraw" =>
              /\ db.files[body[r].target] = "none"
              /\ \A q \in Request, i \in Item :
                    /\ body[q].target = body[r].target
                    /\ db.deployments[q][i] # "none"
                    => turn[q] > turn[r]

\* What was marked as read stays read, also when marking all races the
\* recording of new notifications.
ReadKept ==
    \A r, q \in Request :
        /\ kind[r] \in {"read_one", "read_all"} /\ answer[r] = "ok"
        /\ db.notifications[q] # "none" /\ turn[q] < turn[r]
        /\ Sees(body[r].user, q)
        /\ kind[r] = "read_one" => q = body[r].target
        => db.notifications[q] = "read"

\* A barcode key that is stored is replaced only by calls that looked for one
\* before there was any, or by a client that puts its own.
KeySettles ==
    [][LET key == db.settings["secure_barcode_key"]
           next == db'.settings["secure_barcode_key"]
       IN  key # Unset /\ next # key =>
               next \in missed \/ kind[next] = "put_settings"]_vars

\* A key comes with its id, unless a first save was cut short or a client put a
\* key: then it may be stored without its id, and no later call repairs that.
KeyComesWithId ==
    \A r \in Request : kind[r] = "barcode" /\ answer[r] = "ok" =>
        \/ given[r].key # Unset /\ given[r].id # Unset
        \/ \E q \in missed : answer[q] \in {"error", "lost"}
        \/ \E q \in Request : /\ kind[q] = "put_settings"
                              /\ "secure_barcode_key" \in body[q].fields
============================================================================
