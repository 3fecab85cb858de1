--------------------------- MODULE RecordsProofs ---------------------------
(***************************************************************************)
(* The properties of Records hold for any number of requests, users and    *)
(* devices.  Every step is quiet, an arrival, a turn given or a statement; *)
(* what a statement does to each table is stated once (Effect), and each   *)
(* part of the invariant looks only at its own table.                      *)
(***************************************************************************)
EXTENDS Records, TLAPS

----------------------------------------------------------------------------
(* The inductive invariant.                                                *)

\* Every kind names only what it may name.
BodyInv ==
    \A r \in Request :
        /\ kind[r] = "put_settings" => body[r].fields \subseteq Setting
        /\ kind[r] = "forward" => body[r].fields \subseteq Column
        /\ pc[r] = "idle" => kind[r] = "lead"
        /\ pc[r] = "settings" => kind[r] = "barcode"

\* Who runs holds mu, and was the last to get it.
TurnInv ==
    /\ \A r \in Request :
          /\ pc[r] = "run" <=> mu = r
          /\ pc[r] \in {"idle", "settings", "call"} => turn[r] = 0 /\ todo[r] = {}
          /\ turn[r] <= clock
          /\ pc[r] = "run" => turn[r] = clock /\ turn[r] > 0
    /\ \A r, q \in Request : turn[r] = turn[q] /\ turn[r] # 0 => r = q

\* What is still to be made belongs to the method, and what a row needs first
\* is made first; a client that is answered "ok" has nothing left.
TodoInv ==
    \A r \in Request :
        /\ todo[r] \subseteq StatementsOf(kind[r], body[r])
        /\ kind[r] \in {"order", "publish"} /\ <<"insert", "row">> \in todo[r] =>
              <<"number", "row">> \in todo[r]
        /\ \A i \in Item : <<"insert_item", i>> \in todo[r] =>
              <<"number_item", i>> \in todo[r]
        /\ answer[r] # "none" => pc[r] = "done"
        /\ pc[r] = "audit" \/ (answer[r] = "ok" /\ kind[r] # "barcode") =>
              todo[r] = {} /\ turn[r] > 0

\* r's method got mu, and has made statement s.
Made(r, s) == turn[r] > 0 /\ s \notin todo[r]

SettingsInv ==
    \A r \in Request : kind[r] = "put_settings" =>
        \A k \in body[r].fields :
            Made(r, <<"setting", k>>) => Newer(db.settings[k], r)

ForwardingInv ==
    /\ \A r \in Request : kind[r] = "forward" =>
          \A c \in body[r].fields :
              Made(r, <<"column", c>>) /\ (c = "headers" \/ body[r].user \in User) =>
                  Newer(db.forwarding[body[r].user][c], r)
    /\ \A r \in Request : 
          /\ kind[r] = "forward" => body[r].user \in User \cup {Stranger}
          /\ pc[r] = "run" /\ kind[r] = "update" /\ Made(r, <<"load", "row">>) =>
                local[r].users = db.forwarding

SaleWhole(r) ==
    kind[r] \in {"lead", "order"} /\ Made(r, <<"insert", "row">>) =>
        /\ db.sales[r].payload.status = db.sales[r].status
        /\ kind[r] = "lead" =>
              db.sales[r].state = "whole" /\ db.sales[r].payload.number = FALSE
        /\ kind[r] = "order" /\ Made(r, <<"number", "row">>) =>
              db.sales[r].state = "whole" /\ db.sales[r].payload.number = TRUE
        /\ pc[r] = "run" => db.sales[r].status = r

PayloadRead(r) ==
    kind[r] = "status" /\ pc[r] = "run" /\ Made(r, <<"select", "row">>) =>
        local[r].payload = db.sales[body[r].target].payload

StatusSet(r) ==
    kind[r] = "status" /\ Made(r, <<"status", "row">>) =>
        Newer(db.sales[body[r].target].status, r)

SalesInv == \A r \in Request : SaleWhole(r) /\ PayloadRead(r) /\ StatusSet(r)

FilesInv ==
    \A r \in Request :
        /\ db.files[r] # "none" => kind[r] = "publish" /\ turn[r] > 0
        /\ kind[r] = "publish" /\ Made(r, <<"number", "row">>) =>
              db.files[r] = "whole" \/ Withdrawn(r, r)
        /\ kind[r] = "withdraw" /\ Made(r, <<"drop_file", "row">>) =>
              /\ db.files[body[r].target] = "none"
              /\ turn[body[r].target] > 0 /\ turn[body[r].target] < turn[r]

DeploymentsInv ==
    \A r \in Request :
        /\ \A i \in Item : db.deployments[r][i] # "none" =>
              kind[r] = "deploy" /\ turn[r] > 0
        /\ kind[r] = "deploy" => \A i \in 1 .. body[r].items :
              Made(r, <<"number_item", i>>) =>
                  db.deployments[r][i] = "whole" \/ Withdrawn(body[r].target, r)
        /\ kind[r] = "withdraw" /\ Made(r, <<"drop_deployments", "row">>) =>
              \A q \in Request, i \in Item :
                  body[q].target = body[r].target /\ db.deployments[q][i] # "none"
                  => turn[q] > turn[r]

NoticesInv ==
    /\ \A r \in Request :
          /\ kind[r] = "notify" /\ Made(r, <<"insert", "row">>) =>
                db.notifications[r] # "none"
          /\ kind[r] = "upload" /\ Made(r, <<"insert", "row">>) => r \in db.uploads
          /\ db.notifications[r] # "none" => kind[r] = "notify" /\ turn[r] > 0
    /\ \A r, q \in Request :
          /\ kind[r] \in {"read_one", "read_all"} /\ Made(r, <<"mark", "row">>)
          /\ db.notifications[q] # "none" /\ turn[q] < turn[r]
          /\ Sees(body[r].user, q)
          /\ kind[r] = "read_one" => q = body[r].target
          => db.notifications[q] = "read"

\* A first save was cut short, or a client has put a key.
Excused ==
    \/ \E q \in missed : answer[q] \in {"error", "lost"}
    \/ \E q \in Request : /\ kind[q] = "put_settings"
                          /\ "secure_barcode_key" \in body[q].fields

KeyInv ==
    /\ \A r \in Request :
          kind[r] = "barcode" =>
              /\ pc[r] \in {"call", "run"} => r \in missed
              /\ pc[r] # "audit"
              /\ Made(r, <<"setting", "secure_barcode_key_id">>) =>
                    db.settings["secure_barcode_key_id"] # Unset
              /\ answer[r] = "ok" =>
                    (given[r].key # Unset /\ given[r].id # Unset) \/ Excused
    /\ db.settings["secure_barcode_key"] # Unset =>
          \/ db.settings["secure_barcode_key_id"] # Unset
          \/ \E q \in Request : /\ pc[q] = "run" /\ kind[q] = "barcode"
                                /\ <<"setting", "secure_barcode_key_id">> \in todo[q]
          \/ Excused

IInv == /\ TypeOK /\ BodyInv /\ TurnInv /\ TodoInv
        /\ SettingsInv /\ ForwardingInv /\ SalesInv /\ FilesInv
        /\ DeploymentsInv /\ NoticesInv /\ KeyInv

----------------------------------------------------------------------------
(* Statements and their methods.                                           *)

Fits(k, b) == /\ k = "put_settings" => b.fields \subseteq Setting
              /\ k = "forward" => b.fields \subseteq Column

\* Methods make statements.
LEMMA StatementsTyped ==
  ASSUME NEW k \in AllKinds, NEW b \in Body, Fits(k, b)
  PROVE  StatementsOf(k, b) \subseteq Statement
  <1> USE RecordsAssumption DEF StatementsOf, Statement, Setting, Body
  <1>1. CASE k = "barcode"
    BY <1>1
  <1>2. CASE k \in {"put_settings", "forward"}
    BY <1>2 DEF Fits
  <1>3. CASE k = "deploy"
    BY <1>3 DEF Item
  <1>4. CASE k \in {"lead", "notify", "upload", "order", "publish", "status"}
    BY <1>4
  <1>5. CASE k \in {"withdraw", "read_one", "read_all", "update"}
    BY <1>5
  <1> QED BY <1>1, <1>2, <1>3, <1>4, <1>5 DEF AllKinds

\* Which methods make a statement.
LEMMA MadeBy ==
  ASSUME NEW k \in AllKinds, NEW b \in Body, NEW s \in StatementsOf(k, b)
  PROVE  /\ s[1] = "setting" => k \in {"barcode", "put_settings"}
         /\ s[1] = "setting" /\ k = "put_settings" => s[2] \in b.fields
         /\ s[1] = "column" => k = "forward"
         /\ s[1] = "insert" => k \in {"lead", "order", "publish", "notify", "upload"}
         /\ s[1] = "number" => k \in {"order", "publish"}
         /\ s[1] \in {"select", "status"} => k = "status"
         /\ s[1] \in {"insert_item", "number_item"} => k = "deploy"
         /\ s[1] \in {"drop_deployments", "drop_file"} => k = "withdraw"
         /\ s[1] = "mark" => k \in {"read_one", "read_all"}
         /\ s[1] \in {"load", "replace"} => k = "update"
  <1> USE DEF StatementsOf, Body
  <1>1. CASE k = "barcode"
    BY <1>1
  <1>2. CASE k = "put_settings"
    BY <1>2
  <1>3. CASE k = "forward"
    BY <1>3
  <1>4. CASE k = "deploy"
    BY <1>4
  <1>5. CASE k \in {"lead", "notify", "upload", "order", "publish", "status"}
    BY <1>5
  <1>6. CASE k \in {"withdraw", "read_one", "read_all", "update"}
    BY <1>6
  <1> QED BY <1>1, <1>2, <1>3, <1>4, <1>5, <1>6 DEF AllKinds

\* Which statements a method makes.
LEMMA Makings ==
  ASSUME NEW k \in AllKinds, NEW b \in Body
  PROVE  /\ k = "barcode" => <<"setting", "secure_barcode_key_id">> \in StatementsOf(k, b)
         /\ k = "put_settings" => \A f \in b.fields : <<"setting", f>> \in StatementsOf(k, b)
         /\ k = "forward" => \A f \in b.fields : <<"column", f>> \in StatementsOf(k, b)
         /\ k \in {"lead", "order", "publish", "notify", "upload"} =>
               <<"insert", "row">> \in StatementsOf(k, b)
         /\ k \in {"order", "publish"} => <<"number", "row">> \in StatementsOf(k, b)
         /\ k = "status" => {<<"select", "row">>, <<"status", "row">>} \subseteq StatementsOf(k, b)
         /\ k = "deploy" => \A i \in 1 .. b.items :
               {<<"insert_item", i>>, <<"number_item", i>>} \subseteq StatementsOf(k, b)
         /\ k = "withdraw" => {<<"drop_deployments", "row">>, <<"drop_file", "row">>}
                                  \subseteq StatementsOf(k, b)
         /\ k \in {"read_one", "read_all"} => <<"mark", "row">> \in StatementsOf(k, b)
         /\ k = "update" => {<<"load", "row">>, <<"replace", "row">>} \subseteq StatementsOf(k, b)
  <1> USE DEF StatementsOf, Body, BarcodeKey
  <1>1. CASE k \in {"barcode", "put_settings"}
    BY <1>1
  <1>2. CASE k = "forward"
    BY <1>2
  <1>3. CASE k = "deploy"
    BY <1>3
  <1>4. CASE k \in {"lead", "notify", "upload", "order", "publish", "status"}
    BY <1>4
  <1>5. CASE k \in {"withdraw", "read_one", "read_all", "update"}
    BY <1>5
  <1> QED BY <1>1, <1>2, <1>3, <1>4, <1>5 DEF AllKinds

----------------------------------------------------------------------------
(* Types.                                                                  *)

\* Arrivals keep the types, and every body names what its kind may name.
LEMMA ArriveTyped ==
  ASSUME TypeOK, BodyInv, NEW r \in Request, NEW k \in AllKinds, NEW b \in Bodies(k),
         Arrive(r, k, b)
  PROVE  TypeOK' /\ BodyInv'
  <1>1. b \in Body
    BY DEF Bodies
  <1>2. k = "put_settings" => b.fields \subseteq Setting
    BY Zenon DEF Bodies
  <1>3. k = "forward" => b.fields \subseteq Column
    BY Zenon DEF Bodies
  <1>4. TypeOK'
    BY <1>1 DEF TypeOK, Arrive, history
  <1>5. BodyInv'
    BY <1>2, <1>3 DEF TypeOK, BodyInv, Arrive
  <1> QED BY <1>4, <1>5

\* A table replaced by one of its type.
LEMMA RowsWith ==
  ASSUME NEW d \in Rows
  PROVE  /\ \A x \in [Setting -> Value] : [d EXCEPT !.settings = x] \in Rows
         /\ \A x \in Forwarding : [d EXCEPT !.forwarding = x] \in Rows
         /\ \A x \in [Request -> Sale] : [d EXCEPT !.sales = x] \in Rows
         /\ \A x \in [Request -> RowState] : [d EXCEPT !.files = x] \in Rows
         /\ \A x \in [Request -> [Item -> RowState]] :
               [d EXCEPT !.deployments = x] \in Rows
         /\ \A x \in [Request -> {"none", "unread", "read"}] :
               [d EXCEPT !.notifications = x] \in Rows
         /\ \A x \in SUBSET Request : [d EXCEPT !.uploads = x] \in Rows
  BY DEF Rows

\* The tables of rows.
LEMMA RowsHave ==
  ASSUME NEW d \in Rows
  PROVE  /\ d.settings \in [Setting -> Value]
         /\ d.forwarding \in Forwarding
         /\ d.sales \in [Request -> Sale]
         /\ d.files \in [Request -> RowState]
         /\ d.deployments \in [Request -> [Item -> RowState]]
         /\ d.notifications \in [Request -> {"none", "unread", "read"}]
         /\ d.uploads \in SUBSET Request
  BY DEF Rows

\* A sale stays one when its state, status or payload is replaced.
LEMMA SaleWith ==
  ASSUME NEW x \in Sale, NEW v \in Value, NEW p \in Payload
  PROVE  /\ [x EXCEPT !.state = "whole", !.payload = p] \in Sale
         /\ [x EXCEPT !.status = v, !.payload = p] \in Sale
         /\ [p EXCEPT !.status = v] \in Payload
  BY DEF Sale, Payload, RowState

\* Whether settings or forwarding, a statement leaves rows of their types.
LEMMA ColumnsTyped ==
  ASSUME TypeOK, NEW r \in Request
  PROVE  /\ \A k \in Setting : Upsert(r, k) => db' \in Rows
         /\ \A c \in Column : SetColumn(r, c) => db' \in Rows
         /\ ReplaceUsers(r) => db' \in Rows
  <1>0. db \in Rows /\ r \in Value
    BY DEF TypeOK, Value
  <1>1. ASSUME NEW k \in Setting, Upsert(r, k) PROVE db' \in Rows
    <2> DEFINE x == [db.settings EXCEPT ![k] = r]
    <2>1. db' = [db EXCEPT !.settings = x]
      BY <1>1 DEF Upsert
    <2>2. x \in [Setting -> Value]
      BY <1>0, RowsHave
    <2> QED BY <1>0, <2>1, <2>2, RowsWith
  <1>2. ASSUME NEW c \in Column, SetColumn(r, c) PROVE db' \in Rows
    <2> DEFINE x == [db.forwarding EXCEPT ![body[r].user][c] = r]
    <2>1. db' = db \/ db' = [db EXCEPT !.forwarding = x]
      BY <1>2 DEF SetColumn
    <2>2. x \in Forwarding
      BY <1>0, RowsHave DEF Forwarding
    <2> QED BY <1>0, <2>1, <2>2, RowsWith
  <1>3. ASSUME ReplaceUsers(r) PROVE db' \in Rows
    <2> DEFINE x == [u \in User \cup {Stranger} |->
                       [c \in Column |-> IF c \in UserColumn THEN local[r].users[u][c]
                                                             ELSE db.forwarding[u][c]]]
    <2>1. db' = [db EXCEPT !.forwarding = x]
      BY <1>3 DEF ReplaceUsers
    <2>2. local[r].users \in Forwarding
      BY DEF TypeOK
    <2>3. x \in Forwarding
      BY <1>0, <2>2, RowsHave DEF Forwarding
    <2> HIDE DEF x
    <2> QED BY <1>0, <2>1, <2>3, RowsWith
  <1> QED BY <1>1, <1>2, <1>3

\* The same of leads and orders, OTA files, notifications and uploads.
LEMMA RowsTyped ==
  ASSUME TypeOK, TodoInv, NEW r \in Request
  PROVE  /\ Insert(r) => db' \in Rows
         /\ Number(r) => db' \in Rows
         /\ WriteStatus(r) => db' \in Rows
  <1>0. db \in Rows /\ r \in Value
    BY DEF TypeOK, Value
  <1>1. ASSUME Insert(r) PROVE db' \in Rows
    <2>1. kind[r] \in {"lead", "order", "publish", "notify", "upload"}
      <3>1. <<"insert", "row">> \in StatementsOf(kind[r], body[r])
        BY <1>1 DEF Insert, Makes, TodoInv
      <3> QED BY <3>1, MadeBy DEF TypeOK
    <2>2. CASE kind[r] \in {"lead", "order"}
      <3> DEFINE y == [state |-> IF kind[r] = "lead" THEN "whole" ELSE "inserted",
                       status |-> r, payload |-> [number |-> FALSE, status |-> r]]
                 x == [db.sales EXCEPT ![r] = y]
      <3>1. db' = [db EXCEPT !.sales = x]
        BY <1>1, <2>2 DEF Insert
      <3>2. y \in Sale
        BY <1>0 DEF Sale, Payload, RowState
      <3>3. x \in [Request -> Sale]
        BY <1>0, <3>2, RowsHave
      <3> QED BY <1>0, <3>1, <3>3, RowsWith
    <2>3. CASE kind[r] = "publish"
      <3>1. db' = [db EXCEPT !.files = [db.files EXCEPT ![r] = "inserted"]]
        BY <1>1, <2>3 DEF Insert
      <3>2. [db.files EXCEPT ![r] = "inserted"] \in [Request -> RowState]
        BY <1>0, RowsHave DEF RowState
      <3> QED BY <1>0, <3>1, <3>2, RowsWith
    <2>4. CASE kind[r] = "notify"
      <3> DEFINE x == [db.notifications EXCEPT ![r] = "unread"]
      <3>1. db' = [db EXCEPT !.notifications = x]
        BY <1>1, <2>4 DEF Insert
      <3>2. x \in [Request -> {"none", "unread", "read"}]
        BY <1>0, RowsHave
      <3> QED BY <1>0, <3>1, <3>2, RowsWith
    <2>5. CASE kind[r] = "upload"
      <3>1. db' = [db EXCEPT !.uploads = db.uploads \cup {r}]
        BY <1>1, <2>5 DEF Insert
      <3>2. db.uploads \cup {r} \in SUBSET Request
        BY <1>0, RowsHave
      <3> QED BY <1>0, <3>1, <3>2, RowsWith
    <2> QED BY <2>1, <2>2, <2>3, <2>4, <2>5
  <1>2. ASSUME Number(r) PROVE db' \in Rows
    <2> DEFINE p == [number |-> TRUE, status |-> r]
               x == [db.sales EXCEPT ![r] = [db.sales[r] EXCEPT !.state = "whole",
                                                                !.payload = p]]
               y == [db.files EXCEPT ![r] = "whole"]
    <2>1. db' = [db EXCEPT !.sales = x] \/ db' = [db EXCEPT !.files = y]
      BY <1>2 DEF Number
    <2>2. p \in Payload /\ db.sales[r] \in Sale
      BY <1>0, RowsHave DEF Payload
    <2>3. x \in [Request -> Sale]
      BY <1>0, <2>2, RowsHave, SaleWith
    <2>4. y \in [Request -> RowState]
      BY <1>0, RowsHave DEF RowState
    <2> QED BY <1>0, <2>1, <2>3, <2>4, RowsWith, ZenonT(40)
  <1>3. ASSUME WriteStatus(r) PROVE db' \in Rows
    <2> DEFINE p == [local[r].payload EXCEPT !.status = r]
               t == body[r].target
               x == [db.sales EXCEPT ![t] = [db.sales[t] EXCEPT !.status = r,
                                                                !.payload = p]]
    <2>1. db' = [db EXCEPT !.sales = x]
      BY <1>3 DEF WriteStatus
    <2>2. local[r].payload \in Payload /\ t \in Request
      BY DEF TypeOK, Body
    <2>3. p \in Payload
      BY <1>0, <2>2 DEF Payload
    <2>4. [db.sales[t] EXCEPT !.status = r, !.payload = p] \in Sale
      BY <1>0, <2>2, <2>3, RowsHave, SaleWith
    <2>5. x \in [Request -> Sale]
      BY <1>0, <2>4, RowsHave
    <2> QED BY <1>0, <2>1, <2>5, RowsWith
  <1> QED BY <1>1, <1>2, <1>3

\* The same of deployments, deletions and marks.
LEMMA OthersTyped ==
  ASSUME TypeOK, NEW r \in Request
  PROVE  /\ \A i \in Item : InsertDeployment(r, i) \/ NumberDeployment(r, i) => db' \in Rows
         /\ DropDeployments(r) \/ DropFile(r) => db' \in Rows
         /\ MarkRead(r) => db' \in Rows
  <1>0. db \in Rows
    BY DEF TypeOK
  <1>1. ASSUME NEW i \in Item, InsertDeployment(r, i) \/ NumberDeployment(r, i)
        PROVE db' \in Rows
    <2>1. PICK v \in RowState :
            db' = [db EXCEPT !.deployments = [db.deployments EXCEPT ![r][i] = v]]
      BY <1>1 DEF InsertDeployment, NumberDeployment, RowState
    <2>2. [db.deployments EXCEPT ![r][i] = v] \in [Request -> [Item -> RowState]]
      BY <1>0, RowsHave
    <2> QED BY <1>0, <2>1, <2>2, RowsWith
  <1>2. ASSUME DropDeployments(r) PROVE db' \in Rows
    <2> DEFINE x == [q \in Request |->
                       IF kind[q] = "deploy" /\ body[q].target = body[r].target
                       THEN [i \in Item |-> "none"] ELSE db.deployments[q]]
    <2>1. db' = [db EXCEPT !.deployments = x]
      BY <1>2 DEF DropDeployments
    <2>2. x \in [Request -> [Item -> RowState]]
      BY <1>0, RowsHave DEF RowState
    <2> HIDE DEF x
    <2> QED BY <1>0, <2>1, <2>2, RowsWith
  <1>3. ASSUME DropFile(r) PROVE db' \in Rows
    <2> DEFINE x == [db.files EXCEPT ![body[r].target] = "none"]
    <2>1. db' = db \/ db' = [db EXCEPT !.files = x]
      BY <1>3 DEF DropFile
    <2>2. x \in [Request -> RowState]
      BY <1>0, RowsHave DEF RowState
    <2> QED BY <1>0, <2>1, <2>2, RowsWith
  <1>4. ASSUME MarkRead(r) PROVE db' \in Rows
    <2> DEFINE x == [q \in Request |-> IF q \in Marks(r) THEN "read"
                                                         ELSE db.notifications[q]]
    <2>1. db' = db \/ db' = [db EXCEPT !.notifications = x]
      BY <1>4 DEF MarkRead
    <2>2. x \in [Request -> {"none", "unread", "read"}]
      BY <1>0, RowsHave
    <2> HIDE DEF x
    <2> QED BY <1>0, <2>1, <2>2, RowsWith
  <1> QED BY <1>1, <1>2, <1>3, <1>4

\* What a method has read, with one of the two read.
LEMMA LocalWith ==
  ASSUME NEW x \in [payload : Payload, users : Forwarding], NEW p \in Payload,
         NEW f \in Forwarding
  PROVE  /\ [x EXCEPT !.payload = p] \in [payload : Payload, users : Forwarding]
         /\ [x EXCEPT !.users = f] \in [payload : Payload, users : Forwarding]
  OBVIOUS

\* A method's statements, and what it has read, are of their types.
LEMMA MakesTyped ==
  ASSUME TypeOK, BodyInv, NEW r \in Request, NEW s, Makes(r, s), db' \in Rows,
         local' \in [Request -> [payload : Payload, users : Forwarding]],
         given' \in [Request -> [key : Value, id : Value]]
  PROVE  TypeOK' /\ BodyInv'
  <1>1. TypeOK'
    BY DEF TypeOK, Makes, Answer, history
  <1>2. BodyInv'
    BY DEF TypeOK, BodyInv, Makes, Answer
  <1> QED BY <1>1, <1>2

\* Every step keeps the types.
LEMMA TypesKept ==
  ASSUME TypeOK, BodyInv, TodoInv, [Next]_vars
  PROVE  TypeOK' /\ BodyInv'
  <1> USE RecordsAssumption
  <1>0. db \in Rows /\ Request \subseteq Value
    BY DEF TypeOK, Value
  <1>1. ASSUME UNCHANGED vars PROVE TypeOK' /\ BodyInv'
    BY <1>1 DEF vars, history, TypeOK, BodyInv
  <1>2. ASSUME NEW r \in Request, NEW k \in AllKinds, NEW b \in Bodies(k), Arrive(r, k, b)
        PROVE  TypeOK' /\ BodyInv'
    BY <1>2, ArriveTyped
  <1>3. ASSUME Restart PROVE TypeOK' /\ BodyInv'
    BY <1>3 DEF Restart, TypeOK, BodyInv, history
  <1>4. ASSUME NEW r \in Request, Step(r) PROVE TypeOK' /\ BodyInv'
    <2>1. CASE LookForKey(r)
      <3>1. TypeOK'
        <4>1. /\ db.settings["secure_barcode_key"] \in Value
              /\ db.settings["secure_barcode_key_id"] \in Value
          BY <1>0, RowsHave DEF Setting, BarcodeKey
        <4>2. given' \in [Request -> [key : Value, id : Value]]
          <5> DEFINE g == [key |-> db.settings["secure_barcode_key"],
                           id |-> db.settings["secure_barcode_key_id"]]
          <5>1. g \in [key : Value, id : Value]
            BY <4>1
          <5>2. given' = given \/ given' = [given EXCEPT ![r] = g]
            BY <2>1 DEF LookForKey, Look
          <5> HIDE DEF g
          <5> QED BY <5>1, <5>2 DEF TypeOK
        <4>3. /\ pc' \in [Request -> {"idle", "settings", "call", "run", "audit", "done"}]
              /\ missed' \in SUBSET Request
              /\ answer' \in [Request -> {"none", "ok", "not_found", "error", "lost"}]
          BY <2>1, ZenonT(40) DEF LookForKey, Look, Answer, TypeOK
        <4> QED BY <2>1, <4>2, <4>3 DEF LookForKey, Look, TypeOK, history
      <3>2. BodyInv'
        BY <2>1 DEF LookForKey, Look, Answer, TypeOK, BodyInv
      <3> QED BY <3>1, <3>2
    <2>2. CASE Begin(r)
      <3>1. kind[r] \in AllKinds /\ body[r] \in Body /\ Fits(kind[r], body[r])
        BY DEF TypeOK, BodyInv, Fits
      <3>2. StatementsOf(kind[r], body[r]) \subseteq Statement
        BY <3>1, StatementsTyped
      <3>3. TypeOK'
        BY <2>2, <3>2 DEF Begin, TypeOK
      <3>4. BodyInv'
        BY <2>2 DEF Begin, TypeOK, BodyInv
      <3> QED BY <3>3, <3>4
    <2>3. CASE \E k \in Setting : Upsert(r, k)
      <3>1. PICK k \in Setting : Upsert(r, k)
        BY <2>3
      <3>2. db' \in Rows
        BY <3>1, ColumnsTyped
      <3>3. /\ Makes(r, <<"setting", k>>) /\ local' = local
            /\ given' \in [Request -> [key : Value, id : Value]]
        BY <1>0, <3>1 DEF Upsert, TypeOK
      <3> QED BY <3>2, <3>3, MakesTyped DEF TypeOK
    <2>4. CASE \E c \in Column : SetColumn(r, c)
      <3>1. PICK c \in Column : SetColumn(r, c)
        BY <2>4
      <3>2. db' \in Rows
        BY <3>1, ColumnsTyped
      <3> QED BY <3>1, <3>2, MakesTyped DEF SetColumn, TypeOK
    <2>5. CASE Insert(r) \/ Number(r) \/ WriteStatus(r)
      BY <2>5, RowsTyped, MakesTyped DEF Insert, Number, WriteStatus, TypeOK
    <2>6. CASE SelectPayload(r)
      <3> DEFINE t == body[r].target
      <3>1. CASE NotFound(r, <<"select", "row">>) /\ UNCHANGED db
        BY <3>1 DEF NotFound, Answer, TypeOK, BodyInv, history
      <3>2. CASE /\ Makes(r, <<"select", "row">>)
                 /\ local' = [local EXCEPT ![r].payload = db.sales[t].payload]
                 /\ UNCHANGED <<db, given>>
        <4>1. t \in Request
          BY DEF TypeOK, Body
        <4>2. db.sales[t].payload \in Payload
          BY <1>0, <4>1, RowsHave DEF Sale
        <4>3. local' \in [Request -> [payload : Payload, users : Forwarding]]
          <5>1. [local[r] EXCEPT !.payload = db.sales[t].payload] \in
                    [payload : Payload, users : Forwarding]
            BY <4>2, LocalWith DEF TypeOK
          <5> QED BY <3>2, <5>1 DEF TypeOK
        <4> QED BY <1>0, <3>2, <4>3, MakesTyped DEF TypeOK
      <3> QED BY <2>6, <3>1, <3>2 DEF SelectPayload
    <2>7. CASE \E i \in Item : InsertDeployment(r, i) \/ NumberDeployment(r, i)
      <3>1. PICK i \in Item : InsertDeployment(r, i) \/ NumberDeployment(r, i)
        BY <2>7
      <3>2. db' \in Rows
        BY <3>1, OthersTyped
      <3> QED BY <3>1, <3>2, MakesTyped DEF InsertDeployment, NumberDeployment, TypeOK
    <2>8. CASE DropDeployments(r)
      BY <2>8, OthersTyped, MakesTyped DEF DropDeployments, TypeOK
    <2>9. CASE DropFile(r)
      <3>1. CASE NotFound(r, <<"drop_file", "row">>) /\ UNCHANGED db
        BY <3>1 DEF NotFound, Answer, TypeOK, BodyInv, history
      <3>2. CASE Makes(r, <<"drop_file", "row">>) /\ UNCHANGED <<local, given>>
        BY <2>9, <3>2, OthersTyped, MakesTyped DEF TypeOK
      <3> QED BY <2>9, <3>1, <3>2 DEF DropFile
    <2>10. CASE MarkRead(r)
      <3>1. CASE NotFound(r, <<"mark", "row">>) /\ UNCHANGED db
        BY <3>1 DEF NotFound, Answer, TypeOK, BodyInv, history
      <3>2. CASE Makes(r, <<"mark", "row">>) /\ UNCHANGED <<local, given>>
        BY <2>10, <3>2, OthersTyped, MakesTyped DEF TypeOK
      <3> QED BY <2>10, <3>1, <3>2 DEF MarkRead
    <2>11. CASE LoadUsers(r)
      <3>1. local' \in [Request -> [payload : Payload, users : Forwarding]]
        <4>1. [local[r] EXCEPT !.users = db.forwarding] \in
                  [payload : Payload, users : Forwarding]
          BY <1>0, RowsHave, LocalWith DEF TypeOK
        <4> QED BY <2>11, <4>1 DEF LoadUsers, TypeOK
      <3> QED BY <1>0, <2>11, <3>1, MakesTyped DEF LoadUsers, TypeOK
    <2>12. CASE ReplaceUsers(r)
      BY <2>12, ColumnsTyped, MakesTyped DEF ReplaceUsers, TypeOK
    <2>13. CASE Fail(r)
      BY <2>13 DEF Fail, Answer, TypeOK, BodyInv, history
    <2>14. CASE Audit(r)
      BY <2>14 DEF Audit, Answer, TypeOK, BodyInv, history
    <2> QED BY <1>4, <2>1, <2>2, <2>3, <2>4, <2>5, <2>6, <2>7, <2>8, <2>9, <2>10,
               <2>11, <2>12, <2>13, <2>14 DEF Step
  <1> QED BY <1>1, <1>2, <1>3, <1>4 DEF Next

----------------------------------------------------------------------------
(* Every step is quiet, an arrival, a turn given, or a statement.          *)

\* What a statement does to the tables, and to what the method has read.
Effect(r, s) ==
    /\ s[1] # "setting" => db'.settings = db.settings
    /\ s[1] = "setting" => s[2] \in Setting /\ db'.settings = [db.settings EXCEPT ![s[2]] = r]
    /\ s[1] \notin {"column", "replace"} => db'.forwarding = db.forwarding
    /\ s[1] = "column" =>
          /\ s[2] \in Column
          /\ \/ s[2] # "headers" /\ body[r].user \notin User /\ db'.forwarding = db.forwarding
             \/ db'.forwarding = [db.forwarding EXCEPT ![body[r].user][s[2]] = r]
    /\ s[1] = "replace" =>
          db'.forwarding = [u \in User \cup {Stranger} |->
              [c \in Column |-> IF c \in UserColumn THEN local[r].users[u][c]
                                                    ELSE db.forwarding[u][c]]]
    /\ s[1] \notin {"insert", "number", "status"} => db'.sales = db.sales
    /\ s[1] = "insert" => db'.sales =
          IF kind[r] \in {"lead", "order"}
          THEN [db.sales EXCEPT ![r] =
                   [state |-> IF kind[r] = "lead" THEN "whole" ELSE "inserted",
                    status |-> r, payload |-> [number |-> FALSE, status |-> r]]]
          ELSE db.sales
    /\ s[1] = "number" => db'.sales =
          IF kind[r] = "order"
          THEN [db.sales EXCEPT ![r] = [@ EXCEPT !.state = "whole",
                                   !.payload = [number |-> TRUE, status |-> r]]]
          ELSE db.sales
    /\ s[1] = "status" => db'.sales =
          [db.sales EXCEPT ![body[r].target] =
              [@ EXCEPT !.status = r, !.payload = [local[r].payload EXCEPT !.status = r]]]
    /\ s[1] \notin {"insert", "number", "drop_file"} => db'.files = db.files
    /\ s[1] \in {"insert", "number"} => db'.files =
          IF kind[r] = "publish"
          THEN [db.files EXCEPT ![r] = IF s[1] = "insert" THEN "inserted" ELSE "whole"]
          ELSE db.files
    /\ s[1] = "drop_file" => /\ db.files[body[r].target] # "none"
                             /\ db'.files = [db.files EXCEPT ![body[r].target] = "none"]
    /\ s[1] \notin {"insert_item", "number_item", "drop_deployments"} =>
          db'.deployments = db.deployments
    /\ s[1] \in {"insert_item", "number_item"} =>
          /\ s[2] \in Item
          /\ db'.deployments = [db.deployments EXCEPT ![r][s[2]] =
                                   IF s[1] = "insert_item" THEN "inserted" ELSE "whole"]
    /\ s[1] = "drop_deployments" => db'.deployments =
          [q \in Request |-> IF kind[q] = "deploy" /\ body[q].target = body[r].target
                             THEN [i \in Item |-> "none"] ELSE db.deployments[q]]
    /\ s[1] \notin {"insert", "mark"} => db'.notifications = db.notifications
    /\ s[1] = "insert" => /\ db'.notifications =
                                IF kind[r] = "notify"
                                THEN [db.notifications EXCEPT ![r] = "unread"]
                                ELSE db.notifications
                          /\ db'.uploads = IF kind[r] = "upload" THEN db.uploads \cup {r}
                                                                 ELSE db.uploads
    /\ s[1] # "insert" => db'.uploads = db.uploads
    /\ s[1] = "mark" => db'.notifications =
          [q \in Request |-> IF q \in Marks(r) THEN "read" ELSE db.notifications[q]]
    /\ s[1] \notin {"select", "load"} => local' = local
    /\ s[1] = "select" => local' = [local EXCEPT ![r].payload = db.sales[body[r].target].payload]
    /\ s[1] = "load" => local' = [local EXCEPT ![r].users = db.forwarding]
    /\ given' = IF s[1] = "setting" /\ kind[r] = "barcode"
                THEN [given EXCEPT ![r] = [key |-> r, id |-> r]] ELSE given

Quiet == /\ UNCHANGED <<db, local, todo, kind, body, turn, clock>>
         /\ \A r \in Request : pc'[r] = "run" => pc[r] = "run"

Stepwise ==
    \/ Quiet
    \/ \E r \in Request, k \in AllKinds : \E b \in Bodies(k) : Arrive(r, k, b)
    \/ \E r \in Request : Begin(r)
    \/ \E r \in Request, s \in Statement : Makes(r, s) /\ Effect(r, s)

\* The statements have their effects.
LEMMA Effects ==
  ASSUME TypeOK, TodoInv, NEW r \in Request, Step(r)
  PROVE  Quiet \/ Begin(r) \/ \E s \in Statement : Makes(r, s) /\ Effect(r, s)
  <1>0. db \in Rows
    BY DEF TypeOK
  <1>1. CASE LookForKey(r) \/ Begin(r) \/ Fail(r) \/ Audit(r)
    BY <1>1 DEF Quiet, LookForKey, Look, Answer, Fail, Audit, TypeOK, history
  <1>2. ASSUME NEW k \in Setting, Upsert(r, k)
        PROVE  \E s \in Statement : Makes(r, s) /\ Effect(r, s)
    <2> DEFINE s == <<"setting", k>>
    <2>1. s \in Statement /\ Makes(r, s)
      BY <1>2 DEF Upsert, Statement
    <2>2. Effect(r, s)
      BY <1>0, <1>2 DEF Upsert, Effect, Rows
    <2> QED BY <2>1, <2>2
  <1>3. ASSUME NEW c \in Column, SetColumn(r, c)
        PROVE  \E s \in Statement : Makes(r, s) /\ Effect(r, s)
    <2> DEFINE s == <<"column", c>>
    <2>1. s \in Statement /\ Makes(r, s)
      BY <1>3 DEF SetColumn, Statement
    <2>2. Effect(r, s)
      BY <1>0, <1>3 DEF SetColumn, Effect, Rows
    <2> QED BY <2>1, <2>2
  <1>4. ASSUME Insert(r)
        PROVE  \E s \in Statement : Makes(r, s) /\ Effect(r, s)
    <2> DEFINE s == <<"insert", "row">>
    <2>1. s \in Statement /\ Makes(r, s)
      BY <1>4 DEF Insert, Statement
    <2>2. kind[r] \in {"lead", "order", "publish", "notify", "upload"}
      <3>1. s \in StatementsOf(kind[r], body[r])
        BY <2>1 DEF Makes, TodoInv
      <3> QED BY <3>1, MadeBy DEF TypeOK
    <2>3. Effect(r, s)
      BY <1>0, <1>4, <2>2 DEF Insert, Effect, Rows
    <2> QED BY <2>1, <2>3
  <1>5. ASSUME Number(r)
        PROVE  \E s \in Statement : Makes(r, s) /\ Effect(r, s)
    <2> DEFINE s == <<"number", "row">>
    <2>1. s \in Statement /\ Makes(r, s)
      BY <1>5 DEF Number, Statement
    <2>2. kind[r] \in {"order", "publish"}
      <3>1. s \in StatementsOf(kind[r], body[r])
        BY <2>1 DEF Makes, TodoInv
      <3> QED BY <3>1, MadeBy DEF TypeOK
    <2>3. Effect(r, s)
      BY <1>0, <1>5, <2>2 DEF Number, Effect, Rows
    <2> QED BY <2>1, <2>3
  <1>6. ASSUME SelectPayload(r)
        PROVE  Quiet \/ \E s \in Statement : Makes(r, s) /\ Effect(r, s)
    <2> DEFINE s == <<"select", "row">>
    <2>1. CASE NotFound(r, s) /\ UNCHANGED db
      BY <2>1 DEF NotFound, Answer, Quiet, TypeOK, history
    <2>2. CASE /\ Makes(r, s)
               /\ local' = [local EXCEPT ![r].payload = db.sales[body[r].target].payload]
               /\ UNCHANGED <<db, given>>
      <3>1. s \in Statement
        BY DEF Statement
      <3>2. Effect(r, s)
        BY <2>2 DEF Effect
      <3> QED BY <2>2, <3>1, <3>2
    <2> QED BY <1>6, <2>1, <2>2 DEF SelectPayload
  <1>7. ASSUME WriteStatus(r)
        PROVE  \E s \in Statement : Makes(r, s) /\ Effect(r, s)
    <2> DEFINE s == <<"status", "row">>
    <2>1. s \in Statement /\ Makes(r, s)
      BY <1>7 DEF WriteStatus, Statement
    <2>2. Effect(r, s)
      BY <1>0, <1>7 DEF WriteStatus, Effect, Rows
    <2> QED BY <2>1, <2>2
  <1>8. ASSUME NEW i \in Item, InsertDeployment(r, i)
        PROVE  \E s \in Statement : Makes(r, s) /\ Effect(r, s)
    <2> DEFINE s == <<"insert_item", i>>
    <2>1. s \in Statement /\ Makes(r, s)
      BY <1>8 DEF InsertDeployment, Statement
    <2>2. Effect(r, s)
      BY <1>0, <1>8 DEF InsertDeployment, Effect, Rows
    <2> QED BY <2>1, <2>2
  <1>9. ASSUME NEW i \in Item, NumberDeployment(r, i)
        PROVE  \E s \in Statement : Makes(r, s) /\ Effect(r, s)
    <2> DEFINE s == <<"number_item", i>>
    <2>1. s \in Statement /\ Makes(r, s)
      BY <1>9 DEF NumberDeployment, Statement
    <2>2. Effect(r, s)
      BY <1>0, <1>9 DEF NumberDeployment, Effect, Rows
    <2> QED BY <2>1, <2>2
  <1>10. ASSUME DropDeployments(r)
         PROVE  \E s \in Statement : Makes(r, s) /\ Effect(r, s)
    <2> DEFINE s == <<"drop_deployments", "row">>
    <2>1. s \in Statement /\ Makes(r, s)
      BY <1>10 DEF DropDeployments, Statement
    <2>2. Effect(r, s)
      BY <1>0, <1>10 DEF DropDeployments, Effect, Rows
    <2> QED BY <2>1, <2>2
  <1>11. ASSUME DropFile(r)
         PROVE  Quiet \/ \E s \in Statement : Makes(r, s) /\ Effect(r, s)
    <2> DEFINE s == <<"drop_file", "row">>
    <2>1. CASE NotFound(r, s) /\ UNCHANGED db
      BY <2>1 DEF NotFound, Answer, Quiet, TypeOK, history
    <2>2. CASE /\ Makes(r, s)
               /\ db.files[body[r].target] # "none"
               /\ db' = [db EXCEPT !.files[body[r].target] = "none"]
               /\ UNCHANGED <<local, given>>
      <3>1. s \in Statement
        BY DEF Statement
      <3>2. Effect(r, s)
        BY <1>0, <2>2 DEF Effect, Rows
      <3> QED BY <2>2, <3>1, <3>2
    <2> QED BY <1>11, <2>1, <2>2 DEF DropFile
  <1>12. ASSUME MarkRead(r)
         PROVE  Quiet \/ \E s \in Statement : Makes(r, s) /\ Effect(r, s)
    <2> DEFINE s == <<"mark", "row">>
    <2>1. CASE NotFound(r, s) /\ UNCHANGED db
      BY <2>1 DEF NotFound, Answer, Quiet, TypeOK, history
    <2>2. CASE /\ Makes(r, s)
               /\ db' = [db EXCEPT !.notifications =
                           [q \in Request |-> IF q \in Marks(r) THEN "read"
                                                 ELSE db.notifications[q]]]
               /\ UNCHANGED <<local, given>>
      <3>1. s \in Statement
        BY DEF Statement
      <3>2. Effect(r, s)
        BY <1>0, <2>2 DEF Effect, Rows
      <3> QED BY <2>2, <3>1, <3>2
    <2> QED BY <1>12, <2>1, <2>2 DEF MarkRead
  <1>13. ASSUME LoadUsers(r)
         PROVE  \E s \in Statement : Makes(r, s) /\ Effect(r, s)
    <2> DEFINE s == <<"load", "row">>
    <2>1. s \in Statement /\ Makes(r, s)
      BY <1>13 DEF LoadUsers, Statement
    <2>2. Effect(r, s)
      BY <1>13 DEF LoadUsers, Effect
    <2> QED BY <2>1, <2>2
  <1>14. ASSUME ReplaceUsers(r)
         PROVE  \E s \in Statement : Makes(r, s) /\ Effect(r, s)
    <2> DEFINE s == <<"replace", "row">>
    <2>1. s \in Statement /\ Makes(r, s)
      BY <1>14 DEF ReplaceUsers, Statement
    <2>2. Effect(r, s)
      BY <1>0, <1>14 DEF ReplaceUsers, Effect, Rows
    <2> QED BY <2>1, <2>2
  <1> QED BY <1>1, <1>2, <1>3, <1>4, <1>5, <1>6, <1>7, <1>8, <1>9, <1>10, <1>11,
             <1>12, <1>13, <1>14 DEF Step

\* So is every step.
LEMMA EveryStep ==
  ASSUME TypeOK, TodoInv, [Next]_vars
  PROVE  Stepwise
  <1>1. CASE UNCHANGED vars
    BY <1>1 DEF vars, history, Stepwise, Quiet
  <1>2. CASE Restart
    BY <1>2 DEF Restart, history, Stepwise, Quiet, TypeOK
  <1>3. ASSUME NEW r \in Request, Step(r) PROVE Stepwise
    BY <1>3, Effects DEF Stepwise
  <1> QED BY <1>1, <1>2, <1>3 DEF Next, Stepwise

----------------------------------------------------------------------------
(* Turns, and what is still to be made.                                    *)

\* What a step of a request does to its place, whatever the statement.
LEMMA Controls ==
  ASSUME NEW r \in Request, Step(r)
  PROVE  \/ LookForKey(r) \/ Begin(r) \/ Fail(r) \/ Audit(r)
         \/ \E s \in Statement : Makes(r, s)
         \/ \E s \in Statement : NotFound(r, s) /\ s[1] \in {"select", "drop_file", "mark"}
  <1> USE DEF Statement
  <1>1. ASSUME NEW k \in Setting, Upsert(r, k) PROVE \E s \in Statement : Makes(r, s)
    BY <1>1 DEF Upsert
  <1>2. ASSUME NEW c \in Column, SetColumn(r, c) PROVE \E s \in Statement : Makes(r, s)
    BY <1>2 DEF SetColumn
  <1>3. ASSUME Insert(r) \/ Number(r) \/ WriteStatus(r)
        PROVE  \E s \in Statement : Makes(r, s)
    BY <1>3 DEF Insert, Number, WriteStatus
  <1>4. ASSUME NEW i \in Item, InsertDeployment(r, i) \/ NumberDeployment(r, i)
        PROVE  \E s \in Statement : Makes(r, s)
    BY <1>4 DEF InsertDeployment, NumberDeployment
  <1>5. ASSUME SelectPayload(r) \/ DropFile(r) \/ MarkRead(r)
        PROVE  \/ \E s \in Statement : Makes(r, s)
               \/ \E s \in Statement : /\ NotFound(r, s)
                                       /\ s[1] \in {"select", "drop_file", "mark"}
    BY <1>5 DEF SelectPayload, DropFile, MarkRead
  <1>6. ASSUME DropDeployments(r) \/ LoadUsers(r) \/ ReplaceUsers(r)
        PROVE  \E s \in Statement : Makes(r, s)
    BY <1>6 DEF DropDeployments, LoadUsers, ReplaceUsers
  <1> QED BY <1>1, <1>2, <1>3, <1>4, <1>5, <1>6 DEF Step

\* What must come first has the lower rank.
LEMMA Ranks ==
  /\ Rank(<<"insert", "row">>) = 0 /\ Rank(<<"number", "row">>) = 1
  /\ Rank(<<"load", "row">>) = 0 /\ Rank(<<"replace", "row">>) = 1
  /\ Rank(<<"select", "row">>) = 0 /\ Rank(<<"status", "row">>) = 1
  /\ \A i \in Item : /\ Rank(<<"insert_item", i>>) = 2 * i
                     /\ Rank(<<"number_item", i>>) = 2 * i + 1
  BY DEF Rank, Item

\* Turns are given in order, one at a time.
LEMMA TurnsKept ==
  ASSUME TypeOK, TurnInv, [Next]_vars
  PROVE  TurnInv'
  <1> USE RecordsAssumption DEF TypeOK, TurnInv
  <1>1. CASE UNCHANGED vars
    BY <1>1 DEF vars, history
  <1>2. ASSUME NEW r \in Request, NEW k \in AllKinds, NEW b \in Bodies(k), Arrive(r, k, b)
        PROVE  TurnInv'
    BY <1>2 DEF Arrive, history
  <1>3. CASE Restart
    BY <1>3 DEF Restart, history
  <1>4. ASSUME NEW r \in Request, Step(r) PROVE TurnInv'
    <2>1. CASE LookForKey(r)
      BY <2>1 DEF LookForKey, Look, Answer, history
    <2>2. CASE Begin(r)
      BY <2>2 DEF Begin
    <2>3. CASE Fail(r)
      BY <2>3 DEF Fail, Answer, history
    <2>4. CASE Audit(r)
      BY <2>4 DEF Audit, Answer, history
    <2>5. ASSUME NEW s \in Statement, Makes(r, s) PROVE TurnInv'
      BY <2>5 DEF Makes, Answer, history
    <2>6. ASSUME NEW s \in Statement, NotFound(r, s) PROVE TurnInv'
      BY <2>6 DEF NotFound, Answer, history
    <2> QED BY <1>4, <2>1, <2>2, <2>3, <2>4, <2>5, <2>6, Controls
  <1> QED BY <1>1, <1>2, <1>3, <1>4 DEF Next

\* What is still to be made shrinks, in order.
LEMMA TodoKept ==
  ASSUME TypeOK, BodyInv, TurnInv, TodoInv, [Next]_vars
  PROVE  TodoInv'
  <1> USE DEF TypeOK, TodoInv
  <1>1. CASE UNCHANGED vars
    BY <1>1 DEF vars, history
  <1>2. ASSUME NEW r \in Request, NEW k \in AllKinds, NEW b \in Bodies(k), Arrive(r, k, b)
        PROVE  TodoInv'
    BY <1>2 DEF Arrive, history, TurnInv
  <1>3. CASE Restart
    BY <1>3 DEF Restart, history
  <1>4. ASSUME NEW r \in Request, Step(r) PROVE TodoInv'
    <2>1. CASE LookForKey(r)
      <3>1. kind[r] = "barcode"
        BY <2>1 DEF LookForKey, Look, BodyInv
      <3> QED BY <2>1, <3>1 DEF LookForKey, Look, Answer, history
    <2>2. CASE Begin(r)
      <3>1. todo'[r] = StatementsOf(kind[r], body[r])
        BY <2>2 DEF Begin
      <3>2. /\ kind[r] \in {"order", "publish"} => <<"number", "row">> \in todo'[r]
            /\ \A i \in Item : <<"insert_item", i>> \in todo'[r] =>
                  <<"number_item", i>> \in todo'[r]
        <4>1. ASSUME NEW i \in Item, <<"insert_item", i>> \in todo'[r]
              PROVE  <<"number_item", i>> \in todo'[r]
          <5>1. kind[r] = "deploy"
            BY <3>1, <4>1, MadeBy
          <5> QED BY <3>1, <4>1, <5>1 DEF StatementsOf
        <4> QED BY <3>1, <4>1, Makings
      <3> QED BY <2>2, <3>1, <3>2 DEF Begin
    <2>3. CASE Fail(r)
      BY <2>3 DEF Fail, Answer, history
    <2>4. CASE Audit(r)
      BY <2>4 DEF Audit, Answer, history
    <2>5. ASSUME NEW s \in Statement, Makes(r, s) PROVE TodoInv'
      <3>1. /\ kind' = kind /\ body' = body /\ turn' = turn
            /\ todo'[r] = todo[r] \ {s}
            /\ \A q \in Request \ {r} :
                  todo'[q] = todo[q] /\ pc'[q] = pc[q] /\ answer'[q] = answer[q]
        BY <2>5 DEF Makes, Answer, history
      <3>2. s = <<"number", "row">> => <<"insert", "row">> \notin todo[r]
        BY <2>5, Ranks DEF Makes
      <3>3. ASSUME NEW i \in Item, s = <<"number_item", i>>
            PROVE  <<"insert_item", i>> \notin todo[r]
        BY <2>5, <3>3, Ranks DEF Makes, Item
      <3>4. /\ answer'[r] # "none" => pc'[r] = "done"
            /\ pc'[r] = "audit" \/ answer'[r] = "ok" => todo'[r] = {}
            /\ turn[r] > 0
        BY <2>5 DEF Makes, Answer, TurnInv
      <3> QED BY <3>1, <3>2, <3>3, <3>4
    <2>6. ASSUME NEW s \in Statement, NotFound(r, s) PROVE TodoInv'
      BY <2>6 DEF NotFound, Answer, history
    <2> QED BY <1>4, <2>1, <2>2, <2>3, <2>4, <2>5, <2>6, Controls
  <1> QED BY <1>1, <1>2, <1>3, <1>4 DEF Next

----------------------------------------------------------------------------
(* What has been made stays made.                                          *)

\* Newer, after the step.
NewerThen(v, r) == v = r \/ (v \in Request /\ turn'[v] > turn'[r])

\* Whose turn has come keeps it, and what it asked for; every turn stays later
\* than those before.
LEMMA Settled ==
  ASSUME TypeOK, TurnInv, Stepwise
  PROVE  /\ \A r \in Request : turn[r] > 0 =>
               /\ turn'[r] = turn[r] /\ kind'[r] = kind[r] /\ body'[r] = body[r]
               /\ todo'[r] \subseteq todo[r]
               /\ pc'[r] = "run" => pc[r] = "run"
         /\ \A r \in Request : \A v : turn[r] > 0 /\ Newer(v, r) => NewerThen(v, r)
         /\ \A t, r \in Request : turn[r] > 0 /\ Withdrawn(t, r) => Withdrawn(t, r)'
  <1>1. ASSUME NEW r \in Request, turn[r] > 0
        PROVE  /\ turn'[r] = turn[r] /\ kind'[r] = kind[r] /\ body'[r] = body[r]
               /\ todo'[r] \subseteq todo[r]
               /\ pc'[r] = "run" => pc[r] = "run"
    <2>1. CASE Quiet
      BY <2>1 DEF Quiet
    <2>2. ASSUME NEW q \in Request, NEW k \in AllKinds, NEW b \in Bodies(k), Arrive(q, k, b)
          PROVE  /\ turn'[r] = turn[r] /\ kind'[r] = kind[r] /\ body'[r] = body[r]
                 /\ todo'[r] \subseteq todo[r]
                 /\ pc'[r] = "run" => pc[r] = "run"
      BY <1>1, <2>2 DEF TypeOK, TurnInv, Arrive, history
    <2>3. ASSUME NEW q \in Request, Begin(q)
          PROVE  /\ turn'[r] = turn[r] /\ kind'[r] = kind[r] /\ body'[r] = body[r]
                 /\ todo'[r] \subseteq todo[r]
                 /\ pc'[r] = "run" => pc[r] = "run"
      BY <1>1, <2>3 DEF TypeOK, TurnInv, Begin
    <2>4. ASSUME NEW q \in Request, NEW s \in Statement, Makes(q, s)
          PROVE  /\ turn'[r] = turn[r] /\ kind'[r] = kind[r] /\ body'[r] = body[r]
                 /\ todo'[r] \subseteq todo[r]
                 /\ pc'[r] = "run" => pc[r] = "run"
      BY <1>1, <2>4 DEF TypeOK, Makes, Answer, history
    <2> QED BY <2>1, <2>2, <2>3, <2>4 DEF Stepwise
  <1>2. ASSUME NEW r \in Request, NEW v, turn[r] > 0, Newer(v, r)
        PROVE  NewerThen(v, r)
    BY <1>1, <1>2, SMTT(30) DEF Newer, NewerThen, TypeOK
  <1>3. ASSUME NEW t \in Request, NEW r \in Request, turn[r] > 0, Withdrawn(t, r)
        PROVE  Withdrawn(t, r)'
    <2>1. PICK q \in Request : kind[q] = "withdraw" /\ body[q].target = t /\ turn[q] > turn[r]
      BY <1>3 DEF Withdrawn
    <2>2. turn[q] > 0
      BY <1>3, <2>1 DEF TypeOK
    <2> QED BY <1>1, <1>3, <2>1, <2>2 DEF Withdrawn
  <1> QED BY <1>1, <1>2, <1>3

\* The request whose statement this is came last.
LEMMA RunsLast ==
  ASSUME TypeOK, TurnInv, NEW q \in Request, NEW s, Makes(q, s)
  PROVE  /\ turn' = turn /\ kind' = kind /\ body' = body
         /\ pc[q] = "run" /\ s \in todo[q] /\ turn[q] > 0
         /\ todo'[q] = todo[q] \ {s}
         /\ \A r \in Request \ {q} : turn[q] > turn[r] /\ todo'[r] = todo[r] /\ pc[r] # "run"
  <1>1. /\ turn' = turn /\ kind' = kind /\ body' = body
        /\ pc[q] = "run" /\ s \in todo[q]
        /\ todo' = [todo EXCEPT ![q] = @ \ {s}]
    BY DEF Makes, history
  <1>2. turn[q] = clock /\ turn[q] > 0 /\ mu = q
    BY <1>1 DEF TurnInv
  <1>3. ASSUME NEW r \in Request \ {q} PROVE turn[q] > turn[r] /\ pc[r] # "run"
    <2>1. turn[r] <= clock /\ turn[r] # turn[q] /\ pc[r] # "run"
      BY <1>2 DEF TurnInv
    <2> QED BY <1>2, <2>1 DEF TypeOK
  <1> QED BY <1>1, <1>2, <1>3 DEF TypeOK

\* A statement that has been made was made before, or is made by this step.
LEMMA MadeStep ==
  ASSUME TypeOK, TurnInv, Stepwise, NEW r \in Request, NEW s, Made(r, s)',
         s \in StatementsOf(kind'[r], body'[r])
  PROVE  /\ turn[r] > 0 /\ turn'[r] = turn[r] /\ kind'[r] = kind[r] /\ body'[r] = body[r]
         /\ Made(r, s) \/ (s \in todo[r] /\ Makes(r, s) /\ Effect(r, s))
  <1> USE DEF Made
  <1>1. CASE Quiet
    BY <1>1 DEF Quiet
  <1>2. ASSUME NEW q \in Request, NEW k \in AllKinds, NEW b \in Bodies(k), Arrive(q, k, b)
        PROVE  turn[r] > 0 /\ Made(r, s)
    BY <1>2 DEF TypeOK, TurnInv, Arrive, history
  <1>3. ASSUME NEW q \in Request, Begin(q)
        PROVE  turn[r] > 0 /\ Made(r, s)
    BY <1>3 DEF TypeOK, TurnInv, Begin
  <1>4. ASSUME NEW q \in Request, NEW t \in Statement, Makes(q, t), Effect(q, t)
        PROVE  turn[r] > 0 /\ (Made(r, s) \/ (s \in todo[r] /\ Makes(r, s) /\ Effect(r, s)))
    BY <1>4, RunsLast
  <1>5. turn[r] > 0 /\ (Made(r, s) \/ (s \in todo[r] /\ Makes(r, s) /\ Effect(r, s)))
    BY <1>1, <1>2, <1>3, <1>4 DEF Stepwise, Quiet
  <1> QED BY <1>5, Settled

\* A saved setting is that of the request, or of a later one.
LEMMA SettingsStep ==
  ASSUME TypeOK, BodyInv, TurnInv, SettingsInv, BodyInv', Stepwise, TypeOK'
  PROVE  SettingsInv'
  <1> SUFFICES ASSUME NEW r \in Request, kind'[r] = "put_settings",
                      NEW k \in body'[r].fields, Made(r, <<"setting", k>>)'
               PROVE  NewerThen(db'.settings[k], r)
    BY DEF SettingsInv, Newer, NewerThen
  <1> DEFINE m == <<"setting", k>>
  <1>1. /\ turn[r] > 0 /\ turn'[r] = turn[r] /\ kind'[r] = kind[r] /\ body'[r] = body[r]
        /\ Made(r, m) \/ (m \in todo[r] /\ Makes(r, m) /\ Effect(r, m))
    <2>1. m \in StatementsOf(kind'[r], body'[r])
      BY Makings DEF TypeOK
    <2> QED BY <2>1, MadeStep
  <1>2. k \in Setting /\ db.settings \in [Setting -> Value]
    BY RowsHave DEF BodyInv, TypeOK
  <1>3. CASE Makes(r, m) /\ Effect(r, m)
    BY <1>2, <1>3 DEF Effect, NewerThen
  <1>4. ASSUME Made(r, m) PROVE NewerThen(db'.settings[k], r)
    <2>1. Newer(db.settings[k], r)
      BY <1>1, <1>4 DEF SettingsInv
    <2>2. NewerThen(db.settings[k], r)
      BY <1>1, <2>1, Settled
    <2>3. CASE db'.settings[k] = db.settings[k]
      BY <2>2, <2>3
    <2>4. CASE db'.settings[k] # db.settings[k]
      <3>1. PICK q \in Request, s \in Statement : Makes(q, s) /\ Effect(q, s)
        BY <2>4 DEF Stepwise, Quiet, Arrive, Begin
      <3>2. s[1] = "setting" /\ db'.settings[k] = q
        BY <1>2, <2>4, <3>1 DEF Effect
      <3> QED BY <1>1, <3>1, <3>2, RunsLast DEF NewerThen
    <2> QED BY <2>3, <2>4
  <1> QED BY <1>1, <1>3, <1>4

\* Update writes back the columns it has loaded, as they still are.
LEMMA ReplaceChangesNothing ==
  ASSUME TypeOK, TodoInv, TurnInv, ForwardingInv, NEW r \in Request, NEW s \in Statement,
         Makes(r, s), Effect(r, s), s[1] = "replace"
  PROVE  db'.forwarding = db.forwarding
  <1>1. s = <<"replace", "row">> /\ s \in todo[r] /\ pc[r] = "run"
    BY DEF Makes, Statement
  <1>2. kind[r] = "update"
    BY <1>1, MadeBy DEF TodoInv, TypeOK
  <1>3. <<"load", "row">> \notin todo[r]
    BY <1>1, Ranks DEF Makes
  <1>4. local[r].users = db.forwarding
    BY <1>1, <1>2, <1>3, RunsLast DEF ForwardingInv, Made
  <1>5. db.forwarding \in Forwarding
    BY RowsHave DEF TypeOK
  <1> QED BY <1>1, <1>4, <1>5 DEF Effect, Forwarding

\* The same of forwarding, and what Update has loaded is what the table holds.
LEMMA ForwardingStep ==
  ASSUME TypeOK, BodyInv, TurnInv, TodoInv, ForwardingInv, Stepwise, TypeOK', BodyInv',
         TodoInv'
  PROVE  ForwardingInv'
  <1>0. db.forwarding \in [User \cup {Stranger} -> [Column -> Value]]
    BY RowsHave DEF TypeOK, Forwarding
  <1>1. ASSUME NEW r \in Request, kind'[r] = "forward" PROVE body'[r].user \in User \cup {Stranger}
    <2>1. CASE body'[r] = body[r] /\ kind'[r] = kind[r]
      BY <1>1, <2>1 DEF ForwardingInv
    <2>2. CASE ~(body'[r] = body[r] /\ kind'[r] = kind[r])
      <3>0. PICK q \in Request, k \in AllKinds : \E b \in Bodies(k) : Arrive(q, k, b)
        BY <2>2 DEF Stepwise, Quiet, Begin, Makes
      <3>1. PICK b \in Bodies(k) : Arrive(q, k, b)
        BY <3>0
      <3>2. kind'[r] = k /\ body'[r] = b
        BY <2>2, <3>1 DEF Arrive, TypeOK
      <3>3. b.user \in User \cup {Stranger}
        BY <1>1, <3>2, Zenon DEF Bodies
      <3> QED BY <3>2, <3>3
    <2> QED BY <2>1, <2>2
  <1>2. ASSUME NEW r \in Request, kind'[r] = "forward", NEW c \in body'[r].fields,
               Made(r, <<"column", c>>)', c = "headers" \/ body'[r].user \in User
        PROVE  NewerThen(db'.forwarding[body'[r].user][c], r)
    <2> DEFINE m == <<"column", c>>
               u == body[r].user
    <2>1. /\ turn[r] > 0 /\ turn'[r] = turn[r] /\ kind'[r] = kind[r] /\ body'[r] = body[r]
          /\ Made(r, m) \/ (m \in todo[r] /\ Makes(r, m) /\ Effect(r, m))
      <3>1. m \in StatementsOf(kind'[r], body'[r])
        BY <1>2, Makings DEF TypeOK
      <3> QED BY <1>2, <3>1, MadeStep
    <2>2. c \in Column /\ u \in User \cup {Stranger}
      BY <1>2, <2>1 DEF BodyInv, ForwardingInv
    <2>3. CASE Makes(r, m) /\ Effect(r, m)
      <3>1. db'.forwarding = [db.forwarding EXCEPT ![u][c] = r]
        BY <1>2, <2>1, <2>3 DEF Effect
      <3>2. db'.forwarding[u][c] = r
        BY <1>0, <2>2, <3>1
      <3> QED BY <2>1, <3>2 DEF NewerThen
    <2>4. ASSUME Made(r, m) PROVE NewerThen(db'.forwarding[u][c], r)
      <3>1. Newer(db.forwarding[u][c], r)
        BY <1>2, <2>1, <2>4 DEF ForwardingInv
      <3>2. NewerThen(db.forwarding[u][c], r)
        BY <2>1, <3>1, Settled
      <3>3. CASE db'.forwarding[u][c] = db.forwarding[u][c]
        BY <3>2, <3>3
      <3>4. CASE db'.forwarding[u][c] # db.forwarding[u][c]
        <4>1. PICK q \in Request, s \in Statement : Makes(q, s) /\ Effect(q, s)
          BY <3>4 DEF Stepwise, Quiet, Arrive, Begin
        <4>2. s[1] = "column"
          BY <3>4, <4>1, ReplaceChangesNothing DEF Effect
        <4>3. db'.forwarding[u][c] = q
          BY <1>0, <2>2, <3>4, <4>1, <4>2 DEF Effect
        <4> QED BY <2>1, <4>1, <4>3, RunsLast DEF NewerThen
      <3> QED BY <3>3, <3>4
    <2> QED BY <2>1, <2>3, <2>4
  <1>3. ASSUME NEW r \in Request, pc'[r] = "run", kind'[r] = "update",
               Made(r, <<"load", "row">>)'
        PROVE  local'[r].users = db'.forwarding
    <2> DEFINE m == <<"load", "row">>
    <2>1. /\ turn[r] > 0 /\ turn'[r] = turn[r] /\ kind'[r] = kind[r] /\ body'[r] = body[r]
          /\ Made(r, m) \/ (m \in todo[r] /\ Makes(r, m) /\ Effect(r, m))
      <3>1. m \in StatementsOf(kind'[r], body'[r])
        BY <1>3, Makings DEF TypeOK
      <3> QED BY <1>3, <3>1, MadeStep
    <2>2. CASE Makes(r, m) /\ Effect(r, m)
      BY <2>2 DEF Effect, TypeOK
    <2>3. ASSUME Made(r, m) PROVE local'[r].users = db'.forwarding
      <3>1. pc[r] = "run" /\ local[r].users = db.forwarding
        BY <1>3, <2>1, <2>3, Settled DEF ForwardingInv
      <3>2. CASE UNCHANGED <<db, local>>
        BY <3>1, <3>2
      <3>3. ASSUME NEW q \in Request, NEW s \in Statement, Makes(q, s), Effect(q, s)
            PROVE  local'[r].users = db'.forwarding
        <4>1. q = r
          BY <3>1, <3>3, RunsLast
        <4>2. s \in {<<"load", "row">>, <<"replace", "row">>}
          <5>1. s \in StatementsOf(kind[r], body[r])
            BY <3>3, <4>1 DEF Makes, TodoInv
          <5> QED BY <1>3, <2>1, <5>1 DEF StatementsOf
        <4>3. s = <<"replace", "row">>
          BY <2>3, <3>3, <4>1, <4>2 DEF Made, Makes
        <4>4. db'.forwarding = db.forwarding
          BY <3>3, <4>3, ReplaceChangesNothing
        <4> QED BY <3>1, <3>3, <4>3, <4>4 DEF Effect
      <3> QED BY <3>2, <3>3 DEF Stepwise, Quiet, Arrive, Begin
    <2> QED BY <2>1, <2>2, <2>3
  <1> QED BY <1>1, <1>2, <1>3 DEF ForwardingInv, Newer, NewerThen

\* A step that makes no statement.
Still ==
    \/ Quiet
    \/ \E r \in Request, k \in AllKinds : \E b \in Bodies(k) : Arrive(r, k, b)
    \/ \E r \in Request : Begin(r)

\* It changes no row, and nothing has been made by it.
LEMMA StillFacts ==
  ASSUME TypeOK, TurnInv, Still
  PROVE  /\ db' = db /\ local' = local
         /\ \A r \in Request : \A s :
               Made(r, s)' /\ s \in StatementsOf(kind'[r], body'[r]) =>
                   /\ Made(r, s) /\ turn[r] > 0
                   /\ turn'[r] = turn[r] /\ kind'[r] = kind[r] /\ body'[r] = body[r]
                   /\ pc'[r] = "run" => pc[r] = "run"
         /\ \A q \in Request : turn[q] > 0 =>
               turn'[q] = turn[q] /\ kind'[q] = kind[q] /\ body'[q] = body[q]
         /\ \A q \in Request : turn[q] = 0 => turn'[q] = 0 \/ turn'[q] > clock
  <1> USE DEF TypeOK, TurnInv, Made
  <1>1. CASE Quiet
    BY <1>1 DEF Quiet
  <1>2. CASE \E r \in Request, k \in AllKinds : \E b \in Bodies(k) : Arrive(r, k, b)
    BY <1>2 DEF Arrive, history
  <1>3. CASE \E r \in Request : Begin(r)
    BY <1>3 DEF Begin
  <1> QED BY <1>1, <1>2, <1>3 DEF Still

\* A statement of q is made by q alone.
LEMMA MadeNow ==
  ASSUME TypeOK, TurnInv, TodoInv, NEW q \in Request, NEW s \in Statement, Makes(q, s)
  PROVE  /\ turn' = turn /\ kind' = kind /\ body' = body
         /\ turn[q] > 0 /\ pc[q] = "run"
         /\ s \in todo[q] /\ s \in StatementsOf(kind[q], body[q])
         /\ \A r \in Request \ {q} : turn[q] > turn[r] /\ pc'[r] # "run"
         /\ \A r \in Request : \A t : Made(r, t)' => Made(r, t) \/ (r = q /\ t = s)
         /\ \A t \in todo[q] : t # s => ~Made(q, t)'
  <1>1. /\ turn' = turn /\ kind' = kind /\ body' = body
        /\ turn[q] > 0 /\ pc[q] = "run" /\ s \in todo[q]
        /\ s \in StatementsOf(kind[q], body[q])
    BY RunsLast DEF TodoInv
  <1>2. \A r \in Request \ {q} : turn[q] > turn[r] /\ pc'[r] # "run"
    BY RunsLast DEF Makes, Answer, TypeOK
  <1>3. \A r \in Request : \A t : Made(r, t)' => Made(r, t) \/ (r = q /\ t = s)
    BY RunsLast DEF Made
  <1>4. \A t \in todo[q] : t # s => ~Made(q, t)'
    BY RunsLast DEF Made
  <1> QED BY <1>1, <1>2, <1>3, <1>4

\* A sale's payload has the status of its row, and a status set stays until it
\* is set again: steps that make no statement.
LEMMA SalesStill ==
  ASSUME TypeOK, TurnInv, SalesInv, Still, TypeOK'
  PROVE  SalesInv'
  <1> SUFFICES ASSUME NEW r \in Request
               PROVE  SaleWhole(r)' /\ PayloadRead(r)' /\ StatusSet(r)'
    BY DEF SalesInv
  <1>1. SaleWhole(r) /\ PayloadRead(r) /\ StatusSet(r)
    BY DEF SalesInv
  <1>2. db' = db /\ local' = local
    BY StillFacts
  <1>3. kind'[r] \in AllKinds /\ body'[r] \in Body
    BY DEF TypeOK
  <1>4. SaleWhole(r)'
    <2> SUFFICES ASSUME kind'[r] \in {"lead", "order"}, Made(r, <<"insert", "row">>)'
                 PROVE  SaleWhole(r)'
      BY DEF SaleWhole
    <2>1. /\ <<"insert", "row">> \in StatementsOf(kind'[r], body'[r])
          /\ kind'[r] = "order" => <<"number", "row">> \in StatementsOf(kind'[r], body'[r])
      BY <1>3, Makings
    <2> QED BY <1>1, <1>2, <2>1, StillFacts DEF SaleWhole
  <1>5. PayloadRead(r)'
    <2> SUFFICES ASSUME kind'[r] = "status" PROVE PayloadRead(r)'
      BY DEF PayloadRead
    <2>1. <<"select", "row">> \in StatementsOf(kind'[r], body'[r])
      BY <1>3, Makings
    <2> QED BY <1>1, <1>2, <2>1, StillFacts DEF PayloadRead
  <1>6. StatusSet(r)'
    <2> SUFFICES ASSUME kind'[r] = "status", Made(r, <<"status", "row">>)'
                 PROVE  StatusSet(r)'
      BY DEF StatusSet
    <2>1. <<"status", "row">> \in StatementsOf(kind'[r], body'[r])
      BY <1>3, Makings
    <2>2. /\ kind[r] = "status" /\ Made(r, <<"status", "row">>) /\ turn[r] > 0
          /\ body'[r] = body[r]
      BY <2>1, StillFacts
    <2>3. NewerThen(db.sales[body[r].target].status, r)
      BY <1>1, <2>2, Settled DEF StatusSet, Stepwise, Still
    <2> QED BY <1>2, <2>2, <2>3 DEF StatusSet, Newer, NewerThen
  <1> QED BY <1>4, <1>5, <1>6

\* The fields of a sale, and of what a method has read, after a change.
LEMMA SaleFields ==
  ASSUME NEW x \in Sale, NEW v, NEW p, NEW o \in Payload,
         NEW l \in [payload : Payload, users : Forwarding]
  PROVE  /\ [x EXCEPT !.state = "whole", !.payload = p].state = "whole"
         /\ [x EXCEPT !.state = "whole", !.payload = p].status = x.status
         /\ [x EXCEPT !.state = "whole", !.payload = p].payload = p
         /\ [x EXCEPT !.status = v, !.payload = p].state = x.state
         /\ [x EXCEPT !.status = v, !.payload = p].status = v
         /\ [x EXCEPT !.status = v, !.payload = p].payload = p
         /\ [o EXCEPT !.status = v].status = v
         /\ [o EXCEPT !.status = v].number = o.number
         /\ [l EXCEPT !.users = v].payload = l.payload
  BY DEF Sale, Payload

\* The statements of leads and orders.
LEMMA SalesMade ==
  ASSUME TypeOK, TurnInv, TodoInv, SalesInv, NEW q \in Request, NEW s \in Statement,
         Makes(q, s), Effect(q, s), NEW r \in Request
  PROVE  SaleWhole(r)' /\ PayloadRead(r)' /\ StatusSet(r)'
  <1> DEFINE insert == <<"insert", "row">>
             number == <<"number", "row">>
             select == <<"select", "row">>
             status == <<"status", "row">>
             t == body[q].target
  <1>0. db.sales \in [Request -> Sale]
    BY RowsHave DEF TypeOK
  <1>1. /\ turn' = turn /\ kind' = kind /\ body' = body
        /\ turn[q] > 0 /\ pc[q] = "run" /\ s \in todo[q]
        /\ r # q => turn[q] > turn[r] /\ pc'[r] # "run"
        /\ \A x : Made(r, x)' => Made(r, x) \/ (r = q /\ x = s)
        /\ \A x \in todo[q] : x # s => ~Made(q, x)'
    BY MadeNow
  <1>2. SaleWhole(r) /\ PayloadRead(r) /\ StatusSet(r)
    BY DEF SalesInv
  <1>3. /\ s[1] = "insert" => s = insert
        /\ s[1] = "number" => s = number /\ kind[q] \in {"order", "publish"}
        /\ s[1] = "select" => s = select /\ kind[q] = "status"
        /\ s[1] = "status" => s = status /\ kind[q] = "status"
    BY MadeNow, MadeBy DEF Statement, TypeOK
  <1>4. r # q => db.sales[r] \in Sale
    BY <1>0
  <1>5. body[r].target \in Request /\ t \in Request
    BY DEF TypeOK, Body
  <1>6. CASE s[1] \notin {"insert", "number", "select", "status"}
    <2>1. db'.sales = db.sales /\ local'[r].payload = local[r].payload
      <3>1. db'.sales = db.sales
            /\ (local' = local \/ local' = [local EXCEPT ![q] = [local[q] EXCEPT !.users = db.forwarding]])
        BY <1>6 DEF Effect
      <3>2. [local[q] EXCEPT !.users = db.forwarding].payload = local[q].payload
        <4>1. local[q] \in [payload : Payload, users : Forwarding]
          BY DEF TypeOK
        <4>2. PICK x \in Sale, o \in Payload : TRUE
          BY <1>0 DEF Sale
        <4> QED BY <4>1, <4>2, SaleFields
      <3> HIDE DEF insert
      <3> QED BY <3>1, <3>2 DEF TypeOK
    <2>2. s # insert /\ s # number /\ s # select /\ s # status
      BY <1>6
    <2>3. pc'[r] = "run" => pc[r] = "run"
      BY <1>1
    <2>4. SaleWhole(r)'
      BY <1>1, <1>2, <2>1, <2>2, <2>3 DEF SaleWhole
    <2>5. PayloadRead(r)'
      BY <1>1, <1>2, <2>1, <2>2, <2>3 DEF PayloadRead
    <2>6. StatusSet(r)'
      BY <1>1, <1>2, <2>1, <2>2 DEF StatusSet, Newer
    <2> QED BY <2>4, <2>5, <2>6
  <1>7. CASE s[1] = "insert"
    <2>1. s = insert /\ local' = local
      BY <1>3, <1>7 DEF Effect
    <2>2. CASE kind[q] \in {"lead", "order"}
      <3>1. /\ db'.sales[q] = [state |-> IF kind[q] = "lead" THEN "whole" ELSE "inserted",
                               status |-> q, payload |-> [number |-> FALSE, status |-> q]]
            /\ \A x \in Request \ {q} : db'.sales[x] = db.sales[x]
        BY <1>0, <1>7, <2>2 DEF Effect
      <3>2. kind[q] = "order" => ~Made(q, number)'
        BY <1>1, <2>1 DEF TodoInv
      <3>3. SaleWhole(r)'
        BY <1>1, <1>2, <2>1, <3>1, <3>2 DEF SaleWhole
      <3>4. PayloadRead(r)'
        BY <1>1, <2>2 DEF PayloadRead
      <3>5. StatusSet(r)'
        BY <1>1, <1>2, <1>5, <2>1, <2>2, <3>1 DEF StatusSet, Newer
      <3> QED BY <3>3, <3>4, <3>5
    <2>3. CASE kind[q] \notin {"lead", "order"}
      <3>1. db'.sales = db.sales
        BY <1>7, <2>3 DEF Effect
      <3>2. SaleWhole(r)'
        BY <1>1, <1>2, <2>1, <2>3, <3>1 DEF SaleWhole
      <3>3. PayloadRead(r)'
        BY <1>1, <1>2, <2>1, <3>1 DEF PayloadRead
      <3>4. StatusSet(r)'
        BY <1>1, <1>2, <2>1, <3>1 DEF StatusSet, Newer
      <3> QED BY <3>2, <3>3, <3>4
    <2> QED BY <2>2, <2>3
  <1>8. CASE s[1] = "number"
    <2>1. s = number /\ local' = local /\ kind[q] \in {"order", "publish"}
      BY <1>3, <1>8 DEF Effect
    <2>2. CASE kind[q] = "order"
      <3>1. insert \notin todo[q]
        BY <2>1, Ranks DEF Makes
      <3>2. db.sales[q].status = q
        BY <1>1, <2>2, <3>1 DEF SalesInv, SaleWhole, Made
      <3>3. /\ db'.sales[q].state = "whole" /\ db'.sales[q].status = q
            /\ db'.sales[q].payload = [number |-> TRUE, status |-> q]
            /\ \A x \in Request \ {q} : db'.sales[x] = db.sales[x]
        <4> DEFINE p == [number |-> TRUE, status |-> q]
                   y == [db.sales[q] EXCEPT !.state = "whole", !.payload = p]
        <4>1. db'.sales = [db.sales EXCEPT ![q] = y]
          BY <1>8, <2>2 DEF Effect
        <4>2. db.sales[q] \in Sale /\ db.sales[q].payload \in Payload
          BY <1>0 DEF Sale
        <4>3. y.state = "whole" /\ y.status = db.sales[q].status /\ y.payload = p
          BY <4>2, SaleFields DEF TypeOK
        <4> HIDE DEF y
        <4> QED BY <1>0, <3>2, <4>1, <4>3
      <3>4. SaleWhole(r)'
        BY <1>1, <1>2, <2>1, <2>2, <3>3 DEF SaleWhole
      <3>5. PayloadRead(r)'
        BY <1>1, <2>2 DEF PayloadRead
      <3>6. StatusSet(r)'
        BY <1>1, <1>2, <1>5, <2>1, <2>2, <3>3 DEF StatusSet, Newer
      <3> QED BY <3>4, <3>5, <3>6
    <2>3. CASE kind[q] = "publish"
      <3>1. db'.sales = db.sales
        BY <1>8, <2>3 DEF Effect
      <3>2. SaleWhole(r)'
        BY <1>1, <1>2, <2>1, <2>3, <3>1 DEF SaleWhole
      <3>3. PayloadRead(r)'
        BY <1>1, <1>2, <2>1, <3>1 DEF PayloadRead
      <3>4. StatusSet(r)'
        BY <1>1, <1>2, <2>1, <3>1 DEF StatusSet, Newer
      <3> QED BY <3>2, <3>3, <3>4
    <2> QED BY <2>1, <2>2, <2>3
  <1>9. CASE s[1] = "select"
    <2>1. /\ s = select /\ kind[q] = "status" /\ db'.sales = db.sales
          /\ local'[q].payload = db.sales[t].payload
      BY <1>3, <1>9 DEF Effect, TypeOK
    <2>2. SaleWhole(r)'
      BY <1>1, <1>2, <2>1 DEF SaleWhole
    <2>3. PayloadRead(r)'
      BY <1>1, <2>1 DEF PayloadRead
    <2>4. StatusSet(r)'
      BY <1>1, <1>2, <2>1 DEF StatusSet, Newer
    <2> QED BY <2>2, <2>3, <2>4
  <1>10. CASE s[1] = "status"
    <2>1. s = status /\ kind[q] = "status" /\ local' = local
      BY <1>3, <1>10 DEF Effect
    <2>2. select \notin todo[q]
      BY <2>1, Ranks DEF Makes
    <2>3. local[q].payload = db.sales[t].payload
      BY <1>1, <2>1, <2>2 DEF SalesInv, PayloadRead, Made
    <2>4. /\ db'.sales[t].state = db.sales[t].state /\ db'.sales[t].status = q
          /\ db'.sales[t].payload.status = q
          /\ db'.sales[t].payload.number = db.sales[t].payload.number
          /\ \A x \in Request \ {t} : db'.sales[x] = db.sales[x]
      <3> DEFINE p == [local[q].payload EXCEPT !.status = q]
                 y == [db.sales[t] EXCEPT !.status = q, !.payload = p]
      <3>1. db'.sales = [db.sales EXCEPT ![t] = y]
        BY <1>10 DEF Effect
      <3>2. db.sales[t] \in Sale /\ local[q].payload \in Payload
        BY <1>0, <1>5, <2>3 DEF Sale
      <3>3. p.status = q /\ p.number = local[q].payload.number
        BY <3>2, SaleFields DEF TypeOK
      <3>4. y.state = db.sales[t].state /\ y.status = q /\ y.payload = p
        BY <3>2, SaleFields DEF TypeOK
      <3> HIDE DEF p, y
      <3> QED BY <1>0, <1>5, <2>3, <3>1, <3>3, <3>4
    <2>5. SaleWhole(r)'
      <3>1. CASE r # t
        BY <1>1, <1>2, <2>1, <2>4, <3>1 DEF SaleWhole
      <3>2. CASE r = t
        BY <1>1, <1>2, <2>1, <2>4, <3>2 DEF SaleWhole
      <3> QED BY <3>1, <3>2
    <2>6. PayloadRead(r)'
      <3>1. r = q => pc'[q] # "run" \/ todo'[q] # {}
        BY DEF Makes, Answer, TypeOK
      <3>2. todo'[q] = todo[q] \ {s}
        BY DEF Makes, TypeOK
      <3>3. todo[q] \subseteq {select, status}
        BY <2>1, MadeNow DEF TodoInv, StatementsOf
      <3>4. r = q => pc'[q] # "run"
        BY <2>1, <2>2, <3>1, <3>2, <3>3
      <3> QED BY <1>1, <3>4 DEF PayloadRead
    <2>7. StatusSet(r)'
      BY <1>1, <1>2, <1>5, <2>1, <2>4 DEF StatusSet, Newer
    <2> QED BY <2>5, <2>6, <2>7
  <1> QED BY <1>6, <1>7, <1>8, <1>9, <1>10

\* Every step.
LEMMA SalesStep ==
  ASSUME TypeOK, TurnInv, TodoInv, SalesInv, Stepwise, TypeOK'
  PROVE  SalesInv'
  <1>1. CASE Still
    BY <1>1, SalesStill
  <1>2. ASSUME NEW q \in Request, NEW s \in Statement, Makes(q, s), Effect(q, s)
        PROVE  SalesInv'
    BY <1>2, SalesMade DEF SalesInv
  <1> QED BY <1>1, <1>2 DEF Stepwise, Still

----------------------------------------------------------------------------
(* Files and their deployments, notifications and uploads.                 *)

\* Files are there until they are deleted: steps that make no statement.
LEMMA FilesStill ==
  ASSUME TypeOK, TurnInv, FilesInv, Still, TypeOK'
  PROVE  FilesInv'
  <1> SUFFICES ASSUME NEW r \in Request
               PROVE  /\ db'.files[r] # "none" => kind'[r] = "publish" /\ turn'[r] > 0
                      /\ kind'[r] = "publish" /\ Made(r, <<"number", "row">>)' =>
                            db'.files[r] = "whole" \/ Withdrawn(r, r)'
                      /\ kind'[r] = "withdraw" /\ Made(r, <<"drop_file", "row">>)' =>
                            /\ db'.files[body'[r].target] = "none"
                            /\ turn'[body'[r].target] > 0
                            /\ turn'[body'[r].target] < turn'[r]
    BY DEF FilesInv
  <1>1. db' = db /\ kind'[r] \in AllKinds /\ body'[r] \in Body
    BY StillFacts DEF TypeOK
  <1>2. db'.files[r] # "none" => kind'[r] = "publish" /\ turn'[r] > 0
    BY <1>1, StillFacts DEF FilesInv
  <1>3. ASSUME kind'[r] = "publish", Made(r, <<"number", "row">>)'
        PROVE  db'.files[r] = "whole" \/ Withdrawn(r, r)'
    <2>1. <<"number", "row">> \in StatementsOf(kind'[r], body'[r])
      BY <1>1, <1>3, Makings
    <2>2. kind[r] = "publish" /\ Made(r, <<"number", "row">>) /\ turn[r] > 0
      BY <1>3, <2>1, StillFacts
    <2>3. db.files[r] = "whole" \/ Withdrawn(r, r)
      BY <2>2 DEF FilesInv
    <2> QED BY <1>1, <2>2, <2>3, Settled DEF Stepwise, Still
  <1>4. ASSUME kind'[r] = "withdraw", Made(r, <<"drop_file", "row">>)'
        PROVE  /\ db'.files[body'[r].target] = "none"
               /\ turn'[body'[r].target] > 0
               /\ turn'[body'[r].target] < turn'[r]
    <2>1. <<"drop_file", "row">> \in StatementsOf(kind'[r], body'[r])
      BY <1>1, <1>4, Makings
    <2>2. /\ kind[r] = "withdraw" /\ Made(r, <<"drop_file", "row">>)
          /\ turn'[r] = turn[r] /\ body'[r] = body[r] /\ body[r].target \in Request
      BY <1>1, <1>4, <2>1, StillFacts DEF Body
    <2> QED BY <1>1, <2>2, StillFacts DEF FilesInv
  <1> QED BY <1>2, <1>3, <1>4

\* Who has deleted file t since.
LEMMA WithdrawnNow ==
  ASSUME TypeOK, NEW q \in Request, kind[q] = "withdraw", turn' = turn, kind' = kind,
         body' = body
  PROVE  \A r \in Request : turn[r] < turn[q] => Withdrawn(body[q].target, r)'
  BY DEF Withdrawn, TypeOK

\* The statements of files.
LEMMA FilesMade ==
  ASSUME TypeOK, TurnInv, TodoInv, FilesInv, NEW q \in Request, NEW s \in Statement,
         Makes(q, s), Effect(q, s)
  PROVE  FilesInv'
  <1> DEFINE insert == <<"insert", "row">>
             number == <<"number", "row">>
             drop == <<"drop_file", "row">>
             t == body[q].target
  <1> SUFFICES ASSUME NEW r \in Request
               PROVE  /\ db'.files[r] # "none" => kind'[r] = "publish" /\ turn'[r] > 0
                      /\ kind'[r] = "publish" /\ Made(r, number)' =>
                            db'.files[r] = "whole" \/ Withdrawn(r, r)'
                      /\ kind'[r] = "withdraw" /\ Made(r, drop)' =>
                            /\ db'.files[body'[r].target] = "none"
                            /\ turn'[body'[r].target] > 0
                            /\ turn'[body'[r].target] < turn'[r]
    BY DEF FilesInv
  <1>0. db.files \in [Request -> RowState] /\ t \in Request /\ body[r].target \in Request
    BY RowsHave DEF TypeOK, Body
  <1>1. /\ turn' = turn /\ kind' = kind /\ body' = body
        /\ turn[q] > 0 /\ pc[q] = "run" /\ s \in todo[q]
        /\ \A x \in Request \ {q} : turn[q] > turn[x]
        /\ \A x : Made(r, x)' => Made(r, x) \/ (r = q /\ x = s)
    BY MadeNow
  <1>2. Withdrawn(r, r) => Withdrawn(r, r)'
    BY <1>1 DEF Withdrawn
  <1>3. /\ db.files[r] # "none" => kind[r] = "publish" /\ turn[r] > 0
        /\ kind[r] = "publish" /\ Made(r, number) => db.files[r] = "whole" \/ Withdrawn(r, r)
        /\ kind[r] = "withdraw" /\ Made(r, drop) =>
              /\ db.files[body[r].target] = "none"
              /\ turn[body[r].target] > 0 /\ turn[body[r].target] < turn[r]
    BY DEF FilesInv
  <1>4. CASE s[1] \notin {"insert", "number", "drop_file"}
    <2>1. db'.files = db.files /\ s # number /\ s # drop
      BY <1>4 DEF Effect
    <2> QED BY <1>1, <1>2, <1>3, <2>1
  <1>5. CASE s[1] \in {"insert", "number"} /\ kind[q] # "publish"
    <2>1. db'.files = db.files /\ s # drop
      BY <1>5 DEF Effect
    <2> QED BY <1>1, <1>2, <1>3, <1>5, <2>1
  <1>6. CASE s[1] \in {"insert", "number"} /\ kind[q] = "publish"
    <2>1. /\ s # drop
          /\ db'.files[q] = IF s[1] = "insert" THEN "inserted" ELSE "whole"
          /\ \A x \in Request \ {q} : db'.files[x] = db.files[x]
      BY <1>0, <1>6 DEF Effect
    <2>2. s[1] = "insert" => s = insert /\ ~Made(q, number)'
      BY <1>6, MadeNow DEF TodoInv, Statement
    <2>3. kind[r] = "withdraw" /\ Made(r, drop) => body[r].target # q
      BY <1>1, <1>3, <1>6, SMTT(30) DEF TypeOK
    <2>4. CASE r = q
      BY <1>1, <1>6, <2>1, <2>2, <2>4
    <2>5. CASE r # q
      BY <1>0, <1>1, <1>2, <1>3, <2>1, <2>3, <2>5
    <2> QED BY <2>4, <2>5
  <1>7. CASE s[1] = "drop_file"
    <2>1. s = drop /\ kind[q] = "withdraw"
      BY <1>7, MadeNow, MadeBy DEF Statement, TypeOK
    <2>2. /\ db.files[t] # "none" /\ db'.files[t] = "none"
          /\ \A x \in Request \ {t} : db'.files[x] = db.files[x]
      BY <1>0, <1>7 DEF Effect
    <2>3. kind[t] = "publish" /\ turn[t] > 0 /\ turn[t] < turn[q]
      BY <1>0, <1>1, <2>1, <2>2 DEF FilesInv, TypeOK
    <2>4. Withdrawn(t, t)'
      BY <1>0, <1>1, <2>1, <2>3, WithdrawnNow
    <2>5. /\ db'.files[r] # "none" => kind'[r] = "publish" /\ turn'[r] > 0
          /\ kind'[r] = "publish" /\ Made(r, number)' =>
                db'.files[r] = "whole" \/ Withdrawn(r, r)'
      BY <1>1, <1>2, <1>3, <2>1, <2>2, <2>4
    <2>6. ASSUME kind'[r] = "withdraw", Made(r, drop)'
          PROVE  /\ db'.files[body'[r].target] = "none"
                 /\ turn'[body'[r].target] > 0
                 /\ turn'[body'[r].target] < turn'[r]
      BY <1>0, <1>1, <1>3, <2>1, <2>2, <2>3, <2>6
    <2> QED BY <2>5, <2>6
  <1> QED BY <1>4, <1>5, <1>6, <1>7

\* The deployments of a file: steps that make no statement.
LEMMA DeploymentsStill ==
  ASSUME TypeOK, TurnInv, DeploymentsInv, Still, TypeOK'
  PROVE  DeploymentsInv'
  <1>1. db' = db
    BY StillFacts
  <1>2. ASSUME NEW r \in Request, NEW i \in Item, db'.deployments[r][i] # "none"
        PROVE  kind'[r] = "deploy" /\ turn'[r] > 0 /\ body'[r] = body[r] /\ turn'[r] = turn[r]
    BY <1>1, <1>2, StillFacts DEF DeploymentsInv
  <1>3. ASSUME NEW r \in Request, kind'[r] = "deploy", NEW i \in 1 .. body'[r].items,
               Made(r, <<"number_item", i>>)'
        PROVE  db'.deployments[r][i] = "whole" \/ Withdrawn(body[r].target, r)'
    <2>1. <<"number_item", i>> \in StatementsOf(kind'[r], body'[r])
      BY <1>3, Makings DEF TypeOK
    <2>2. /\ kind[r] = "deploy" /\ Made(r, <<"number_item", i>>) /\ turn[r] > 0
          /\ body'[r] = body[r] /\ body[r].target \in Request
      BY <1>3, <2>1, StillFacts DEF TypeOK, Body
    <2>3. db.deployments[r][i] = "whole" \/ Withdrawn(body[r].target, r)
      BY <1>3, <2>2 DEF DeploymentsInv
    <2> DEFINE t == body[r].target
    <2>4. ASSUME Withdrawn(t, r) PROVE \E q \in Request : /\ kind'[q] = "withdraw"
                                                       /\ body'[q].target = t
                                                       /\ turn'[q] > turn'[r]
      <3>1. PICK q \in Request : kind[q] = "withdraw" /\ body[q].target = t /\ turn[q] > turn[r]
        BY <2>4 DEF Withdrawn
      <3>2. turn[q] > 0
        BY <2>2, <3>1 DEF TypeOK
      <3> QED BY <2>2, <3>1, <3>2, StillFacts
    <2> QED BY <1>1, <2>2, <2>3, <2>4 DEF Withdrawn
  <1>4. ASSUME NEW r \in Request, kind'[r] = "withdraw",
               Made(r, <<"drop_deployments", "row">>)',
               NEW q \in Request, NEW i \in Item,
               body'[q].target = body'[r].target, db'.deployments[q][i] # "none"
        PROVE  turn'[q] > turn'[r]
    <2>1. <<"drop_deployments", "row">> \in StatementsOf(kind'[r], body'[r])
      BY <1>4, Makings DEF TypeOK
    <2>2. /\ kind[r] = "withdraw" /\ Made(r, <<"drop_deployments", "row">>)
          /\ turn'[r] = turn[r] /\ body'[r] = body[r]
      BY <1>4, <2>1, StillFacts
    <2> QED BY <1>1, <1>2, <1>4, <2>2 DEF DeploymentsInv
  <1> QED BY <1>2, <1>3, <1>4 DEF DeploymentsInv

\* The statements of deployments.
LEMMA DeploymentsMade ==
  ASSUME TypeOK, TurnInv, TodoInv, DeploymentsInv, NEW q \in Request, NEW s \in Statement,
         Makes(q, s), Effect(q, s)
  PROVE  DeploymentsInv'
  <1> DEFINE drop == <<"drop_deployments", "row">>
             number(i) == <<"number_item", i>>
  <1>0. db.deployments \in [Request -> [Item -> RowState]]
    BY RowsHave DEF TypeOK
  <1>1. /\ turn' = turn /\ kind' = kind /\ body' = body
        /\ turn[q] > 0 /\ pc[q] = "run" /\ s \in todo[q]
        /\ \A x \in Request \ {q} : turn[q] > turn[x]
        /\ \A r \in Request : \A x : Made(r, x)' => Made(r, x) \/ (r = q /\ x = s)
    BY MadeNow
  <1>2. \A r \in Request, t \in Request : Withdrawn(t, r) => Withdrawn(t, r)'
    BY <1>1 DEF Withdrawn
  <1>3. \A r \in Request : body[r].target \in Request /\ 1 .. body[r].items \subseteq Item
    BY RecordsAssumption DEF TypeOK, Body, Item
  <1>4. CASE s[1] \notin {"insert_item", "number_item", "drop_deployments"}
    <2>1. db'.deployments = db.deployments /\ s # drop /\ \A i : s # number(i)
      BY <1>4 DEF Effect
    <2> QED BY <1>1, <1>2, <1>3, <2>1 DEF DeploymentsInv
  <1>5. CASE s[1] \in {"insert_item", "number_item"}
    <2>1. kind[q] = "deploy" /\ s[2] \in Item
      BY <1>5, MadeNow, MadeBy DEF Effect, TypeOK
    <2>2. /\ db'.deployments[q][s[2]] = IF s[1] = "insert_item" THEN "inserted" ELSE "whole"
          /\ \A i \in Item \ {s[2]} : db'.deployments[q][i] = db.deployments[q][i]
          /\ \A x \in Request \ {q} : db'.deployments[x] = db.deployments[x]
      BY <1>0, <1>5, <2>1 DEF Effect
    <2>3. s[1] = "insert_item" => ~Made(q, number(s[2]))'
      <3>1. s[1] = "insert_item" => s = <<"insert_item", s[2]>>
        BY DEF Statement
      <3>2. s[1] = "insert_item" => number(s[2]) \in todo[q] /\ number(s[2]) # s
        BY <1>1, <2>1, <3>1 DEF TodoInv
      <3> QED BY <3>2, MadeNow
    <2>4. s[1] = "number_item" => s = number(s[2])
      BY DEF Statement
    <2>5. \A r \in Request, i \in Item : db'.deployments[r][i] # "none" =>
              kind'[r] = "deploy" /\ turn'[r] > 0
      BY <1>1, <2>1, <2>2 DEF DeploymentsInv
    <2>6. ASSUME NEW r \in Request, kind'[r] = "deploy", NEW i \in 1 .. body'[r].items,
                 Made(r, number(i))'
          PROVE  db'.deployments[r][i] = "whole" \/ Withdrawn(body[r].target, r)'
      <3>1. CASE r = q /\ i = s[2]
        BY <1>5, <2>2, <2>3, <2>6, <3>1
      <3>2. CASE ~(r = q /\ i = s[2])
        <4>1. Made(r, number(i))
          BY <1>1, <1>5, <2>6, <3>2
        <4>2. db'.deployments[r][i] = db.deployments[r][i]
          BY <1>1, <1>3, <2>2, <3>2
        <4>3. db.deployments[r][i] = "whole" \/ Withdrawn(body[r].target, r)
          BY <1>1, <2>6, <4>1 DEF DeploymentsInv
        <4> QED BY <1>1, <4>2, <4>3 DEF Withdrawn
      <3> QED BY <3>1, <3>2
    <2>7. ASSUME NEW r \in Request, kind'[r] = "withdraw", Made(r, drop)',
                 NEW x \in Request, NEW i \in Item,
                 body'[x].target = body'[r].target, db'.deployments[x][i] # "none"
          PROVE  turn'[x] > turn'[r]
      <3>1. r # q /\ Made(r, drop)
        BY <1>1, <1>5, <2>1, <2>7
      <3>2. CASE x = q
        BY <1>1, <3>1, <3>2
      <3>3. CASE x # q
        BY <1>1, <2>2, <2>7, <3>1, <3>3 DEF DeploymentsInv
      <3> QED BY <3>2, <3>3
    <2> QED BY <2>5, <2>6, <2>7 DEF DeploymentsInv
  <1>6. CASE s[1] = "drop_deployments"
    <2>1. s = drop /\ kind[q] = "withdraw"
      BY <1>6, MadeNow, MadeBy DEF Statement, TypeOK
    <2>2. /\ \A x \in Request : kind[x] = "deploy" /\ body[x].target = body[q].target =>
                \A i \in Item : db'.deployments[x][i] = "none"
          /\ \A x \in Request : ~(kind[x] = "deploy" /\ body[x].target = body[q].target) =>
                db'.deployments[x] = db.deployments[x]
      BY <1>6 DEF Effect
    <2>3. \A r \in Request, i \in Item : db'.deployments[r][i] # "none" =>
              /\ kind'[r] = "deploy" /\ turn'[r] > 0
              /\ body[r].target # body[q].target
              /\ db.deployments[r][i] # "none"
      BY <1>1, <2>2 DEF DeploymentsInv
    <2>4. ASSUME NEW r \in Request, kind'[r] = "deploy", NEW i \in 1 .. body'[r].items,
                 Made(r, number(i))'
          PROVE  db'.deployments[r][i] = "whole" \/ Withdrawn(body[r].target, r)'
      <3>1. CASE body[r].target = body[q].target
        BY <1>1, <2>1, <2>4, <3>1 DEF Withdrawn
      <3>2. CASE body[r].target # body[q].target
        <4>1. db.deployments[r][i] = "whole" \/ Withdrawn(body[r].target, r)
          BY <1>1, <2>1, <2>4 DEF DeploymentsInv
        <4> QED BY <1>1, <2>2, <3>2, <4>1 DEF Withdrawn
      <3> QED BY <3>1, <3>2
    <2>5. ASSUME NEW r \in Request, kind'[r] = "withdraw", Made(r, drop)',
                 NEW x \in Request, NEW i \in Item,
                 body'[x].target = body'[r].target, db'.deployments[x][i] # "none"
          PROVE  turn'[x] > turn'[r]
      BY <1>1, <2>1, <2>3, <2>5 DEF DeploymentsInv
    <2> QED BY <2>3, <2>4, <2>5 DEF DeploymentsInv
  <1> QED BY <1>4, <1>5, <1>6

\* Notifications and uploads: steps that make no statement.
LEMMA NoticesStill ==
  ASSUME TypeOK, TurnInv, NoticesInv, Still, TypeOK'
  PROVE  NoticesInv'
  <1>1. db' = db
    BY StillFacts
  <1>2. ASSUME NEW r \in Request
        PROVE  /\ kind'[r] = "notify" /\ Made(r, <<"insert", "row">>)' =>
                     db'.notifications[r] # "none"
               /\ kind'[r] = "upload" /\ Made(r, <<"insert", "row">>)' => r \in db'.uploads
               /\ db'.notifications[r] # "none" => kind'[r] = "notify" /\ turn'[r] > 0
    <2>1. kind'[r] \in {"notify", "upload"} =>
              <<"insert", "row">> \in StatementsOf(kind'[r], body'[r])
      BY Makings DEF TypeOK
    <2> QED BY <1>1, <2>1, StillFacts DEF NoticesInv
  <1>3. ASSUME NEW r \in Request, NEW q \in Request,
               kind'[r] \in {"read_one", "read_all"}, Made(r, <<"mark", "row">>)',
               db'.notifications[q] # "none", turn'[q] < turn'[r],
               Sees(body[r].user, q)', kind'[r] = "read_one" => q = body'[r].target
        PROVE  db'.notifications[q] = "read"
    <2>1. <<"mark", "row">> \in StatementsOf(kind'[r], body'[r])
      BY <1>3, Makings DEF TypeOK
    <2>2. /\ kind'[r] = kind[r] /\ Made(r, <<"mark", "row">>) /\ turn'[r] = turn[r]
          /\ body'[r] = body[r]
      BY <1>3, <2>1, StillFacts
    <2>3. turn'[q] = turn[q] /\ body'[q] = body[q]
      BY <1>1, <1>3, StillFacts DEF NoticesInv
    <2> QED BY <1>1, <1>3, <2>2, <2>3 DEF NoticesInv, Sees
  <1> QED BY <1>2, <1>3 DEF NoticesInv, Sees

\* The statements of notifications and uploads.
LEMMA NoticesMade ==
  ASSUME TypeOK, TurnInv, TodoInv, NoticesInv, NEW q \in Request, NEW s \in Statement,
         Makes(q, s), Effect(q, s)
  PROVE  NoticesInv'
  <1> DEFINE insert == <<"insert", "row">>
             mark == <<"mark", "row">>
  <1>0. /\ db.notifications \in [Request -> {"none", "unread", "read"}]
        /\ db.uploads \in SUBSET Request
    BY RowsHave DEF TypeOK
  <1>1. /\ turn' = turn /\ kind' = kind /\ body' = body
        /\ turn[q] > 0 /\ pc[q] = "run" /\ s \in todo[q]
        /\ \A x \in Request \ {q} : turn[q] > turn[x]
        /\ \A r \in Request : \A x : Made(r, x)' => Made(r, x) \/ (r = q /\ x = s)
    BY MadeNow
  <1>2. s[1] = "mark" => s = mark /\ kind[q] \in {"read_one", "read_all"}
    BY MadeNow, MadeBy DEF Statement, TypeOK
  <1>3. CASE s[1] \notin {"insert", "mark"}
    <2>1. db'.notifications = db.notifications /\ db'.uploads = db.uploads
      BY <1>3 DEF Effect
    <2> QED BY <1>1, <1>3, <2>1 DEF NoticesInv, Sees
  <1>4. CASE s[1] = "insert"
    <2>1. /\ \A x \in Request \ {q} : db'.notifications[x] = db.notifications[x]
          /\ kind[q] = "notify" => db'.notifications[q] = "unread"
          /\ kind[q] # "notify" => db'.notifications[q] = db.notifications[q]
          /\ db.uploads \subseteq db'.uploads
          /\ kind[q] = "upload" => q \in db'.uploads
      BY <1>0, <1>4 DEF Effect
    <2>2. ASSUME NEW r \in Request
          PROVE  /\ kind[r] = "notify" /\ Made(r, insert)' => db'.notifications[r] # "none"
                 /\ kind[r] = "upload" /\ Made(r, insert)' => r \in db'.uploads
                 /\ db'.notifications[r] # "none" => kind[r] = "notify" /\ turn[r] > 0
      BY <1>1, <2>1 DEF NoticesInv
    <2>3. ASSUME NEW r \in Request, NEW x \in Request,
                 kind[r] \in {"read_one", "read_all"}, Made(r, mark)',
                 db'.notifications[x] # "none", turn[x] < turn[r],
                 Sees(body[r].user, x), kind[r] = "read_one" => x = body[r].target
          PROVE  db'.notifications[x] = "read"
      <3>1. Made(r, mark)
        BY <1>1, <1>4, <2>3
      <3>2. x = q => kind[q] # "notify"
        BY <1>1, <2>3 DEF TypeOK
      <3> QED BY <2>1, <2>3, <3>1, <3>2 DEF NoticesInv
    <2> QED BY <1>1, <2>2, <2>3 DEF NoticesInv, Sees
  <1>5. CASE s[1] = "mark"
    <2>1. /\ \A x \in Request : x \in Marks(q) => db'.notifications[x] = "read"
          /\ \A x \in Request : x \notin Marks(q) => db'.notifications[x] = db.notifications[x]
          /\ db'.uploads = db.uploads
      BY <1>5 DEF Effect
    <2>2. \A x \in Marks(q) : db.notifications[x] # "none"
      BY DEF Marks
    <2>3. ASSUME NEW r \in Request
          PROVE  /\ kind[r] = "notify" /\ Made(r, insert)' => db'.notifications[r] # "none"
                 /\ kind[r] = "upload" /\ Made(r, insert)' => r \in db'.uploads
                 /\ db'.notifications[r] # "none" => kind[r] = "notify" /\ turn[r] > 0
      BY <1>1, <1>2, <1>5, <2>1, <2>2 DEF NoticesInv
    <2>4. ASSUME NEW r \in Request, NEW x \in Request,
                 kind[r] \in {"read_one", "read_all"}, Made(r, mark)',
                 db'.notifications[x] # "none", turn[x] < turn[r],
                 Sees(body[r].user, x), kind[r] = "read_one" => x = body[r].target
          PROVE  db'.notifications[x] = "read"
      <3>1. CASE r = q
        <4>1. db.notifications[x] # "none"
          BY <2>1, <2>2, <2>4
        <4>2. x \in Marks(q)
          BY <2>4, <3>1, <4>1 DEF Marks
        <4> QED BY <2>1, <4>2
      <3>2. CASE r # q
        <4>1. Made(r, mark)
          BY <1>1, <2>4, <3>2
        <4>2. db.notifications[x] # "none"
          BY <2>1, <2>2, <2>4
        <4>3. db.notifications[x] = "read"
          BY <2>4, <4>1, <4>2 DEF NoticesInv
        <4> QED BY <2>1, <4>3
      <3> QED BY <3>1, <3>2
    <2> QED BY <1>1, <2>3, <2>4 DEF NoticesInv, Sees
  <1> QED BY <1>3, <1>4, <1>5

----------------------------------------------------------------------------
(* The barcode key.                                                        *)

\* What a step may do to places, answers and keys.
LEMMA Places ==
  ASSUME TypeOK, TodoInv, [Next]_vars
  PROVE  \/ UNCHANGED vars
         \/ Restart
         \/ \E r \in Request, k \in AllKinds : \E b \in Bodies(k) : Arrive(r, k, b)
         \/ \E r \in Request : LookForKey(r) \/ Begin(r) \/ Fail(r) \/ Audit(r)
         \/ \E r \in Request, s \in Statement :
               NotFound(r, s) /\ db' = db /\ kind[r] # "barcode"
         \/ \E r \in Request, s \in Statement : Makes(r, s) /\ Effect(r, s)
  <1>1. ASSUME NEW r \in Request, Step(r)
        PROVE  \/ LookForKey(r) \/ Begin(r) \/ Fail(r) \/ Audit(r)
               \/ \E s \in Statement : NotFound(r, s) /\ db' = db /\ kind[r] # "barcode"
               \/ \E s \in Statement : Makes(r, s) /\ Effect(r, s)
    <2>1. CASE Begin(r) \/ \E s \in Statement : Makes(r, s) /\ Effect(r, s)
      BY <2>1
    <2>2. CASE Quiet
      <3>1. ASSUME NEW s \in Statement PROVE ~Makes(r, s)
        BY <2>2 DEF Quiet, Makes, TypeOK
      <3>2. ASSUME NEW s \in Statement, NotFound(r, s), s[1] \in {"select", "drop_file", "mark"}
            PROVE  kind[r] # "barcode"
        <4>1. s \in StatementsOf(kind[r], body[r])
          BY <3>2 DEF NotFound, TodoInv
        <4> QED BY <3>2, <4>1, MadeBy DEF TypeOK
      <3> QED BY <1>1, <2>2, <3>1, <3>2, Controls DEF Quiet
    <2> QED BY <1>1, <2>1, <2>2, Effects
  <1> QED BY <1>1 DEF Next

\* A first save cut short, or a key put, is not undone.
LEMMA ExcusedStays ==
  ASSUME TypeOK, BodyInv, TodoInv, [Next]_vars, Excused
  PROVE  Excused'
  <1> USE DEF TypeOK, Excused
  <1>1. CASE UNCHANGED vars
    BY <1>1 DEF vars, history
  <1>2. CASE Restart
    BY <1>2 DEF Restart, TodoInv
  <1>3. CASE \E r \in Request, k \in AllKinds : \E b \in Bodies(k) : Arrive(r, k, b)
    BY <1>3 DEF Arrive, BodyInv
  <1>4. CASE \E r \in Request : LookForKey(r) \/ Begin(r) \/ Fail(r) \/ Audit(r)
    BY <1>4 DEF LookForKey, Look, Begin, Fail, Audit, Answer, TodoInv
  <1>5. CASE \E r \in Request, s \in Statement : NotFound(r, s) \/ Makes(r, s)
    BY <1>5 DEF NotFound, Makes, Answer, TodoInv
  <1> QED BY <1>1, <1>2, <1>3, <1>4, <1>5, Places

\* Who made a key looked in vain before, and has stored an id once it is made.
LEMMA MissedStep ==
  ASSUME TypeOK, TurnInv, TodoInv, KeyInv, [Next]_vars, TypeOK'
  PROVE  \A r \in Request : kind'[r] = "barcode" =>
             /\ pc'[r] \in {"call", "run"} => r \in missed'
             /\ pc'[r] # "audit"
  <1> SUFFICES ASSUME NEW r \in Request, kind'[r] = "barcode"
               PROVE  /\ pc'[r] \in {"call", "run"} => r \in missed'
                      /\ pc'[r] # "audit"
    OBVIOUS
  <1> USE DEF TypeOK, KeyInv
  <1>1. CASE UNCHANGED vars
    BY <1>1 DEF vars, history
  <1>2. CASE Restart
    BY <1>2 DEF Restart
  <1>3. CASE \E q \in Request, k \in AllKinds : \E b \in Bodies(k) : Arrive(q, k, b)
    BY <1>3 DEF Arrive
  <1>4. CASE \E q \in Request : LookForKey(q) \/ Begin(q) \/ Fail(q) \/ Audit(q)
    BY <1>4 DEF LookForKey, Look, Begin, Fail, Audit, Answer
  <1>5. CASE \E q \in Request, s \in Statement : NotFound(q, s) \/ Makes(q, s)
    BY <1>5 DEF NotFound, Makes, Answer, Audited
  <1> QED BY <1>1, <1>2, <1>3, <1>4, <1>5, Places

\* An id that is stored stays stored.
LEMMA IdStays ==
  ASSUME TypeOK, TurnInv, TodoInv, KeyInv, Stepwise, TypeOK'
  PROVE  /\ db.settings["secure_barcode_key_id"] # Unset =>
               db'.settings["secure_barcode_key_id"] # Unset
         /\ \A r \in Request :
               kind'[r] = "barcode" /\ Made(r, <<"setting", "secure_barcode_key_id">>)' =>
                   db'.settings["secure_barcode_key_id"] # Unset
  <1> DEFINE id == "secure_barcode_key_id"
             m == <<"setting", id>>
  <1>0. db.settings \in [Setting -> Value] /\ id \in Setting /\ Unset \notin Request
    BY RecordsAssumption, RowsHave DEF TypeOK, Setting, BarcodeKey
  <1>1. db.settings[id] # Unset => db'.settings[id] # Unset
    <2>1. ASSUME NEW q \in Request, NEW s \in Statement, Effect(q, s)
          PROVE  db.settings[id] # Unset => db'.settings[id] # Unset
      BY <1>0, <2>1 DEF Effect
    <2> QED BY <2>1 DEF Stepwise, Quiet, Arrive, Begin
  <1>2. ASSUME NEW r \in Request, kind'[r] = "barcode", Made(r, m)'
        PROVE  db'.settings[id] # Unset
    <2>1. m \in StatementsOf(kind'[r], body'[r])
      BY <1>2, Makings DEF TypeOK
    <2>2. kind[r] = "barcode" /\ (Made(r, m) \/ Effect(r, m))
      BY <1>2, <2>1, MadeStep
    <2>3. CASE Made(r, m)
      BY <1>1, <2>2, <2>3 DEF KeyInv
    <2>4. CASE Effect(r, m)
      BY <1>0, <2>4 DEF Effect
    <2> QED BY <2>2, <2>3, <2>4
  <1> QED BY <1>1, <1>2

\* A key is stored with its id, is about to be, or there is an excuse.
LEMMA KeyPaired ==
  ASSUME TypeOK, BodyInv, TurnInv, TodoInv, KeyInv, [Next]_vars, TypeOK',
         db'.settings["secure_barcode_key"] # Unset, ~Excused'
  PROVE  \/ db'.settings["secure_barcode_key_id"] # Unset
         \/ \E q \in Request : /\ pc'[q] = "run" /\ kind'[q] = "barcode"
                               /\ <<"setting", "secure_barcode_key_id">> \in todo'[q]
  <1> DEFINE key == "secure_barcode_key"
             id == "secure_barcode_key_id"
             m == <<"setting", id>>
  <1>0. /\ db.settings \in [Setting -> Value] /\ key \in Setting /\ id \in Setting
        /\ Unset \notin Request
    BY RecordsAssumption, RowsHave DEF TypeOK, Setting, BarcodeKey
  <1>1. ~Excused
    BY ExcusedStays
  <1> SUFFICES ASSUME db'.settings[id] = Unset
               PROVE  \E q \in Request : /\ pc'[q] = "run" /\ kind'[q] = "barcode"
                                         /\ m \in todo'[q]
    OBVIOUS
  <1>2. db.settings[id] = Unset
    BY EveryStep, IdStays
  <1>3. ASSUME db.settings[key] # Unset
        PROVE  \E q \in Request : /\ pc[q] = "run" /\ kind[q] = "barcode" /\ q \in missed
                                  /\ m \in todo[q]
    BY <1>1, <1>2, <1>3 DEF KeyInv
  <1>4. CASE UNCHANGED vars
    BY <1>3, <1>4 DEF vars
  <1>5. CASE Restart
    <2>1. /\ db' = db /\ missed' = missed
          /\ \A q \in Request : pc[q] = "run" => answer'[q] = "lost"
      BY <1>5 DEF Restart
    <2> QED BY <1>3, <2>1 DEF Excused
  <1>6. CASE \E r \in Request, k \in AllKinds : \E b \in Bodies(k) : Arrive(r, k, b)
    <2>1. /\ db' = db /\ todo' = todo
          /\ \A q \in Request : pc[q] = "run" => pc'[q] = "run" /\ kind'[q] = kind[q]
      BY <1>6 DEF Arrive, TypeOK
    <2> QED BY <1>3, <2>1
  <1>7. CASE \E r \in Request : LookForKey(r) \/ Begin(r) \/ Audit(r)
    <2>1. /\ db' = db /\ kind' = kind
          /\ \A q \in Request : pc[q] = "run" => pc'[q] = "run" /\ todo'[q] = todo[q]
      BY <1>7 DEF LookForKey, Look, Begin, Audit, Answer, TypeOK
    <2> QED BY <1>3, <2>1
  <1>8. ASSUME NEW r \in Request, Fail(r)
        PROVE  \E q \in Request : pc'[q] = "run" /\ kind'[q] = "barcode" /\ m \in todo'[q]
    <2>1. /\ db' = db /\ kind' = kind /\ todo' = todo /\ missed' = missed
          /\ \A q \in Request \ {r} : pc'[q] = pc[q]
          /\ kind[r] = "barcode" => answer'[r] = "error"
      BY <1>8 DEF Fail, Answer, TypeOK
    <2> QED BY <1>3, <2>1 DEF Excused
  <1>9. ASSUME NEW r \in Request, NEW s \in Statement, NotFound(r, s), db' = db,
               kind[r] # "barcode"
        PROVE  \E q \in Request : pc'[q] = "run" /\ kind'[q] = "barcode" /\ m \in todo'[q]
    <2>1. kind' = kind /\ todo' = todo /\ \A q \in Request \ {r} : pc'[q] = pc[q]
      BY <1>9 DEF NotFound, Answer, TypeOK
    <2> QED BY <1>3, <1>9, <2>1
  <1>10. ASSUME NEW r \in Request, NEW s \in Statement, Makes(r, s), Effect(r, s)
         PROVE  \E q \in Request : pc'[q] = "run" /\ kind'[q] = "barcode" /\ m \in todo'[q]
    <2>1. /\ kind' = kind /\ body' = body /\ turn[r] > 0 /\ pc[r] = "run"
          /\ s \in StatementsOf(kind[r], body[r]) /\ s \in todo[r]
          /\ todo'[r] = todo[r] \ {s}
          /\ \A q \in Request \ {r} : pc[q] # "run"
      BY <1>10, MadeNow, RunsLast
    <2>2. s # m
      BY <1>0, <1>10 DEF Effect
    <2>3. m \in todo[r] => m \in todo'[r] /\ pc'[r] = "run"
      BY <1>10, <2>1, <2>2 DEF Makes, TypeOK
    <2>4. CASE db.settings[key] # Unset
      BY <1>3, <2>1, <2>3, <2>4
    <2>5. CASE db.settings[key] = Unset
      <3>1. s[1] = "setting" /\ s[2] = key
        BY <1>0, <1>10, <2>5 DEF Effect
      <3>2. kind[r] = "barcode"
        <4>1. /\ kind[r] \in {"barcode", "put_settings"}
              /\ kind[r] = "put_settings" => key \in body[r].fields
          BY <2>1, <3>1, MadeBy DEF TypeOK
        <4> QED BY <1>1, <4>1 DEF Excused
      <3>3. m \in todo[r]
        BY <1>2, <2>1, <3>2 DEF KeyInv, Made
      <3> QED BY <2>1, <2>3, <3>2, <3>3
    <2> QED BY <2>4, <2>5
  <1> QED BY <1>4, <1>5, <1>6, <1>7, <1>8, <1>9, <1>10, Places

\* What a call is answered with.
LEMMA KeyGiven ==
  ASSUME TypeOK, BodyInv, TurnInv, TodoInv, KeyInv, [Next]_vars, TypeOK',
         NEW r \in Request, kind'[r] = "barcode", answer'[r] = "ok"
  PROVE  (given'[r].key # Unset /\ given'[r].id # Unset) \/ Excused'
  <1>1. CASE kind[r] = "barcode" /\ answer[r] = "ok" /\ given'[r] = given[r]
    BY <1>1, ExcusedStays DEF KeyInv
  <1>2. CASE LookForKey(r) /\ answer[r] # "ok"
    <2>1. /\ db.settings["secure_barcode_key"] # Unset
          /\ given'[r].key = db.settings["secure_barcode_key"]
          /\ given'[r].id = db.settings["secure_barcode_key_id"]
      BY <1>2 DEF LookForKey, Look, Answer, TypeOK
    <2>2. \A q \in Request : pc[q] # "run"
      BY <1>2, RecordsAssumption DEF LookForKey, TurnInv
    <2>3. db.settings["secure_barcode_key_id"] # Unset \/ Excused
      BY <2>1, <2>2 DEF KeyInv
    <2> QED BY <2>1, <2>3, ExcusedStays
  <1>3. ASSUME NEW s \in Statement, Makes(r, s), Effect(r, s)
        PROVE  given'[r].key # Unset /\ given'[r].id # Unset
    <2>1. kind' = kind /\ s \in StatementsOf(kind[r], body[r])
      BY <1>3, MadeNow
    <2>2. s[1] = "setting"
      BY <2>1 DEF StatementsOf
    <2>3. given'[r] = [key |-> r, id |-> r]
      BY <1>3, <2>1, <2>2 DEF Effect, TypeOK
    <2> QED BY <2>3, RecordsAssumption
  <1> USE DEF TypeOK
  <1>4. CASE UNCHANGED vars
    BY <1>1, <1>4 DEF vars, history
  <1>5. CASE Restart
    BY <1>1, <1>5 DEF Restart
  <1>6. CASE \E q \in Request, k \in AllKinds : \E b \in Bodies(k) : Arrive(q, k, b)
    BY <1>1, <1>6, SMTT(30) DEF Arrive, TodoInv
  <1>7. ASSUME NEW q \in Request, LookForKey(q)
        PROVE  (given'[r].key # Unset /\ given'[r].id # Unset) \/ Excused'
    <2>1. CASE q = r
      <3>1. answer[r] # "ok"
        BY <1>7, <2>1 DEF LookForKey, Look, TodoInv
      <3> QED BY <1>2, <1>7, <2>1, <3>1
    <2>2. CASE q # r
      BY <1>1, <1>7, <2>2 DEF LookForKey, Look, Answer
    <2> QED BY <2>1, <2>2
  <1>8. CASE \E q \in Request : Begin(q) \/ Fail(q) \/ Audit(q)
    BY <1>1, <1>8 DEF Begin, Fail, Audit, Answer, KeyInv
  <1>9. CASE \E q \in Request, s \in Statement : NotFound(q, s)
    BY <1>1, <1>9 DEF NotFound, Answer
  <1>10. ASSUME NEW q \in Request, NEW s \in Statement, Makes(q, s), Effect(q, s), q # r
         PROVE  (given'[r].key # Unset /\ given'[r].id # Unset) \/ Excused'
    <2>1. kind'[r] = kind[r] /\ answer'[r] = answer[r]
      BY <1>10 DEF Makes, Answer
    <2>2. given'[r] = given[r]
      BY <1>10 DEF Effect
    <2> QED BY <1>1, <2>1, <2>2
  <1> QED BY <1>3, <1>4, <1>5, <1>6, <1>7, <1>8, <1>9, <1>10, Places

\* Together.
LEMMA KeyStep ==
  ASSUME TypeOK, BodyInv, TurnInv, TodoInv, KeyInv, [Next]_vars, TypeOK'
  PROVE  KeyInv'
  BY EveryStep, MissedStep, IdStays, KeyPaired, KeyGiven DEF KeyInv

----------------------------------------------------------------------------
(* The theorems.                                                           *)

\* At first nothing is written, and nobody has arrived.
LEMMA InitInv ==
  ASSUME Init
  PROVE  IInv
  <1> USE RecordsAssumption DEF Init
  <1>1. TypeOK
    BY DEF TypeOK, Rows, Value, Setting, Forwarding, NoForwarding, Sale, NoSale, Payload,
           NoPayload, RowState, AllKinds, Body
  <1>2. BodyInv /\ TurnInv /\ TodoInv
    BY DEF BodyInv, TurnInv, TodoInv
  <1>3. SettingsInv /\ ForwardingInv /\ SalesInv /\ KeyInv
    BY DEF SettingsInv, ForwardingInv, SalesInv, SaleWhole, PayloadRead, StatusSet, KeyInv,
           Made, Setting, BarcodeKey
  <1>4. FilesInv /\ DeploymentsInv /\ NoticesInv
    BY DEF FilesInv, DeploymentsInv, NoticesInv, Made
  <1> QED BY <1>1, <1>2, <1>3, <1>4 DEF IInv

\* Every step keeps the invariant.
LEMMA NextInv ==
  ASSUME IInv, [Next]_vars
  PROVE  IInv'
  <1> USE DEF IInv
  <1>1. TypeOK' /\ BodyInv' /\ TurnInv' /\ TodoInv'
    BY TypesKept, TurnsKept, TodoKept
  <1>2. Stepwise
    BY EveryStep
  <1>3. SettingsInv' /\ ForwardingInv' /\ SalesInv' /\ KeyInv'
    BY <1>1, <1>2, SettingsStep, ForwardingStep, SalesStep, KeyStep
  <1>4. CASE Still
    BY <1>1, <1>3, <1>4, FilesStill, DeploymentsStill, NoticesStill
  <1>5. ASSUME NEW q \in Request, NEW s \in Statement, Makes(q, s), Effect(q, s)
        PROVE  IInv'
    BY <1>1, <1>3, <1>5, FilesMade, DeploymentsMade, NoticesMade
  <1> QED BY <1>2, <1>4, <1>5 DEF Stepwise, Still

\* IInv holds in every reachable state.
THEOREM Invariance == Spec => []IInv
  <1>1. Init => IInv
    BY InitInv
  <1>2. IInv /\ [Next]_vars => IInv'
    BY NextInv
  <1> QED BY <1>1, <1>2, PTL DEF Spec

\* The variables have their types.
THEOREM TypesHold == Spec => []TypeOK
  <1>1. IInv => TypeOK
    BY DEF IInv
  <1> QED BY <1>1, Invariance, PTL

\* A save answered with success is whole.
THEOREM SettingsHold == Spec => []SettingsKept
  <1>1. IInv => SettingsKept
    BY DEF IInv, SettingsKept, SettingsInv, TodoInv, Made
  <1> QED BY <1>1, Invariance, PTL

\* So is an update of API forwarding, whatever rewrites the users.
THEOREM ForwardingHolds == Spec => []ForwardingKept
  <1>1. IInv => ForwardingKept
    BY DEF IInv, ForwardingKept, ForwardingInv, TodoInv, Made
  <1> QED BY <1>1, Invariance, PTL

\* Leads, orders, their status, notifications and uploads are kept whole.
THEOREM RowsHold == Spec => []RowsKept
  <1>1. ASSUME IInv, NEW r \in Request, answer[r] = "ok",
               kind[r] \in {"lead", "order"}
        PROVE  /\ db.sales[r].state = "whole"
               /\ db.sales[r].payload = [number |-> kind[r] = "order",
                                         status |-> db.sales[r].status]
    <2>1. SaleWhole(r) /\ todo[r] = {} /\ turn[r] > 0
      BY <1>1 DEF IInv, SalesInv, TodoInv
    <2>2. /\ db.sales[r].state = "whole"
          /\ db.sales[r].payload.status = db.sales[r].status
          /\ db.sales[r].payload.number = (kind[r] = "order")
      BY <1>1, <2>1 DEF SaleWhole, Made
    <2>3. db.sales[r].payload \in Payload
      BY <1>1, RowsHave DEF IInv, TypeOK, Sale
    <2> QED BY <2>2, <2>3 DEF Payload
  <1>2. ASSUME IInv, NEW r \in Request, answer[r] = "ok"
        PROVE  /\ kind[r] = "notify" => db.notifications[r] # "none"
               /\ kind[r] = "upload" => r \in db.uploads
               /\ kind[r] = "status" => Newer(db.sales[body[r].target].status, r)
    BY <1>2 DEF IInv, NoticesInv, SalesInv, StatusSet, TodoInv, Made
  <1>3. IInv => RowsKept
    BY <1>1, <1>2 DEF RowsKept
  <1> QED BY <1>3, Invariance, PTL

\* A file and its deployments are there until the file is deleted, and then
\* neither is.
THEOREM DeploymentsHold == Spec => []DeploymentsKept
  <1>1. ASSUME IInv, NEW r \in Request, answer[r] = "ok", kind[r] # "barcode"
        PROVE  \A s : Made(r, s)
    BY <1>1 DEF IInv, TodoInv, Made
  <1>2. ASSUME IInv, NEW r \in Request, answer[r] = "ok"
        PROVE  /\ kind[r] = "publish" => db.files[r] = "whole" \/ Withdrawn(r, r)
               /\ kind[r] = "deploy" => \A i \in 1 .. body[r].items :
                     db.deployments[r][i] = "whole" \/ Withdrawn(body[r].target, r)
               /\ kind[r] = "withdraw" => db.files[body[r].target] = "none"
    BY <1>1, <1>2 DEF IInv, FilesInv, DeploymentsInv
  <1>3. ASSUME IInv, NEW r \in Request, answer[r] = "ok", kind[r] = "withdraw",
               NEW q \in Request, NEW i \in Item,
               body[q].target = body[r].target, db.deployments[q][i] # "none"
        PROVE  turn[q] > turn[r]
    BY <1>1, <1>3 DEF IInv, DeploymentsInv
  <1>4. IInv => DeploymentsKept
    BY <1>2, <1>3 DEF DeploymentsKept
  <1> QED BY <1>4, Invariance, PTL

\* What was marked as read stays read.
THEOREM ReadHolds == Spec => []ReadKept
  <1>1. IInv => ReadKept
    BY DEF IInv, ReadKept, NoticesInv, TodoInv, Made
  <1> QED BY <1>1, Invariance, PTL

\* A key comes with its id, but for a first save cut short or a key put.
THEOREM KeyIsPaired == Spec => []KeyComesWithId
  <1>1. IInv => KeyComesWithId
    BY DEF IInv, KeyComesWithId, KeyInv, Excused
  <1> QED BY <1>1, Invariance, PTL

\* The first key stored is replaced only by calls that could not know of it, or
\* by a client's own.
THEOREM KeyHasSettled == Spec => KeySettles
  <1>1. ASSUME IInv, [Next]_vars
        PROVE  [LET key == db.settings["secure_barcode_key"]
                    next == db'.settings["secure_barcode_key"]
                IN  key # Unset /\ next # key =>
                        next \in missed \/ kind[next] = "put_settings"]_vars
    <2> DEFINE k == "secure_barcode_key"
    <2> SUFFICES ASSUME db'.settings[k] # db.settings[k]
                 PROVE  db'.settings[k] \in missed \/ kind[db'.settings[k]] = "put_settings"
      OBVIOUS
    <2>1. Stepwise
      BY <1>1, EveryStep DEF IInv
    <2>2. PICK q \in Request, s \in Statement : Makes(q, s) /\ Effect(q, s)
      BY <2>1 DEF Stepwise, Quiet, Arrive, Begin
    <2>3. db.settings \in [Setting -> Value]
      BY <1>1, RowsHave DEF IInv, TypeOK
    <2>4. s[1] = "setting" /\ db'.settings[k] = q
      BY <2>2, <2>3 DEF Effect, Setting, BarcodeKey
    <2>5. kind[q] \in {"barcode", "put_settings"} /\ pc[q] = "run"
      BY <1>1, <2>2, <2>4, MadeNow, MadeBy DEF IInv, TypeOK
    <2> QED BY <1>1, <2>4, <2>5 DEF IInv, KeyInv
  <1> QED BY <1>1, Invariance, PTL DEF KeySettles, Spec
============================================================================
