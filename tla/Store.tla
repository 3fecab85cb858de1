------------------------------- MODULE Store -------------------------------
(***************************************************************************)
(* The store (sqlite_storage.go): one SQLite database behind one mutex.    *)
(*                                                                         *)
(* Every method of Store locks mu for its whole body.  A method that makes *)
(* one statement is one step here, enabled while nobody holds mu.  Update  *)
(* is the exception: it holds mu while it loads every row of six tables    *)
(* into a Data value, calls a closure of the handler on it, and replaces   *)
(* the rows by the result in one transaction.  Other steps, and the end of *)
(* the process, fall between its steps.                                    *)
(*                                                                         *)
(* db stands for the tables that Update replaces, log for the ones that    *)
(* only single statements touch.  A session token is fresh random bytes    *)
(* per login; the login request stands for it.                             *)
(***************************************************************************)
EXTENDS FiniteSets, Integers

CONSTANTS
    Request,    \* HTTP requests, each served by a goroutine of its own
    Nobody,     \* a mutex nobody holds
    User,       \* user ids
    NoUser,     \* no such row
    MaxVehicle  \* bound on vehicle ids

ASSUME StoreAssumption ==
    /\ Nobody \notin Request
    /\ NoUser \notin User
    /\ MaxVehicle \in Nat

VARIABLES
    mu,    \* the request holding Store.mu between two steps, or Nobody
    db,    \* the committed rows of users, sessions and vehicles
    log,   \* the rows of notifications, events and audit_logs
    snap   \* the Data value of a request inside Update

storeVars == <<mu, db, log, snap>>

VehicleId == 1 .. MaxVehicle
Table == {"notifications", "events", "audit_logs"}

\* alerts[v] is the set of requests that incremented a counter of vehicle v.
Data == [users : SUBSET User,
         sessions : [Request -> User \cup {NoUser}],
         vehicles : SUBSET VehicleId,
         alerts : [VehicleId -> SUBSET Request]]

StoreTypeOK ==
    /\ mu \in Request \cup {Nobody}
    /\ db \in Data
    /\ log \in SUBSET (Table \X Request)
    /\ snap \in [Request -> Data]

\* sessions.user_id REFERENCES users(id), enforced by the database.
ForeignKeys(d) == \A t \in Request : d.sessions[t] \in d.users \cup {NoUser}

\* What maybeSeed or maybeImportJSON leaves, or an earlier run of the server:
\* users, perhaps a vehicle, no session still in use.
StoreInit ==
    /\ mu = Nobody
    /\ \E vs \in SUBSET ({1} \cap VehicleId) :
          db = [users |-> User,
                sessions |-> [t \in Request |-> NoUser],
                vehicles |-> vs,
                alerts |-> [v \in VehicleId |-> {}]]
    /\ log = {}
    /\ snap = [r \in Request |-> db]

----------------------------------------------------------------------------
(* Methods of one statement.  ok tells whether the statement succeeded.    *)

Free == mu = Nobody

\* UserByEmail, UserByID and SessionUserID change nothing.
Read == Free /\ UNCHANGED storeVars

\* Variant: a session row is inserted for a user that is gone.
InsertAnySession(r, u, ok) ==
    /\ Free
    /\ ok
    /\ db' = [db EXCEPT !.sessions[r] = u]
    /\ UNCHANGED <<mu, log, snap>>

\* NewSession; the foreign key refuses a user deleted since it was read.
NewSession(r, u, ok) ==
    /\ Free
    /\ ok <=> u \in db.users
    /\ db' = IF ok THEN [db EXCEPT !.sessions[r] = u] ELSE db
    /\ UNCHANGED <<mu, log, snap>>

DeleteSession(t) ==
    /\ Free
    /\ db' = [db EXCEPT !.sessions[t] = NoUser]
    /\ UNCHANGED <<mu, log, snap>>

\* AddNotification, AddEvent and AddAuditLog.
Append(table, r) ==
    /\ Free
    /\ log' = log \cup {<<table, r>>}
    /\ UNCHANGED <<mu, db, snap>>

----------------------------------------------------------------------------
(* Update.  After Load the request holds mu until GiveUp or ReplaceAllData. *)

\* Variant: the mutex is released again once the rows are loaded.
LoadAndUnlock(r) ==
    /\ Free
    /\ snap' = [snap EXCEPT ![r] = db]
    /\ UNCHANGED <<mu, db, log>>

\* Lock and loadAllData.
Load(r) ==
    /\ Free
    /\ mu' = r
    /\ snap' = [snap EXCEPT ![r] = db]
    /\ UNCHANGED <<db, log>>

\* The closure changes the snapshot.
Change(r, d) ==
    /\ snap' = [snap EXCEPT ![r] = d]
    /\ UNCHANGED <<mu, db, log>>

\* Variant: an early return that leaves the mutex locked.
GiveUpLocked(r) == UNCHANGED storeVars

\* The closure returns an error: unlock, nothing is replaced.
GiveUp(r) ==
    /\ mu' = Nobody
    /\ UNCHANGED <<db, log, snap>>

\* Variant: foreign keys are not switched on, as is the default of SQLite.
ReplaceUnchecked(r, ok) ==
    /\ ok
    /\ db' = snap[r]
    /\ mu' = Nobody
    /\ UNCHANGED <<log, snap>>

\* replaceAllData and unlock.  The transaction is rolled back when a row is
\* refused by a foreign key.
ReplaceAllData(r, ok) ==
    /\ ok <=> ForeignKeys(snap[r])
    /\ db' = IF ok THEN snap[r] ELSE db
    /\ mu' = Nobody
    /\ UNCHANGED <<log, snap>>

\* The process ends and is started again on the same file: SQLite has rolled
\* back what was not committed.
Reopen ==
    /\ mu' = Nobody
    /\ UNCHANGED <<db, log, snap>>
============================================================================
