------------------------- MODULE PostgresConnection -------------------------
(***************************************************************************)
(* The PostgreSQL driver's database and connections,                       *)
(* src/c/driver/postgresql/{database,connection,postgresql}.cc.            *)
(*                                                                         *)
(* Every call is one step: the API serialises the calls on an object, and  *)
(* each call waits in libpq for the server's answer.  libpq and the server *)
(* are external: a session with its transaction, which the server may drop *)
(* at any time.                                                            *)
(***************************************************************************)
EXTENDS Integers, FiniteSets

CONSTANTS
  Connections,
  Rows,      \* what updates write
  Habits     \* what callers and the server do beyond the ordinary, see AllHabits

\* "chained": a caller goes on in the next transaction without setting
\* autocommit again.  "overlap": it uses a connection while a result of it has
\* not been read.  "late": it releases a stream after its statement was
\* executed again.  "cut": the server goes away, or fails the query, before the
\* first message of a result arrives.
AllHabits == {"chained", "overlap", "late", "cut"}

ASSUME HabitsAssumption == Habits \subseteq AllHabits

ASSUME ConnectionsAssumption == IsFiniteSet(Connections)

VARIABLES
  database,    \* the handle and the PostgresDatabase behind it
  handle,      \* AdbcConnection.private_data is set
  conn,        \* PostgresConnection.conn_: "null", "up", or "down" when the server is gone
  autocommit,  \* PostgresConnection.autocommit_
  txn,         \* server: the session's transaction: "none", "open", "failed"
  wrote,       \* server: the rows of the open transaction
  table,       \* server: the committed rows
  asked,       \* rows of the updates that succeeded since autocommit was disabled
  hurt,        \* a statement failed since then: the caller was told, or did not read its result
  ended,       \* Commit or Rollback was called since then
  acked,       \* rows the caller was told took effect
  undone       \* rows the caller was told were rolled back

driver  == <<database, handle, conn, autocommit>>
session == <<txn, wrote, table>>
caller  == <<asked, hurt, ended, acked, undone>>
connVars == <<driver, session, caller>>

ConnInit ==
  /\ database = [handle |-> FALSE, uri |-> FALSE, types |-> FALSE, open_connections |-> 0]
  /\ handle = [c \in Connections |-> FALSE]
  /\ conn = [c \in Connections |-> "null"]
  /\ autocommit = [c \in Connections |-> TRUE]
  /\ txn = [c \in Connections |-> "none"]
  /\ wrote = [c \in Connections |-> {}]
  /\ table = {}
  /\ asked = [c \in Connections |-> {}]
  /\ hurt = [c \in Connections |-> FALSE]
  /\ ended = [c \in Connections |-> FALSE]
  /\ acked = {} /\ undone = {}

-----------------------------------------------------------------------------
(* The database.                                                           *)

\* The object lives as long as the handle or a connection refers to it.
DatabaseAlive == database.handle \/ \E c \in Connections : conn[c] # "null"

\* The model follows one database at a time.
DatabaseNew ==
  /\ ~DatabaseAlive
  /\ database' = [handle |-> TRUE, uri |-> FALSE, types |-> FALSE, open_connections |-> 0]
  /\ UNCHANGED <<handle, conn, autocommit, session, caller>>

DatabaseSetOption ==
  /\ database.handle
  /\ database' = [database EXCEPT !.uri = TRUE]
  /\ UNCHANGED <<handle, conn, autocommit, session, caller>>

\* PostgresDatabase::Connect succeeds.
Connect(d) == [d EXCEPT !.open_connections = @ + 1]

\* Mutant of Disconnect: the count of open connections is not decremented.
DisconnectKeepsCount(d) == d

\* PostgresDatabase::Disconnect.
Disconnect(d) == [d EXCEPT !.open_connections = @ - 1]

\* Connects, reads pg_type into the mapping, and disconnects, also when the
\* query fails.
DatabaseInit ==
  /\ database.handle /\ database.uri
  /\ \E known \in {TRUE, database.types} :
       database' = Disconnect([Connect(database) EXCEPT !.types = known])
  /\ UNCHANGED <<handle, conn, autocommit, session, caller>>

\* INVALID_STATE while connections are open, but the handle goes either way.
DatabaseRelease ==
  /\ database.handle
  /\ database' = [database EXCEPT !.handle = FALSE]
  /\ UNCHANGED <<handle, conn, autocommit, session, caller>>

-----------------------------------------------------------------------------
(* The life of a connection.                                               *)

ConnectionNew(c) ==
  /\ ~handle[c]
  /\ handle' = [handle EXCEPT ![c] = TRUE]
  /\ autocommit' = [autocommit EXCEPT ![c] = TRUE]
  /\ UNCHANGED <<database, conn, session, caller>>

\* Fails, and changes nothing, without a uri or if the server refuses.
ConnectionInit(c) ==
  /\ handle[c] /\ conn[c] = "null"
  /\ database.handle /\ database.uri
  /\ database' = Connect(database)
  /\ conn' = [conn EXCEPT ![c] = "up"]
  /\ UNCHANGED <<handle, autocommit, session, caller>>

\* Mutant of PQfinish: Disconnect does not call it.
PQfinishForgotten(c) == UNCHANGED <<txn, wrote>>

\* The session ends, and the server rolls back.
PQfinish(c) ==
  /\ txn' = [txn EXCEPT ![c] = "none"]
  /\ wrote' = [wrote EXCEPT ![c] = {}]

ConnectionRelease(c) ==
  /\ handle[c]
  /\ database' = IF conn[c] = "null" THEN database ELSE Disconnect(database)
  /\ handle' = [handle EXCEPT ![c] = FALSE]
  /\ conn' = [conn EXCEPT ![c] = "null"]
  /\ autocommit' = [autocommit EXCEPT ![c] = TRUE]
  /\ PQfinish(c)
  /\ asked' = [asked EXCEPT ![c] = {}]
  /\ hurt' = [hurt EXCEPT ![c] = FALSE]
  /\ ended' = [ended EXCEPT ![c] = FALSE]
  /\ UNCHANGED <<table, acked, undone>>

\* The server ends the session; libpq notices at the next query.
SessionLost(c) ==
  /\ conn[c] = "up"
  /\ conn' = [conn EXCEPT ![c] = "down"]
  /\ txn' = [txn EXCEPT ![c] = "none"]
  /\ wrote' = [wrote EXCEPT ![c] = {}]
  /\ UNCHANGED <<database, handle, autocommit, table, caller>>

-----------------------------------------------------------------------------
(* Transactions.                                                           *)

\* What COMMIT and ROLLBACK do in the server.  They succeed in every state:
\* in a failed transaction COMMIT rolls back, and outside of one both only
\* warn.
EndTransaction(c, commit) ==
  /\ table' = IF commit THEN table \cup wrote[c] ELSE table
  /\ wrote' = [wrote EXCEPT ![c] = {}]
  /\ txn' = [txn EXCEPT ![c] = "none"]

BeginTransaction(c) ==
  /\ txn' = [txn EXCEPT ![c] = "open"]
  /\ UNCHANGED <<wrote, table>>

\* A call that ends a transaction succeeds: what the caller takes from it.
Vouch(c, commit) ==
  /\ acked' = IF commit /\ ~hurt[c] THEN acked \cup asked[c] ELSE acked
  /\ undone' = IF commit THEN undone ELSE undone \cup asked[c]
  /\ asked' = [asked EXCEPT ![c] = {}]
  /\ hurt' = [hurt EXCEPT ![c] = FALSE]

\* PostgresConnection::Commit; INVALID_STATE in autocommit mode.
Commit(c) ==
  /\ conn[c] = "up" /\ ~autocommit[c]
  /\ EndTransaction(c, TRUE)
  /\ Vouch(c, TRUE)
  /\ ended' = [ended EXCEPT ![c] = TRUE]
  /\ UNCHANGED driver

\* Mutant of Rollback: the query is COMMIT.
RollbackCommits(c) ==
  /\ conn[c] = "up" /\ ~autocommit[c]
  /\ EndTransaction(c, TRUE)
  /\ Vouch(c, FALSE)
  /\ ended' = [ended EXCEPT ![c] = TRUE]
  /\ UNCHANGED driver

Rollback(c) ==
  /\ conn[c] = "up" /\ ~autocommit[c]
  /\ EndTransaction(c, FALSE)
  /\ Vouch(c, FALSE)
  /\ ended' = [ended EXCEPT ![c] = TRUE]
  /\ UNCHANGED driver

\* PostgresConnection::SetOption(autocommit): COMMIT or BEGIN TRANSACTION, if
\* the value changes; the flag follows when the query has succeeded.
SetAutocommit(c, enabled) ==
  /\ conn[c] = "up" /\ autocommit[c] # enabled
  /\ IF enabled
       THEN EndTransaction(c, TRUE) /\ Vouch(c, TRUE)
       ELSE BeginTransaction(c) /\ UNCHANGED <<asked, hurt, acked, undone>>
  /\ autocommit' = [autocommit EXCEPT ![c] = enabled]
  /\ ended' = [ended EXCEPT ![c] = FALSE]
  /\ UNCHANGED <<database, handle, conn>>

\* The server commits for one of these calls and the answer is lost: the
\* caller is told of a failure, and the flag stays.
CommitAnswerLost(c) ==
  /\ conn[c] = "up" /\ ~autocommit[c]
  /\ EndTransaction(c, TRUE)
  /\ conn' = [conn EXCEPT ![c] = "down"]
  /\ hurt' = [hurt EXCEPT ![c] = TRUE]
  /\ UNCHANGED <<database, handle, autocommit, asked, ended, acked, undone>>

-----------------------------------------------------------------------------
(* Updates, as the server sees them.                                       *)

\* The statement's rows: in a transaction, or committed at once.
Write(c, rows) ==
  /\ IF txn[c] = "open"
       THEN wrote' = [wrote EXCEPT ![c] = @ \cup rows] /\ UNCHANGED table
       ELSE table' = table \cup rows /\ UNCHANGED wrote
  /\ UNCHANGED txn

\* A failed statement dooms its transaction.
WriteFails(c) ==
  /\ wrote' = [wrote EXCEPT ![c] = {}]
  /\ txn' = [txn EXCEPT ![c] = IF @ = "none" THEN "none" ELSE "failed"]
  /\ UNCHANGED table

\* The caller may write: it is in autocommit mode, in the transaction that
\* disabling it began, or relies on the next one.
MayWrite(c) == ended[c] => "chained" \in Habits

\* A row is written once.
Fresh(r) == r \notin table \cup undone \cup UNION {wrote[c] \cup asked[c] : c \in Connections}

\* An update that succeeds, as the caller understands it.
Succeeded(c, rows) ==
  /\ acked' = IF autocommit[c] THEN acked \cup rows ELSE acked
  /\ asked' = IF autocommit[c] THEN asked ELSE [asked EXCEPT ![c] = @ \cup rows]
  /\ UNCHANGED <<hurt, ended, undone>>

Failed(c) ==
  /\ hurt' = [hurt EXCEPT ![c] = ~autocommit[c]]
  /\ UNCHANGED <<asked, ended, acked, undone>>

-----------------------------------------------------------------------------
(* Properties.                                                             *)

\* The fields of PostgresDatabase and PostgresConnection, and the session.
ConnTypeOK ==
  /\ database \in [handle : BOOLEAN, uri : BOOLEAN, types : BOOLEAN, open_connections : Int]
  /\ handle \in [Connections -> BOOLEAN]
  /\ conn \in [Connections -> {"null", "up", "down"}]
  /\ autocommit \in [Connections -> BOOLEAN]
  /\ txn \in [Connections -> {"none", "open", "failed"}]
  /\ wrote \in [Connections -> SUBSET Rows]
  /\ table \subseteq Rows
  /\ asked \in [Connections -> SUBSET Rows]
  /\ hurt \in [Connections -> BOOLEAN] /\ ended \in [Connections -> BOOLEAN]
  /\ acked \subseteq Rows /\ undone \subseteq Rows

\* open_connections_ counts the sessions, through failed Inits, releases in
\* any order and a database released first: AdbcDatabaseRelease refuses
\* exactly when a connection is open, and the count never underflows.
CountAgrees == database.open_connections = Cardinality({c \in Connections : conn[c] # "null"})

\* What Commit, enabling autocommit or an update in autocommit mode reported
\* as done is in the database, unless a statement of the transaction had
\* failed; what Rollback reported as undone is not.
ReportsAreTrue == acked \subseteq table /\ undone \cap table = {}

Contract == INSTANCE Transactions
              WITH manual <- {c \in Connections : ~autocommit[c]}, pending <- wrote, durable <- table

\* The connections implement ADBC's transactions.
TransactionContract == Contract!Spec
=============================================================================
