-------------------------- MODULE SqliteConnection --------------------------
(***************************************************************************)
(* Connections of the SQLite driver, src/c/driver/sqlite/sqlite.c, to one  *)
(* database file: autocommit, Commit and Rollback.                         *)
(*                                                                         *)
(* Each connection is used by a thread of its own.  The driver keeps a     *)
(* flag, active_transaction, beside the transaction state that SQLite      *)
(* keeps, and drives SQLite with COMMIT, BEGIN and ROLLBACK through the    *)
(* helper ExecuteQuery, which steps the statement until it is done or      *)
(* fails with SQLITE_ERROR; each sqlite3_step is a step of the model.      *)
(*                                                                         *)
(* SQLite itself is external: a rollback-journal database with its shared, *)
(* reserved and pending locks.                                             *)
(***************************************************************************)
EXTENDS SqliteFile

VARIABLES
  phase,     \* SqliteConnection: "none", "new" (conn is null) or "open"
  active,    \* SqliteConnection.active_transaction
  calling,   \* the call in progress, and the query ExecuteQuery is stepping
  txn,       \* SQLite: a transaction was begun
  lock,      \* SQLite: the lock each connection holds
  reading,   \* SQLite: a statement of the connection is in the middle of a result
  wrote,     \* SQLite: the rows of the transaction
  file,      \* SQLite: the committed rows
  asked,     \* the rows of the Commit or Rollback in progress
  acked,     \* rows of updates and transactions the caller was told took effect
  undone     \* rows of transactions the caller was told were rolled back

engine == <<txn, lock, reading, wrote, file>>
told   == <<asked, acked, undone>>
fileVars == <<phase, active, calling, engine, told>>

NotCalling == [op |-> "none", query |-> "none"]

FileInit ==
  /\ phase = [c \in Connections |-> "none"]
  /\ active = [c \in Connections |-> FALSE]
  /\ calling = [c \in Connections |-> NotCalling]
  /\ txn = [c \in Connections |-> FALSE]
  /\ lock = [c \in Connections |-> "none"]
  /\ reading = [c \in Connections |-> FALSE]
  /\ wrote = [c \in Connections |-> {}]
  /\ file = {}
  /\ asked = [c \in Connections |-> {}]
  /\ acked = {}
  /\ undone = {}

IdleOpen(c) == phase[c] = "open" /\ calling[c] = NotCalling

-----------------------------------------------------------------------------
(* The life of a connection.                                               *)

\* SqliteConnectionNew: the struct is zeroed.
ConnectionNew(c) ==
  /\ phase[c] = "none"
  /\ phase' = [phase EXCEPT ![c] = "new"]
  /\ active' = [active EXCEPT ![c] = FALSE]
  /\ UNCHANGED <<calling, engine, told>>

\* SqliteConnectionInit: OpenDatabase (which changes nothing if it fails).
ConnectionInit(c) ==
  /\ phase[c] = "new" /\ calling[c] = NotCalling
  /\ phase' = [phase EXCEPT ![c] = "open"]
  /\ UNCHANGED <<active, calling, engine, told>>

\* SqliteConnectionRelease: sqlite3_close, which is refused while statements
\* exist and rolls back otherwise.
ConnectionRelease(c) ==
  /\ phase[c] # "none" /\ calling[c] = NotCalling /\ ~reading[c]
  /\ phase' = [phase EXCEPT ![c] = "none"]
  /\ active' = [active EXCEPT ![c] = FALSE]
  /\ txn' = [txn EXCEPT ![c] = FALSE]
  /\ lock' = [lock EXCEPT ![c] = "none"]
  /\ wrote' = [wrote EXCEPT ![c] = {}]
  /\ UNCHANGED <<calling, reading, file, told>>

-----------------------------------------------------------------------------
(* Setting autocommit, Commit and Rollback.                                *)

\* ExecuteQuery(conn, query) is entered.
Begins(c, op, query) == calling' = [calling EXCEPT ![c] = [op |-> op, query |-> query]]

\* The call returns.
Returns(c) ==
  /\ calling' = [calling EXCEPT ![c] = NotCalling]
  /\ asked' = [asked EXCEPT ![c] = {}]

\* Mutant of SetAutocommit: active_transaction is set before the query is executed.
SetFlagFirst(c, enabled) ==
  /\ phase[c] = "open" \/ (EarlyOptions /\ phase[c] = "new")
  /\ calling[c] = NotCalling
  /\ active[c] = enabled
  /\ active' = [active EXCEPT ![c] = ~enabled]
  /\ IF enabled THEN Begins(c, "enable", "COMMIT") ELSE Begins(c, "disable", "BEGIN")
  /\ asked' = [asked EXCEPT ![c] = wrote[c]]
  /\ UNCHANGED <<phase, engine, acked, undone>>

\* SqliteConnectionSetOption(autocommit): a no-op if the connection is in the
\* wanted mode already.
SetAutocommit(c, enabled) ==
  /\ phase[c] = "open" \/ (EarlyOptions /\ phase[c] = "new")
  /\ calling[c] = NotCalling
  /\ active[c] = enabled
  /\ IF enabled THEN Begins(c, "enable", "COMMIT") ELSE Begins(c, "disable", "BEGIN")
  /\ asked' = [asked EXCEPT ![c] = wrote[c]]
  /\ UNCHANGED <<phase, active, engine, acked, undone>>

\* Mutant of Commit: the query is that of Rollback.
CommitRollsBack(c) ==
  /\ IdleOpen(c) /\ active[c]
  /\ Begins(c, "commit", "ROLLBACK")
  /\ asked' = [asked EXCEPT ![c] = wrote[c]]
  /\ UNCHANGED <<phase, active, engine, acked, undone>>

\* SqliteConnectionCommit; without a transaction it is INVALID_STATE.
Commit(c) ==
  /\ IdleOpen(c) /\ active[c]
  /\ Begins(c, "commit", "COMMIT")
  /\ asked' = [asked EXCEPT ![c] = wrote[c]]
  /\ UNCHANGED <<phase, active, engine, acked, undone>>

Rollback(c) ==
  /\ IdleOpen(c) /\ active[c]
  /\ Begins(c, "rollback", "ROLLBACK")
  /\ asked' = [asked EXCEPT ![c] = wrote[c]]
  /\ UNCHANGED <<phase, active, engine, acked, undone>>

\* Another connection holds a lock.
Contended(c) == \E d \in Connections \ {c} : lock[d] # "none"

\* The lock that is left when a transaction ends: a statement that is still
\* in the middle of a result keeps the shared lock.
LockAfter(c) == IF reading[c] THEN "shared" ELSE "none"

\* What sqlite3_step of the query in progress returns: misuse for a null
\* statement, as long as there is no sqlite3*.
Result(c) ==
  IF phase[c] = "new" THEN "SQLITE_MISUSE"
  ELSE IF txn[c] = (calling[c].query = "BEGIN") THEN "SQLITE_ERROR"
  ELSE IF calling[c].query # "COMMIT" THEN "SQLITE_DONE"
  ELSE IF wrote[c] \cap Deferred # {} THEN "SQLITE_CONSTRAINT"
  ELSE IF wrote[c] # {} /\ Contended(c) THEN "SQLITE_BUSY"
  ELSE "SQLITE_DONE"

\* ExecuteQuery steps again after any result but DONE and ERROR.  A COMMIT
\* that finds the database busy keeps new readers out.
StepAgain(c) ==
  /\ calling[c] # NotCalling /\ Result(c) \notin {"SQLITE_DONE", "SQLITE_ERROR"}
  /\ lock' = [lock EXCEPT ![c] = IF Result(c) = "SQLITE_BUSY" THEN "pending" ELSE @]
  /\ UNCHANGED <<phase, active, calling, txn, reading, wrote, file, told>>

\* Mutant of StepError: the loop does not stop at SQLITE_ERROR.
StepErrorSpins(c) ==
  /\ calling[c] # NotCalling /\ Result(c) = "SQLITE_ERROR"
  /\ UNCHANGED fileVars

\* The query fails: the error is returned, and active_transaction stays.
StepError(c) ==
  /\ calling[c] # NotCalling /\ Result(c) = "SQLITE_ERROR"
  /\ Returns(c)
  /\ UNCHANGED <<phase, active, engine, acked, undone>>

\* The effect of COMMIT and of ROLLBACK in SQLite.
EndTransaction(c, rows) ==
  /\ file' = file \cup rows
  /\ txn' = [txn EXCEPT ![c] = FALSE]
  /\ wrote' = [wrote EXCEPT ![c] = {}]
  /\ lock' = [lock EXCEPT ![c] = LockAfter(c)]
  /\ UNCHANGED reading

BeginTransaction(c) ==
  /\ txn' = [txn EXCEPT ![c] = TRUE]
  /\ UNCHANGED <<lock, reading, wrote, file>>

\* Mutant of EnableDone: active_transaction is not cleared.
EnableKeepsFlag(c) ==
  /\ calling[c].op = "enable" /\ Result(c) = "SQLITE_DONE"
  /\ EndTransaction(c, wrote[c])
  /\ Returns(c)
  /\ acked' = acked \cup asked[c]
  /\ UNCHANGED <<phase, active, undone>>

\* The query is done: enabling autocommit returns with the flag cleared ...
EnableDone(c) ==
  /\ calling[c].op = "enable" /\ Result(c) = "SQLITE_DONE"
  /\ EndTransaction(c, wrote[c])
  /\ Returns(c)
  /\ active' = [active EXCEPT ![c] = FALSE]
  /\ acked' = acked \cup asked[c]
  /\ UNCHANGED <<phase, undone>>

\* ... disabling it with the flag set ...
DisableDone(c) ==
  /\ calling[c].op = "disable" /\ Result(c) = "SQLITE_DONE"
  /\ BeginTransaction(c)
  /\ Returns(c)
  /\ active' = [active EXCEPT ![c] = TRUE]
  /\ UNCHANGED <<phase, acked, undone>>

\* ... Commit goes on with BEGIN ...
CommitDone(c) ==
  /\ calling[c] = [op |-> "commit", query |-> "COMMIT"] /\ Result(c) = "SQLITE_DONE"
  /\ EndTransaction(c, wrote[c])
  /\ Begins(c, "commit", "BEGIN")
  /\ UNCHANGED <<phase, active, told>>

\* Mutant of RollbackDone: ROLLBACK is written COMMIT.
RollbackCommits(c) ==
  /\ calling[c] = [op |-> "rollback", query |-> "ROLLBACK"] /\ Result(c) = "SQLITE_DONE"
  /\ EndTransaction(c, wrote[c])
  /\ Begins(c, "rollback", "BEGIN")
  /\ UNCHANGED <<phase, active, told>>

RollbackDone(c) ==
  /\ calling[c] = [op |-> "rollback", query |-> "ROLLBACK"] /\ Result(c) = "SQLITE_DONE"
  /\ EndTransaction(c, {})
  /\ Begins(c, "rollback", "BEGIN")
  /\ UNCHANGED <<phase, active, told>>

\* ... and returns after it.
BeginDone(c) ==
  /\ calling[c].op \in {"commit", "rollback"} /\ calling[c].query = "BEGIN"
  /\ Result(c) = "SQLITE_DONE"
  /\ BeginTransaction(c)
  /\ Returns(c)
  /\ IF calling[c].op = "commit"
       THEN acked' = acked \cup asked[c] /\ UNCHANGED undone
       ELSE undone' = undone \cup asked[c] /\ UNCHANGED acked
  /\ UNCHANGED <<phase, active>>

-----------------------------------------------------------------------------
(* Statements of the connection, as SQLite sees them.                      *)

Locked(c, locks) == \E d \in Connections \ {c} : lock[d] \in locks

\* An update in a transaction takes the reserved lock; the caller is told it
\* failed if another connection has it.
UpdateInTransaction(c, r) ==
  /\ IdleOpen(c) /\ txn[c]
  /\ ~Locked(c, {"reserved", "pending"})
  /\ lock' = [lock EXCEPT ![c] = "reserved"]
  /\ wrote' = [wrote EXCEPT ![c] = @ \cup {r}]
  /\ UNCHANGED <<phase, active, calling, txn, reading, file, told>>

\* An update outside of a transaction is committed when its statement ends.
UpdateAlone(c, r) ==
  /\ IdleOpen(c) /\ ~txn[c]
  /\ ~Contended(c) /\ r \notin Deferred
  /\ file' = file \cup {r}
  /\ acked' = IF active[c] THEN acked ELSE acked \cup {r}
  /\ UNCHANGED <<phase, active, calling, txn, lock, reading, wrote, asked, undone>>

\* An update fails with an error after which SQLite has rolled the whole
\* transaction back (a full disk, an I/O error, an interrupt).
UpdateRollsBack(c) ==
  /\ AutoRollbacks
  /\ IdleOpen(c) /\ txn[c]
  /\ EndTransaction(c, {})
  /\ UNCHANGED <<phase, active, calling, told>>

\* A query that has not delivered all of its rows holds the shared lock, and
\* in a transaction so does one that has.
ReadStart(c) ==
  /\ IdleOpen(c) /\ ~reading[c]
  /\ ~Locked(c, {"pending"})
  /\ reading' = [reading EXCEPT ![c] = TRUE]
  /\ lock' = [lock EXCEPT ![c] = IF @ = "none" THEN "shared" ELSE @]
  /\ UNCHANGED <<phase, active, calling, txn, wrote, file, told>>

ReadEnd(c) ==
  /\ IdleOpen(c) /\ reading[c]
  /\ reading' = [reading EXCEPT ![c] = FALSE]
  /\ lock' = [lock EXCEPT ![c] = IF txn[c] THEN @ ELSE "none"]
  /\ UNCHANGED <<phase, active, calling, txn, wrote, file, told>>

-----------------------------------------------------------------------------
Query(c) ==
  \/ StepAgain(c) \/ StepError(c)
  \/ EnableDone(c) \/ DisableDone(c)
  \/ CommitDone(c) \/ RollbackDone(c) \/ BeginDone(c)

\* A row is written once.
Fresh(r) == r \notin file \cup undone \cup UNION {wrote[c] \cup asked[c] : c \in Connections}

FileNext ==
  \E c \in Connections :
    \/ ConnectionNew(c) \/ ConnectionInit(c) \/ ConnectionRelease(c)
    \/ \E enabled \in BOOLEAN : SetAutocommit(c, enabled)
    \/ Commit(c) \/ Rollback(c) \/ Query(c)
    \/ \E r \in Rows : Fresh(r) /\ (UpdateInTransaction(c, r) \/ UpdateAlone(c, r))
    \/ UpdateRollsBack(c) \/ ReadStart(c) \/ ReadEnd(c)

FileSpec == FileInit /\ [][FileNext]_fileVars

\* A thread that is in a call keeps running.  Callers read a result to its
\* end, whatever other calls they make before, and end a transaction in which
\* they hold a lock.
Fairness ==
  \A c \in Connections :
    /\ WF_fileVars(Query(c))
    /\ SF_fileVars(ReadEnd(c))
    /\ WF_fileVars(lock[c] # "none" /\ Rollback(c))

FileFairSpec == FileSpec /\ Fairness

-----------------------------------------------------------------------------
(* Properties.                                                             *)

Locks == {"none", "shared", "reserved", "pending"}

\* The calls, and the queries that each of them executes.
Calls ==
  {NotCalling}
    \cup [op : {"enable"}, query : {"COMMIT"}]
    \cup [op : {"disable"}, query : {"BEGIN"}]
    \cup [op : {"commit"}, query : {"COMMIT", "BEGIN"}]
    \cup [op : {"rollback"}, query : {"ROLLBACK", "BEGIN"}]

\* The fields of SqliteConnection; a call in progress executes one of the
\* queries that SetOption, Commit and Rollback are made of.
FileTypeOK ==
  /\ phase \in [Connections -> {"none", "new", "open"}]
  /\ active \in [Connections -> BOOLEAN]
  /\ calling \in [Connections -> Calls]
  /\ txn \in [Connections -> BOOLEAN]
  /\ lock \in [Connections -> Locks]
  /\ reading \in [Connections -> BOOLEAN]
  /\ wrote \in [Connections -> SUBSET Rows]
  /\ file \subseteq Rows
  /\ asked \in [Connections -> SUBSET Rows]
  /\ acked \subseteq Rows /\ undone \subseteq Rows

\* Whenever no call is in progress, active_transaction says whether SQLite is
\* in a transaction: Commit and Rollback have begun the next one, and setting
\* autocommit changed both or neither.
FlagAgrees == \A c \in Connections : calling[c] = NotCalling => (active[c] <=> txn[c])

\* What Commit, enabling autocommit or an update in autocommit mode reported
\* as done is in the database, and what Rollback reported as undone is not.
ReportsAreTrue == acked \subseteq file /\ undone \cap file = {}

Contract == INSTANCE Transactions
              WITH manual <- {c \in Connections : active[c]}, pending <- wrote, durable <- file

\* The connections implement ADBC's transactions: with autocommit disabled no
\* update takes effect before a commit, and otherwise each does at once.
TransactionContract == Contract!Spec
=============================================================================
