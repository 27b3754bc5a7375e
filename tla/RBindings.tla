----------------------------- MODULE RBindings -----------------------------
(***************************************************************************)
(* The R package adbcdrivermanager on top of the driver manager:           *)
(* src/r/adbcdrivermanager/src/radbc.cc with the wrappers of R/adbc.R, and *)
(* the package's own driver, src/driver_monkey.c.                          *)
(*                                                                         *)
(* A handle lives in an external pointer whose finalizer releases it.  The *)
(* environment in its tag and its protected value keep other pointers      *)
(* alive.  A collection finalizes all pointers that R can no longer reach, *)
(* the one registered last first; it is external.  Programs release things *)
(* explicitly only when nothing made from them is left; the order in which *)
(* they drop them is theirs.  Drivers do not fail to release, nor to make  *)
(* a database or a statement.                                              *)
(***************************************************************************)
EXTENDS DriverManager

CONSTANT Streams     \* the ArrowArrayStreams that programs bind

VARIABLES
  made,    \* the external pointers with a finalizer
  older,   \* those that were there when a pointer was registered, and still are
  held,    \* those that R variables refer to
  tag,     \* the pointer in a pointer's environment
  prot,    \* its protected value
  doomed,  \* what the current collection still has to finalize
  early,   \* a finalizer ran before that of something made from its handle
  owners   \* those who will release a stream

rVars == <<made, older, held, tag, prot, doomed, early, owners>>

\* MonkeyDriverInitFunc and VoidDriverInitFunc: the functions they set.
MonkeyDriver == Functions \ {"StatementSetSubstraitPlan"}
VoidDriver   == Functions \ {"StatementSetSubstraitPlan"}

Database == "database"
Xptrs    == {Database} \cup Connections \cup Statements
Nil      == "NULL"

\* Different pointers have different names, and none is null.
ASSUME XptrsAssumption ==
  /\ Database \notin Connections \cup Statements
  /\ Connections \cap Statements = {}
  /\ Nil \notin Xptrs /\ NoConnection \notin Connections /\ "program" \notin Statements

RStart ==
  /\ made = {} /\ held = {} /\ doomed = {}
  /\ older = [x \in Xptrs |-> {}]
  /\ tag = [x \in Xptrs |-> Nil]
  /\ prot = [x \in Xptrs |-> Nil]
  /\ early = FALSE
  /\ owners = [a \in Streams |-> {"program"}]

RInit == Init /\ RStart

\* R runs no other code while finalizers are pending, and adbc_from_xptr
\* turns a pointer that a program holds into the handle.
Uses(x) == doomed = {} /\ x \in held

\* adbc_allocate_xptr and R_RegisterCFinalizer.
Allocate(x) ==
  /\ x \notin made /\ doomed = {}
  /\ made' = made \cup {x}
  /\ older' = [older EXCEPT ![x] = made]

-----------------------------------------------------------------------------
(* Databases.                                                              *)

\* RAdbcDatabaseNew with the name of a driver to come, or with an
\* initialization function that is set at once.
RAdbcDatabaseNew ==
  /\ Allocate(Database)
  /\ db.phase = "none"
  /\ gen' = 1 - gen
  /\ db' = [data |-> TempDatabase(1 - gen), driver |-> Null, phase |-> "new"]
  /\ heap' = heap \cup {TempDatabase(1 - gen)}
  /\ \E f \in BOOLEAN : args' = [NoArgs EXCEPT !.initFunc = f]
  /\ asked' = NoOpts /\ drvOpts' = NoOpts
  /\ held' = held \cup {Database}
  /\ UNCHANGED <<table, manager, cnVars, st, fault, tag, prot, doomed, early, owners>>

RAdbcDatabaseSetOption ==
  /\ Uses(Database)
  /\ \/ DatabaseStoreDriver
     \/ \E k \in Keys, v \in Values : DatabaseStoreOption(k, v) \/ DatabaseForwardOption(k, v)
  /\ UNCHANGED rVars

\* After RAdbcDatabaseRelease, or an Init that failed in the driver, there is
\* nothing that could take an option.
RAdbcDatabaseSetOptionFaults ==
  /\ Uses(Database)
  /\ DatabaseFault("DatabaseSetOption")
  /\ UNCHANGED rVars

RAdbcDatabaseInit ==
  /\ Uses(Database)
  /\ \/ DatabaseInitNotLoaded \/ DatabaseInitOptionFails
     \/ \E t \in {MonkeyDriver, VoidDriver} : DatabaseInitDone(t)
  /\ UNCHANGED rVars

RAdbcDatabaseRelease ==
  /\ Uses(Database)
  /\ DatabaseReleaseTemp \/ DatabaseReleaseDriver
  /\ tag' = [tag EXCEPT ![Database] = Nil]
  /\ UNCHANGED <<made, older, held, prot, doomed, early, owners>>

-----------------------------------------------------------------------------
(* Connections.                                                            *)

\* RAdbcConnectionNew, and "connection$database <- database".
RAdbcConnectionNew(c) ==
  /\ Uses(Database) /\ Allocate(c)
  /\ ConnectionNew(c)
  /\ held' = held \cup {c}
  /\ tag' = [tag EXCEPT ![c] = Database]
  /\ UNCHANGED <<prot, doomed, early, owners>>

\* RAdbcConnectionInit protects the database when it succeeds; otherwise
\* adbc_connection_init stops and its connection is lost.
RAdbcConnectionInit(c) ==
  /\ Uses(c) /\ Uses(Database)
  /\ ConnectionInitNewFails(c) \/ ConnectionInitDone(c)
  /\ IF cn'[c].phase = "open"
     THEN prot' = [prot EXCEPT ![c] = Database] /\ UNCHANGED held
     ELSE held' = held \ {c} /\ UNCHANGED prot
  /\ UNCHANGED <<made, older, tag, doomed, early, owners>>

RAdbcConnectionSetOption(c) ==
  /\ Uses(c)
  /\ \E k \in Keys, v \in Values : ConnectionStoreOption(c, k, v) \/ ConnectionForwardOption(c, k, v)
  /\ UNCHANGED rVars

\* RAdbcConnectionGetInfo and the others.  RAdbcConnectionRollback calls
\* AdbcConnectionCommit.
RAdbcConnectionCall(c) ==
  /\ Uses(c)
  /\ \E f \in ConnectionCalls \ {"ConnectionRollback"} : ConnectionCall(c, f)
  /\ UNCHANGED rVars

RAdbcConnectionRelease(c) ==
  /\ Uses(c)
  /\ ConnectionReleaseTemp(c) \/ ConnectionReleaseDriver(c)
  /\ prot' = [prot EXCEPT ![c] = Nil]
  /\ UNCHANGED <<made, older, held, tag, doomed, early, owners>>

-----------------------------------------------------------------------------
(* Statements, and the stream that the monkey driver keeps for each.       *)

\* The streams that StatementRelease releases.
Bound(s) == {a \in Streams : s \in owners[a]}
ReleaseStreams(s) == owners' = [a \in Streams |-> IF a \in Bound(s) THEN {} ELSE owners[a]]

\* RAdbcStatementNew: the connection shelters the pointer.
RAdbcStatementNew(c, s) ==
  /\ Uses(c) /\ Allocate(s)
  /\ StatementNew(c, s)
  /\ held' = held \cup {s}
  /\ tag' = [tag EXCEPT ![s] = c]
  /\ prot' = [prot EXCEPT ![s] = c]
  /\ UNCHANGED <<doomed, early, owners>>

\* RAdbcStatementBindStream to MonkeyStatementBindStream: an earlier stream
\* is released, and this one moved.
RAdbcStatementBindStream(s, a) ==
  /\ Uses(s) /\ owners[a] = {"program"} /\ st[s].data # Null
  /\ StatementCall(s, "StatementBindStream")
  /\ owners' = [b \in Streams |-> CASE b = a -> {s}
                                    [] b \in Bound(s) -> {}
                                    [] OTHER -> owners[b]]
  /\ UNCHANGED <<made, older, held, tag, prot, doomed, early>>

\* Mutant of RAdbcStatementExecuteQuery: the stream is copied, not moved.
RAdbcStatementExecuteCopies(s) ==
  /\ Uses(s)
  /\ StatementCall(s, "StatementExecuteQuery")
  /\ owners' = [a \in Streams |-> IF a \in Bound(s) THEN {s, "program"} ELSE owners[a]]
  /\ UNCHANGED <<made, older, held, tag, prot, doomed, early>>

\* RAdbcStatementExecuteQuery to MonkeyStatementExecuteQuery: the stream is
\* moved to the program; without one it gets a released stream and no error.
RAdbcStatementExecuteQuery(s) ==
  /\ Uses(s)
  /\ StatementCall(s, "StatementExecuteQuery")
  /\ owners' = [a \in Streams |-> IF a \in Bound(s) THEN {"program"} ELSE owners[a]]
  /\ UNCHANGED <<made, older, held, tag, prot, doomed, early>>

\* RAdbcStatementSetSqlQuery and the others, and all of them with the void
\* driver, which refuses or ignores them.  RAdbcStatementExecutePartitions
\* does not call the driver.
RAdbcStatementCall(s) ==
  /\ Uses(s)
  /\ \E f \in StatementCalls \ {"StatementExecutePartitions"} : StatementCall(s, f)
  /\ UNCHANGED rVars

RAdbcStatementRelease(s) ==
  /\ Uses(s)
  /\ StatementRelease(s)
  /\ ReleaseStreams(s)
  /\ prot' = [prot EXCEPT ![s] = Nil]
  /\ UNCHANGED <<made, older, held, tag, doomed, early>>

-----------------------------------------------------------------------------
(* Garbage collection.                                                     *)

Drop(x) ==
  /\ Uses(x)
  /\ held' = held \ {x}
  /\ UNCHANGED <<vars, made, older, tag, prot, doomed, early, owners>>

\* Mutant of Refs: a connection does not keep its database.
RefsOfStatements(x) == IF x \in Statements THEN {tag[x], prot[x]} \ {Nil} ELSE {}

\* What a pointer keeps alive.
Refs(x) == {tag[x], prot[x]} \ {Nil}

Reached ==
  LET step(xs) == xs \cup UNION {Refs(x) : x \in xs} IN step(step(held))

Collect ==
  /\ doomed = {}
  /\ doomed' = made \ Reached
  /\ doomed' # {}
  /\ UNCHANGED <<vars, made, older, held, tag, prot, early, owners>>

\* x is the one registered last of those to finalize.
LastOfDoomed(x) == x \in doomed /\ doomed \subseteq older[x] \cup {x}

\* A finalizer has run: the handle and the pointer are gone.
Finalized(x) ==
  /\ doomed' = doomed \ {x}
  /\ made' = made \ {x}
  /\ older' = [y \in Xptrs |-> IF y = x THEN {} ELSE older[y] \ {x}]
  /\ tag' = [tag EXCEPT ![x] = Nil]
  /\ prot' = [prot EXCEPT ![x] = Nil]
  /\ UNCHANGED held

\* finalize_database_xptr: a handle whose private_data is null is only freed.
FinalizeDatabase ==
  /\ LastOfDoomed(Database)
  /\ early' = (early \/ ~Unused)
  /\ IF db.data # Null /\ Unused
     THEN DatabaseReleaseTemp \/ DatabaseReleaseDriver
     ELSE db' = Zeroed /\ UNCHANGED <<heap, gen, args, table, manager, drvOpts, asked, cnVars, st, fault>>
  /\ Finalized(Database) /\ UNCHANGED owners

\* finalize_connection_xptr.
FinalizeConnection(c) ==
  /\ LastOfDoomed(c)
  /\ LET used == \E s \in Statements : st[s].of = c IN
       /\ early' = (early \/ used)
       /\ IF cn[c].data # Null /\ ~used
          THEN ConnectionReleaseTemp(c) \/ ConnectionReleaseDriver(c)
          ELSE cn' = [cn EXCEPT ![c] = Zeroed]
               /\ UNCHANGED <<heap, dbVars, cnArgs, cnOpts, cnAsked, st, fault>>
  /\ Finalized(c) /\ UNCHANGED owners

\* finalize_statement_xptr, to MonkeyStatementRelease.
FinalizeStatement(s) ==
  /\ LastOfDoomed(s)
  /\ IF st[s].data # Null
     THEN StatementRelease(s) /\ ReleaseStreams(s)
     ELSE st' = [st EXCEPT ![s] = NoStatement]
          /\ UNCHANGED <<heap, dbVars, cnVars, fault, owners>>
  /\ Finalized(s) /\ UNCHANGED early

RNext ==
  /\ fault = NoCall /\ ~early
  /\ \/ RAdbcDatabaseNew \/ RAdbcDatabaseSetOption \/ RAdbcDatabaseInit \/ RAdbcDatabaseRelease
     \/ RAdbcDatabaseSetOptionFaults
     \/ \E c \in Connections :
          \/ RAdbcConnectionNew(c) \/ RAdbcConnectionInit(c) \/ RAdbcConnectionSetOption(c)
          \/ RAdbcConnectionCall(c) \/ RAdbcConnectionRelease(c) \/ FinalizeConnection(c)
     \/ \E s \in Statements :
          \/ \E c \in Connections : RAdbcStatementNew(c, s)
          \/ \E a \in Streams : RAdbcStatementBindStream(s, a)
          \/ RAdbcStatementExecuteQuery(s) \/ RAdbcStatementCall(s)
          \/ RAdbcStatementRelease(s) \/ FinalizeStatement(s)
     \/ \E x \in Xptrs : Drop(x)
     \/ Collect \/ FinalizeDatabase

RSpec == RInit /\ [][RNext]_<<vars, rVars>>

-----------------------------------------------------------------------------
(* Properties.                                                             *)

\* In whatever order a program drops its objects, the finalizers release a
\* statement before its connection and a connection before its database,
\* also those whose Init failed: releasing a database frees the driver that
\* the others still call.
FinalizersInOrder == ~early

\* A stream that was bound has one owner, an open statement or the program,
\* until it is released, and a statement owns one stream.
StreamsHaveOneOwner ==
  /\ \A a \in Streams : \A o, p \in owners[a] : o = p
  /\ \A a \in Streams : \A s \in owners[a] \cap Statements :
       st[s].data # Null /\ \A b \in Bound(s) : a = b
=============================================================================
