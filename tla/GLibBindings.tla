---------------------------- MODULE GLibBindings ----------------------------
(***************************************************************************)
(* The GLib bindings, src/glib/adbc-glib, on top of the driver manager:    *)
(* GADBCDatabase, GADBCConnection and GADBCStatement, reference-counted    *)
(* objects that release their handle when the last reference goes.         *)
(*                                                                         *)
(* A program holds at most one reference to an object and gives references *)
(* up in any order, as garbage-collected languages do on top of GObject.   *)
(* It calls gadbc_..._release only when nothing made from the object is in *)
(* use, and makes statements of initialized connections only.  Drivers set *)
(* an AdbcError whenever they fail, and do not fail to release.            *)
(***************************************************************************)
EXTENDS DriverManager

VARIABLES
  refs,         \* the reference count of each object, 0 if there is none
  program,      \* the objects that the program has a reference to
  initialized,  \* the objects with priv->initialized
  parent,       \* priv->database and priv->connection
  disposing,    \* the object whose last reference has gone
  crashed       \* a null function was called, or a handle released too early

gVars == <<refs, program, initialized, parent, disposing, crashed>>

TheDatabase == "database"
GObjects    == {TheDatabase} \cup Connections \cup Statements
None        == "NULL"

\* Different objects have different names, and no object is null.
ASSUME GObjectsAssumption ==
  /\ TheDatabase \notin Connections \cup Statements
  /\ Connections \cap Statements = {}
  /\ None \notin GObjects /\ NoConnection \notin Connections

GStart ==
  /\ refs = [x \in GObjects |-> 0]
  /\ program = {} /\ initialized = {}
  /\ parent = [x \in GObjects |-> None]
  /\ disposing = None
  /\ crashed = FALSE

GInit == Init /\ GStart

\* gadbc_..._get_raw of an object that the program has.
Raw(x) == disposing = None /\ x \in program /\ x \in initialized

\* gadbc_error_check and gadbc_error_warn call error->release of the AdbcError
\* of a call that failed, which is null if the call has not set the error.
ErrorCheck(bare) == crashed' = (crashed \/ bare)

\* g_object_new and the New function of the manager, which cannot fail.
GNew(x) ==
  /\ disposing = None /\ refs[x] = 0
  /\ refs' = [refs EXCEPT ![x] = 1]
  /\ program' = program \cup {x}
  /\ initialized' = initialized \cup {x}
  /\ UNCHANGED <<parent, disposing, crashed>>

-----------------------------------------------------------------------------
gadbc_database_new == DatabaseNew /\ GNew(TheDatabase)

gadbc_database_set_option ==
  /\ Raw(TheDatabase)
  /\ \/ DatabaseStoreDriver
     \/ \E k \in Keys, v \in Values : DatabaseStoreOption(k, v) \/ DatabaseForwardOption(k, v)
  /\ UNCHANGED gVars

\* The manager and the drivers set the error of an Init that fails.
gadbc_database_init ==
  /\ Raw(TheDatabase)
  /\ \/ DatabaseInitNotLoaded \/ DatabaseInitNewFails \/ DatabaseInitOptionFails
     \/ \E t \in Tables : DatabaseInitDone(t)
  /\ UNCHANGED gVars

\* AdbcDatabaseRelease has nothing to release: ADBC_STATUS_INVALID_STATE, and
\* no error is set.
NothingInDatabase == db.data = Null /\ db.driver = Null

\* Mutant of gadbc_database_release: priv->initialized stays.
gadbc_database_release_keeps ==
  /\ Raw(TheDatabase) /\ Unused
  /\ DatabaseReleaseTemp \/ DatabaseReleaseDriver
  /\ ErrorCheck(NothingInDatabase)
  /\ UNCHANGED <<refs, program, initialized, parent, disposing>>

\* The object is not initialized any more once it was released.
gadbc_database_release ==
  /\ Raw(TheDatabase) /\ Unused
  /\ DatabaseReleaseTemp \/ DatabaseReleaseDriver
  /\ ErrorCheck(NothingInDatabase)
  /\ initialized' = IF NothingInDatabase THEN initialized ELSE initialized \ {TheDatabase}
  /\ UNCHANGED <<refs, program, parent, disposing>>

-----------------------------------------------------------------------------
gadbc_connection_new(c) == ConnectionNew(c) /\ GNew(c)

gadbc_connection_set_option(c) ==
  /\ Raw(c)
  /\ \E k \in Keys, v \in Values : ConnectionStoreOption(c, k, v) \/ ConnectionForwardOption(c, k, v)
  /\ UNCHANGED gVars

\* The connection takes a reference to the database if Init succeeds.
gadbc_connection_init(c) ==
  /\ Raw(c) /\ Raw(TheDatabase)
  /\ ConnectionInitNewFails(c) \/ ConnectionInitDone(c)
  /\ IF cn'[c].phase = "open"
     THEN /\ parent' = [parent EXCEPT ![c] = TheDatabase]
          /\ refs' = [refs EXCEPT ![TheDatabase] = @ + 1]
     ELSE UNCHANGED <<parent, refs>>
  /\ UNCHANGED <<program, initialized, disposing, crashed>>

NothingInConnection(c) == cn[c].data = Null /\ cn[c].driver = Null

gadbc_connection_release(c) ==
  /\ Raw(c) /\ \A s \in Statements : st[s].of # c
  /\ ConnectionReleaseTemp(c) \/ ConnectionReleaseDriver(c)
  /\ ErrorCheck(NothingInConnection(c))
  /\ initialized' = IF cn'[c].data = Null /\ ~NothingInConnection(c)
                    THEN initialized \ {c} ELSE initialized
  /\ UNCHANGED <<refs, program, parent, disposing>>

-----------------------------------------------------------------------------
\* The statement takes a reference to its connection, or is given up.
gadbc_statement_new(c, s) ==
  /\ Raw(c) /\ refs[s] = 0 /\ cn[c].phase = "open"
  /\ \/ /\ StatementNew(c, s) /\ st'[s].phase = "open"
        /\ refs' = [refs EXCEPT ![s] = 1, ![c] = @ + 1]
        /\ program' = program \cup {s}
        /\ initialized' = initialized \cup {s}
        /\ parent' = [parent EXCEPT ![s] = c]
     \/ MayFail("StatementNew") /\ UNCHANGED <<vars, refs, program, initialized, parent>>
  /\ UNCHANGED <<disposing, crashed>>

\* gadbc_statement_set_sql_query and gadbc_statement_execute.
gadbc_statement_call(s) ==
  /\ Raw(s)
  /\ \E f \in {"StatementSetSqlQuery", "StatementExecuteQuery"} : StatementCall(s, f)
  /\ UNCHANGED gVars

gadbc_statement_release(s) ==
  /\ Raw(s)
  /\ StatementRelease(s)
  /\ initialized' = IF st'[s] = NoStatement THEN initialized \ {s} ELSE initialized
  /\ UNCHANGED <<refs, program, parent, disposing, crashed>>

-----------------------------------------------------------------------------
(* The last reference.  g_object_unref disposes of the object, which gives *)
(* up its reference to its parent, and so on; the program waits.           *)

\* One reference to x less, among those that already changed.
GiveUp(x) ==
  /\ refs' = IF x = None THEN refs ELSE [refs EXCEPT ![x] = @ - 1]
  /\ disposing' = IF x # None /\ refs[x] = 1 THEN x ELSE None

Unref(x) ==
  /\ disposing = None /\ x \in program
  /\ program' = program \ {x}
  /\ GiveUp(x)
  /\ UNCHANGED <<vars, initialized, parent, crashed>>

\* What dispose and finalize do after the release.
Disposed(x) ==
  /\ initialized' = initialized \ {x}
  /\ parent' = [parent EXCEPT ![x] = None]
  /\ GiveUp(parent[x])
  /\ UNCHANGED program

gadbc_statement_dispose(s) ==
  /\ disposing = s
  /\ IF s \in initialized THEN StatementRelease(s) ELSE UNCHANGED vars
  /\ Disposed(s) /\ UNCHANGED crashed

\* A handle whose Init failed in the driver's ConnectionNew has nothing to
\* release.
gadbc_connection_dispose(c) ==
  /\ disposing = c
  /\ LET used == \E s \in Statements : st[s].of = c IN
       IF c \in initialized /\ ~used
       THEN /\ ConnectionReleaseTemp(c) \/ ConnectionReleaseDriver(c)
            /\ ErrorCheck(NothingInConnection(c))
       ELSE UNCHANGED vars /\ crashed' = (crashed \/ c \in initialized)
  /\ Disposed(c)

\* Nor has a handle whose Init failed in the driver's DatabaseNew or
\* DatabaseSetOption.
gadbc_database_finalize ==
  /\ disposing = TheDatabase
  /\ IF TheDatabase \in initialized /\ Unused
     THEN /\ DatabaseReleaseTemp \/ DatabaseReleaseDriver
          /\ ErrorCheck(NothingInDatabase)
     ELSE UNCHANGED vars /\ crashed' = (crashed \/ TheDatabase \in initialized)
  /\ Disposed(TheDatabase)

\* set_option and init of an object whose init went to the driver before.
gadbc_faults ==
  /\ \/ /\ Raw(TheDatabase)
        /\ \E f \in {"DatabaseSetOption", "DatabaseInit"} : DatabaseFault(f)
     \/ \E c \in Connections :
          /\ Raw(c) /\ Raw(TheDatabase)
          /\ \E f \in {"ConnectionSetOption", "ConnectionInit"} : ConnectionFault(c, f)
  /\ UNCHANGED gVars

GNext ==
  /\ fault = NoCall /\ ~crashed
  /\ \/ gadbc_database_new \/ gadbc_database_set_option \/ gadbc_database_init
     \/ gadbc_database_release \/ gadbc_database_finalize
     \/ \E c \in Connections :
          \/ gadbc_connection_new(c) \/ gadbc_connection_set_option(c) \/ gadbc_connection_init(c)
          \/ gadbc_connection_release(c) \/ gadbc_connection_dispose(c)
     \/ \E s \in Statements :
          \/ \E c \in Connections : gadbc_statement_new(c, s)
          \/ gadbc_statement_call(s) \/ gadbc_statement_release(s) \/ gadbc_statement_dispose(s)
     \/ \E x \in GObjects : Unref(x)
     \/ gadbc_faults

GSpec == GInit /\ [][GNext]_<<vars, gVars>>

-----------------------------------------------------------------------------
(* Properties.                                                             *)

\* "If this database is freed by g_object_unref(), this database is released
\* automatically", and likewise connections and statements: in whatever order
\* a program gives its references up, a handle is released only when nothing
\* uses its driver any more, and no error is reported that was never set.
UnrefIsSafe == ~crashed
=============================================================================
