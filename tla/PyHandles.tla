----------------------------- MODULE PyHandles -----------------------------
(***************************************************************************)
(* Handles of the Python bindings that share a database:                   *)
(* src/python/adbc_driver_manager/adbc_driver_manager, the DB-API layer    *)
(* (dbapi.py) on the counted handles of _lib.pyx.                          *)
(*                                                                         *)
(* Each connection is used by a thread of its own (threadsafety = 1); what *)
(* they share, _SharedDatabase and AdbcDatabase, has a lock each, held for *)
(* one step of the model.  Callers use no connection that they closed, but *)
(* may close it again, and close a cursor once.  Calls that fail without   *)
(* an effect are left out.                                                 *)
(***************************************************************************)
EXTENDS Integers

CONSTANTS
  PyConnections,
  Cursors,
  MaxCloses        \* bound: how often a connection is closed

VARIABLES
  database,  \* the AdbcDatabase: "none", "open" or "released"
  children,  \* AdbcDatabase._open_children
  count,     \* _SharedDatabase._refcount
  handle,    \* the CAdbcConnection of each connection: "none", "live", "released"
  pc,        \* what the thread of each connection is doing
  maker,     \* who makes a connection: another that is cloned, or connect()
  cursor,    \* the connection of each open cursor
  closes     \* how often each connection was closed

pyVars == <<database, children, count, handle, pc, maker, cursor, closes>>

Nobody == "nobody"
Module == "connect"

PyInit ==
  /\ database = "none" /\ children = 0 /\ count = 0
  /\ handle = [c \in PyConnections |-> "none"]
  /\ pc = [c \in PyConnections |-> "none"]
  /\ maker = [c \in PyConnections |-> Nobody]
  /\ cursor = [x \in Cursors |-> Nobody]
  /\ closes = [c \in PyConnections |-> 0]

\* A thread may call a method of c.
Idle(c) == pc[c] = "idle" /\ \A d \in PyConnections : maker[d] # c

At(c, here, there) == pc[c] = here /\ pc' = [pc EXCEPT ![c] = there]

-----------------------------------------------------------------------------
(* connect() and Connection.adbc_clone.                                    *)

\* connect() makes an AdbcDatabase and an AdbcConnection.
Connect(c) ==
  /\ database = "none" /\ database' = "open"
  /\ At(c, "none", "made")
  /\ handle' = [handle EXCEPT ![c] = "live"]
  /\ maker' = [maker EXCEPT ![c] = Module]
  /\ UNCHANGED <<children, count, cursor, closes>>

\* adbc_clone of d makes an AdbcConnection to the database of d.
Clone(d, c) ==
  /\ Idle(d)
  /\ At(c, "none", "made")
  /\ handle' = [handle EXCEPT ![c] = "live"]
  /\ maker' = [maker EXCEPT ![c] = d]
  /\ UNCHANGED <<database, children, count, cursor, closes>>

\* ... which counts itself at the end of its __init__.
OpenChild(c) ==
  /\ At(c, "made", "counted")
  /\ children' = children + 1
  /\ UNCHANGED <<database, count, handle, maker, cursor, closes>>

\* Mutant of Share: a clone does not count.
ShareUncounted(c) ==
  /\ At(c, "counted", "shared")
  /\ count' = IF maker[c] = Module THEN 1 ELSE count
  /\ UNCHANGED <<database, children, handle, maker, cursor, closes>>

\* Connection.__init__ makes or clones the _SharedDatabase ...
Share(c) ==
  /\ At(c, "counted", "shared")
  /\ count' = IF maker[c] = Module THEN 1 ELSE count + 1
  /\ UNCHANGED <<database, children, handle, maker, cursor, closes>>

\* ... and disables autocommit, or finds that it cannot.
AutocommitOff(c) ==
  /\ At(c, "shared", "idle")
  /\ maker' = [maker EXCEPT ![c] = Nobody]
  /\ UNCHANGED <<database, children, count, handle, cursor, closes>>

\* It raises an error: connect() closes the connection and the database, but
\* adbc_clone leaves everything as it is, and its caller has no Connection.
AutocommitFails(c) ==
  /\ At(c, "shared", "lost")
  /\ maker' = [maker EXCEPT ![c] = Nobody]
  /\ IF maker[c] = Module
     THEN /\ handle' = [handle EXCEPT ![c] = "released"]
          /\ children' = children - 1
          /\ database' = "released"
     ELSE UNCHANGED <<handle, children, database>>
  /\ UNCHANGED <<count, cursor, closes>>

-----------------------------------------------------------------------------
(* Cursors.                                                                *)

OpenCursor(c, x) ==
  /\ Idle(c) /\ cursor[x] = Nobody
  /\ cursor' = [cursor EXCEPT ![x] = c]
  /\ UNCHANGED <<database, children, count, handle, pc, maker, closes>>

CloseCursor(x) ==
  /\ cursor[x] # Nobody /\ Idle(cursor[x])
  /\ cursor' = [cursor EXCEPT ![x] = Nobody]
  /\ UNCHANGED <<database, children, count, handle, pc, maker, closes>>

-----------------------------------------------------------------------------
(* Connection.close: AdbcConnection.close, then _SharedDatabase.close.     *)

\* _check_open_children of the connection.
Close(c) ==
  /\ Idle(c) \/ pc[c] = "closed"
  /\ closes[c] < MaxCloses
  /\ \A x \in Cursors : cursor[x] # c
  /\ pc' = [pc EXCEPT ![c] = "release"]
  /\ closes' = [closes EXCEPT ![c] = @ + 1]
  /\ UNCHANGED <<database, children, count, handle, maker, cursor>>

\* AdbcConnectionRelease, unless private_data is null.
ReleaseConnection(c) ==
  /\ At(c, "release", IF handle[c] = "live" THEN "closeChild" ELSE "dec")
  /\ handle' = [handle EXCEPT ![c] = "released"]
  /\ UNCHANGED <<database, children, count, maker, cursor, closes>>

CloseChild(c) ==
  /\ At(c, "closeChild", "dec")
  /\ children # 0 /\ children' = children - 1
  /\ UNCHANGED <<database, count, handle, maker, cursor, closes>>

\* _SharedDatabase._dec.
Dec(c) ==
  /\ At(c, "dec", IF count = 1 THEN "check" ELSE "closed")
  /\ count' = count - 1
  /\ UNCHANGED <<database, children, handle, maker, cursor, closes>>

\* Mutant of CheckOpenChildren: the database is closed in any case.
CheckNothing(c) ==
  /\ At(c, "check", "releaseDatabase")
  /\ UNCHANGED <<database, children, count, handle, maker, cursor, closes>>

\* AdbcDatabase.close raises an error if it has children ...
CheckOpenChildren(c) ==
  /\ At(c, "check", IF children = 0 THEN "releaseDatabase" ELSE "closed")
  /\ UNCHANGED <<database, children, count, handle, maker, cursor, closes>>

\* ... lets go of the lock, takes it again and releases the handle.
ReleaseDatabase(c) ==
  /\ At(c, "releaseDatabase", "closed")
  /\ database' = "released"
  /\ UNCHANGED <<children, count, handle, maker, cursor, closes>>

\* The program has closed all it had and starts again.
Forget ==
  /\ \A c \in PyConnections : pc[c] \in {"none", "lost", "closed"}
  /\ database' = "none" /\ children' = 0 /\ count' = 0
  /\ handle' = [c \in PyConnections |-> "none"]
  /\ pc' = [c \in PyConnections |-> "none"]
  /\ closes' = [c \in PyConnections |-> 0]
  /\ UNCHANGED <<maker, cursor>>

PyStep(c) ==
  \/ Connect(c) \/ (\E d \in PyConnections : Clone(d, c))
  \/ OpenChild(c) \/ Share(c) \/ AutocommitOff(c) \/ AutocommitFails(c)
  \/ \E x \in Cursors : OpenCursor(c, x)
  \/ Close(c) \/ ReleaseConnection(c) \/ CloseChild(c)
  \/ Dec(c) \/ CheckOpenChildren(c) \/ ReleaseDatabase(c)

PyNext ==
  \/ \E c \in PyConnections : PyStep(c)
  \/ \E x \in Cursors : CloseCursor(x)
  \/ Forget

PySpec == PyInit /\ [][PyNext]_pyVars

-----------------------------------------------------------------------------
(* Properties.                                                             *)

\* The database is released only after every connection to it, also when
\* threads clone and close at the same time, a connection is closed twice or
\* a clone fails half way: the counts of _lib.pyx make up for a count of
\* dbapi.py that is too low.
DatabaseOutlives ==
  database # "open" => \A c \in PyConnections : handle[c] # "live"

\* The connection that is closed last releases the database, if each was
\* closed once and none was lost.
LastCloseReleases ==
  /\ \A c \in PyConnections : pc[c] \in {"none", "closed"} /\ closes[c] <= 1
  /\ database # "none"
  => database = "released"
=============================================================================
