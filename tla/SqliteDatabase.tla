--------------------------- MODULE SqliteDatabase ---------------------------
(***************************************************************************)
(* The AdbcDatabase of the SQLite driver (src/c/driver/sqlite/sqlite.c)    *)
(* and the files that it and its connections open.                         *)
(*                                                                         *)
(* Without a uri every database of a process is the same shared in-memory  *)
(* database, which SQLite keeps as long as some sqlite3* is open on it.    *)
(* The database opens one of its own for that.  Connections open theirs by *)
(* the uri that the database has at that time.                             *)
(***************************************************************************)
EXTENDS Naturals, FiniteSets

CONSTANTS
  Dbs,         \* AdbcDatabase structs
  Conns,       \* AdbcConnection structs
  Uris,        \* values of the option uri
  Memory,      \* kDefaultUri
  Entries      \* what is written

VARIABLES
  dbs,         \* SqliteDatabase: allocated, uri, db
  conns,       \* SqliteConnection: allocated, conn
  store,       \* SQLite: what each file holds
  kept         \* the file of DatabaseInit, and what was written to it since

databaseVars == <<dbs, conns, store, kept>>

Closed == "closed"

ASSUME UrisAssumption == Closed \notin Uris \cup {Memory}

NoDb == [new |-> FALSE, uri |-> Memory, db |-> Closed]
NotKept == [uri |-> Closed, entries |-> {}]
NoConn == [new |-> FALSE, conn |-> Closed]

DatabasesInit ==
  /\ dbs = [d \in Dbs |-> NoDb]
  /\ conns = [c \in Conns |-> NoConn]
  /\ store = [u \in Uris \cup {Memory} |-> {}]
  /\ kept = [d \in Dbs |-> NotKept]

\* The in-memory database goes with the last sqlite3* that is open on it.
Forget(s, ds, cs) ==
  IF (\E d \in Dbs : ds[d].db = Memory) \/ (\E c \in Conns : cs[c].conn = Memory) THEN s
  ELSE [s EXCEPT ![Memory] = {}]

DatabaseNew(d) ==
  /\ ~dbs[d].new
  /\ dbs' = [dbs EXCEPT ![d] = [NoDb EXCEPT !.new = TRUE]]
  /\ UNCHANGED <<conns, store, kept>>

\* Also after DatabaseInit, for the connections to come.
DatabaseSetOption(d, uri) ==
  /\ dbs[d].new
  /\ dbs' = [dbs EXCEPT ![d].uri = uri]
  /\ UNCHANGED <<conns, store, kept>>

\* OpenDatabase.
Opened(uri, fails) == IF fails THEN Closed ELSE uri

\* The mutant only tries the uri.
DatabaseInitProbes(d, fails) ==
  /\ dbs[d].new /\ dbs[d].db = Closed
  /\ kept' = [kept EXCEPT ![d].uri = Opened(dbs[d].uri, fails)]
  /\ UNCHANGED <<dbs, conns, store>>
DatabaseInit(d, fails) ==
  /\ dbs[d].new /\ dbs[d].db = Closed
  /\ dbs' = [dbs EXCEPT ![d].db = Opened(dbs[d].uri, fails)]
  /\ kept' = [kept EXCEPT ![d].uri = Opened(dbs[d].uri, fails)]
  /\ UNCHANGED <<conns, store>>

\* connection_count is never counted up, so open connections are no error.
DatabaseRelease(d) ==
  /\ dbs[d].new
  /\ dbs' = [dbs EXCEPT ![d] = NoDb]
  /\ store' = Forget(store, dbs', conns)
  /\ kept' = [kept EXCEPT ![d] = NotKept]
  /\ UNCHANGED conns

ConnNew(c) ==
  /\ ~conns[c].new
  /\ conns' = [conns EXCEPT ![c].new = TRUE]
  /\ UNCHANGED <<dbs, store, kept>>

\* SqliteConnectionInit asks for an allocated database, not for an initialized one.
ConnInit(c, d, fails) ==
  /\ conns[c].new /\ conns[c].conn = Closed /\ dbs[d].new
  /\ conns' = [conns EXCEPT ![c].conn = Opened(dbs[d].uri, fails)]
  /\ UNCHANGED <<dbs, store, kept>>

ConnRelease(c) ==
  /\ conns[c].new
  /\ conns' = [conns EXCEPT ![c] = NoConn]
  /\ store' = Forget(store, dbs, conns')
  /\ UNCHANGED <<dbs, kept>>

\* A statement of a connection writes to the file it has open.
ConnWrite(c, e) ==
  /\ conns[c].conn # Closed
  /\ store' = [store EXCEPT ![conns[c].conn] = @ \cup {e}]
  /\ kept' = [d \in Dbs |-> IF kept[d].uri # conns[c].conn THEN kept[d]
                             ELSE [kept[d] EXCEPT !.entries = @ \cup {e}]]
  /\ UNCHANGED <<dbs, conns>>

DatabasesNext ==
  \/ \E d \in Dbs :
       \/ DatabaseNew(d) \/ DatabaseRelease(d)
       \/ \E uri \in Uris : DatabaseSetOption(d, uri)
       \/ \E fails \in BOOLEAN : DatabaseInit(d, fails)
  \/ \E c \in Conns :
       \/ ConnNew(c) \/ ConnRelease(c)
       \/ \E d \in Dbs, fails \in BOOLEAN : ConnInit(c, d, fails)
       \/ \E e \in Entries : ConnWrite(c, e)

DatabasesSpec == DatabasesInit /\ [][DatabasesNext]_databaseVars

\* An initialized database holds what its connections have written although
\* they, and other databases of the process, are released: the sqlite3* that
\* SqliteDatabaseInit opens keeps the in-memory database.
MemoryOutlivesConnections ==
  \A d \in Dbs : kept[d].uri # Closed => kept[d].entries \subseteq store[kept[d].uri]
=============================================================================
