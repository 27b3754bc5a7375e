--------------------------- MODULE DriverManager ---------------------------
(***************************************************************************)
(* The ADBC driver manager, src/c/driver_manager/adbc_driver_manager.cc:   *)
(* one AdbcDatabase handle with its connections and statements.            *)
(*                                                                         *)
(* Before Init a handle's private_data points to the manager's own         *)
(* TempDatabase or TempConnection, which collects options; afterwards to   *)
(* the driver's object.  private_driver tells the two cases apart.  The    *)
(* manager casts private_data according to private_driver, so a handle in  *)
(* which the two disagree makes it use an object as what it is not.        *)
(*                                                                         *)
(* A call is one step: handles are not shared between threads.  Callers    *)
(* pass zeroed handles to the New functions, release a database when no    *)
(* connection is left (src/adbc.h) and a connection when no statement is,  *)
(* and otherwise call any function at any time, on handles whose Init or   *)
(* Release failed too.  The driver is external: each of its functions may  *)
(* fail.  Pointers are the objects they point to; objects that belong to   *)
(* the database carry the parity of the AdbcDatabaseNew that led to them,  *)
(* so that a dangling pointer does not come to life again when the handle  *)
(* is reused.                                                              *)
(***************************************************************************)
EXTENDS DriverTable

VARIABLES
  heap,     \* the objects that are allocated
  gen,      \* parity of the number of AdbcDatabaseNew calls
  db,       \* the AdbcDatabase: data, driver; and what became of it (phase)
  args,     \* contents of the TempDatabase
  table,    \* the non-null function pointers of the driver
  manager,  \* driver->private_manager
  drvOpts,  \* options the driver's database object has accepted
  cn,       \* the AdbcConnections
  cnArgs,   \* contents of the TempConnections
  cnOpts,   \* options each connection object of the driver has accepted
  st,       \* the AdbcStatements
  asked,    \* options the caller was told are set on the database
  cnAsked,  \* options the caller was told are set on each connection
  fault     \* the call, and the phase of its handle, in which the manager used
            \* an object that is gone, or as another kind, or a null function

dbVars == <<gen, db, args, table, manager, drvOpts, asked>>
cnVars == <<cn, cnArgs, cnOpts, cnAsked>>
vars   == <<heap, dbVars, cnVars, st, fault>>

Null == [kind |-> "null"]

TempDatabase(g)       == [kind |-> "TempDatabase", gen |-> g]
Driver(g)             == [kind |-> "AdbcDriver", gen |-> g]
ManagerDriverState(g) == [kind |-> "ManagerDriverState", gen |-> g]
DriverDatabase(g)     == [kind |-> "DriverDatabase", gen |-> g]
TempConnection(c)     == [kind |-> "TempConnection", of |-> c]
DriverConnection(c)   == [kind |-> "DriverConnection", of |-> c]
DriverStatement(s)    == [kind |-> "DriverStatement", of |-> s]

Unset    == "unset"
NoOpts   == [k \in Keys |-> Unset]
Options  == [Keys -> Values \cup {Unset}]
NoArgs   == [driver |-> FALSE, initFunc |-> FALSE, options |-> NoOpts]

\* A handle as the caller first passes it in, zeroed.
Zeroed == [data |-> Null, driver |-> Null, phase |-> "none"]

NoCall == <<"none", "none">>

\* A statement handle, with the connection it was made from.
NoConnection == "none"
NoStatement == [data |-> Null, driver |-> Null, phase |-> "none", of |-> NoConnection]

Init ==
  /\ heap = {}
  /\ gen = 0
  /\ db = Zeroed
  /\ args = NoArgs
  /\ table = {}
  /\ manager = Null
  /\ drvOpts = NoOpts
  /\ cn = [c \in Connections |-> Zeroed]
  /\ cnArgs = [c \in Connections |-> NoOpts]
  /\ cnOpts = [c \in Connections |-> NoOpts]
  /\ st = [s \in Statements |-> NoStatement]
  /\ asked = NoOpts
  /\ cnAsked = [c \in Connections |-> NoOpts]
  /\ fault = NoCall

\* The manager follows pointer p to an object of the given kind.
Valid(p, kind) == p \in heap /\ p.kind = kind

\* A driver function returns an error.
MayFail(f) == f \in Failures

-----------------------------------------------------------------------------
(* The pointers that the functions follow.  A call is sound if they point  *)
(* to what it takes them for; otherwise it is undefined what it does, and  *)
(* the program has gone wrong.                                             *)

DatabaseSound(f) ==
  /\ f \in {"DatabaseSetOption", "DatabaseSetInitFunc"} /\ db.driver = Null
       => Valid(db.data, "TempDatabase")
  /\ f = "DatabaseInit" /\ db.data # Null => Valid(db.data, "TempDatabase")
  /\ f = "DatabaseRelease" /\ db.driver = Null /\ db.data # Null => Valid(db.data, "TempDatabase")
  /\ f \in {"DatabaseSetOption", "DatabaseRelease"} /\ db.driver # Null
       => Valid(db.driver, "AdbcDriver") /\ f \in table
  /\ f = "DatabaseRelease" /\ db.driver # Null => Valid(db.data, "DriverDatabase")

ConnectionSound(c, f) ==
  /\ f = "ConnectionInit" /\ cn[c].data # Null /\ db.driver # Null
       => Valid(cn[c].data, "TempConnection") /\ Valid(db.driver, "AdbcDriver")
  /\ f \in {"ConnectionSetOption", "ConnectionRelease"} /\ cn[c].data # Null /\ cn[c].driver = Null
       => Valid(cn[c].data, "TempConnection")
  /\ f # "ConnectionInit" /\ cn[c].driver # Null => Valid(cn[c].driver, "AdbcDriver") /\ f \in table
  /\ f \in {"ConnectionRelease", "StatementNew"} /\ cn[c].driver # Null
       => Valid(cn[c].data, "DriverConnection")

StatementSound(s, f) == st[s].driver # Null => Valid(st[s].driver, "AdbcDriver") /\ f \in table

\* The caller may release the database: no connection and no statement is
\* initialized.
Unused ==
  /\ \A c \in Connections : cn[c].driver = Null
  /\ \A s \in Statements : st[s].driver = Null

\* The caller may release the connection: its statements were released, or
\* the driver refused to release them.
NoStatements(c) == \A s \in Statements : st[s].of = c => st[s].driver = Null

GoesWrong(f, phase) == fault' = <<f, phase>> /\ UNCHANGED <<heap, dbVars, cnVars, st>>

DatabaseFault(f) ==
  /\ f = "DatabaseRelease" => Unused
  /\ ~DatabaseSound(f) /\ GoesWrong(f, db.phase)

ConnectionFault(c, f) ==
  /\ f = "ConnectionRelease" => NoStatements(c)
  /\ ~ConnectionSound(c, f) /\ GoesWrong(f, cn[c].phase)

StatementFault(s, f) == ~StatementSound(s, f) /\ GoesWrong(f, st[s].phase)

-----------------------------------------------------------------------------
(* The database.                                                           *)

\* AdbcDatabaseNew, on a zeroed handle.
DatabaseNew ==
  /\ db.phase = "none"
  /\ gen' = 1 - gen
  /\ db' = [data |-> TempDatabase(1 - gen), driver |-> Null, phase |-> "new"]
  /\ heap' = heap \cup {TempDatabase(1 - gen)}
  /\ args' = NoArgs
  /\ asked' = NoOpts
  /\ drvOpts' = NoOpts
  /\ UNCHANGED <<table, manager, cnVars, st, fault>>

\* AdbcDatabaseSetOption before Init: the option is stored.  "driver" (and
\* "entrypoint", not told apart) is the manager's own.
DatabaseStoreOption(k, v) ==
  /\ db.driver = Null /\ DatabaseSound("DatabaseSetOption")
  /\ args' = [args EXCEPT !.options[k] = v]
  /\ asked' = [asked EXCEPT ![k] = v]
  /\ UNCHANGED <<heap, gen, db, table, manager, drvOpts, cnVars, st, fault>>

DatabaseStoreDriver ==
  /\ db.driver = Null /\ DatabaseSound("DatabaseSetOption")
  /\ args' = [args EXCEPT !.driver = TRUE]
  /\ UNCHANGED <<heap, gen, db, table, manager, drvOpts, asked, cnVars, st, fault>>

\* AdbcDatabaseSetOption after Init: the driver's function.
DatabaseForwardOption(k, v) ==
  /\ db.driver # Null /\ DatabaseSound("DatabaseSetOption")
  /\ \/ /\ drvOpts' = [drvOpts EXCEPT ![k] = v]
        /\ asked' = [asked EXCEPT ![k] = v]
     \/ MayFail("DatabaseSetOption") /\ UNCHANGED <<drvOpts, asked>>
  /\ UNCHANGED <<heap, gen, db, args, table, manager, cnVars, st, fault>>

\* AdbcDriverManagerDatabaseSetInitFunc; refused once there is a driver.
DatabaseSetInitFunc ==
  /\ db.driver = Null /\ DatabaseSound("DatabaseSetInitFunc")
  /\ args' = [args EXCEPT !.initFunc = TRUE]
  /\ UNCHANGED <<heap, gen, db, table, manager, drvOpts, asked, cnVars, st, fault>>

\* Mutant of Stubs: ConnectionReadPartition has no default.
StubsIncomplete == Functions \ (Required \cup {"StatementBindStream", "ConnectionReadPartition"})

\* What AdbcLoadDriverFromInitFunc makes of the functions a driver set: the
\* stubs fill in for all optional functions but StatementBindStream.
Stubs == Functions \ (Required \cup {"StatementBindStream"})

Loads(t) == Required \subseteq t

\* AdbcLoadDriver fails: there is no such library, also not with the prefix
\* and suffix of the platform, it lacks the entrypoint, the driver's
\* initialization fails, or the driver lacks a required function.
LoadFails == MayFail("load") \/ \E t \in Tables : ~Loads(t)

\* AdbcDatabaseInit, unless it finds that there was no AdbcDatabaseNew.
InitRuns == db.data # Null /\ DatabaseSound("DatabaseInit")

\* Mutant of DatabaseInitNotLoaded: a failed load starts from scratch.
DatabaseInitForgetsArgs ==
  /\ InitRuns
  /\ \/ ~args.driver /\ ~args.initFunc
     \/ LoadFails
  /\ args' = NoArgs
  /\ UNCHANGED <<heap, gen, db, table, manager, drvOpts, asked, cnVars, st, fault>>

\* AdbcDatabaseInit without a driver name or init function, or whose load
\* fails: private_data is restored, what was allocated is freed.
DatabaseInitNotLoaded ==
  /\ InitRuns
  /\ \/ ~args.driver /\ ~args.initFunc
     \/ LoadFails
  /\ UNCHANGED vars

\* AdbcDatabaseInit up to the driver's DatabaseNew, which fails: the driver
\* is released, and private_data stays null.
DatabaseInitNewFails ==
  /\ InitRuns /\ (args.driver \/ args.initFunc)
  /\ MayFail("DatabaseNew")
  /\ db' = [Zeroed EXCEPT !.phase = "failed"]
  /\ UNCHANGED <<heap, gen, args, table, manager, drvOpts, asked, cnVars, st, fault>>

\* Mutant of DatabaseInitOptionFails: the TempDatabase is not deleted.
DatabaseInitOptionLeaks ==
  /\ InitRuns /\ (args.driver \/ args.initFunc)
  /\ MayFail("DatabaseSetOption")
  /\ \E k \in Keys : args.options[k] # Unset
  /\ db' = [Zeroed EXCEPT !.phase = "failed"]
  /\ UNCHANGED <<heap, gen, args, table, manager, drvOpts, asked, cnVars, st, fault>>

\* ... up to an option the driver refuses: the TempDatabase, the driver's
\* object and the driver are released.
DatabaseInitOptionFails ==
  /\ InitRuns /\ (args.driver \/ args.initFunc)
  /\ MayFail("DatabaseSetOption")
  /\ \E k \in Keys : args.options[k] # Unset
  /\ \/ heap' = heap \ {db.data}
     \/ MayFail("DatabaseRelease") /\ heap' = (heap \ {db.data}) \cup {DriverDatabase(gen)}
  /\ db' = [Zeroed EXCEPT !.phase = "failed"]
  /\ UNCHANGED <<gen, args, table, manager, drvOpts, asked, cnVars, st, fault>>

\* ... to the driver's DatabaseInit, whose status is returned and changes
\* nothing in the manager.  Only a driver loaded by name gets a
\* ManagerDriverState.
DatabaseInitDone(t) ==
  /\ InitRuns /\ (args.driver \/ args.initFunc) /\ Loads(t)
  /\ table' = t \cup Stubs
  /\ manager' = IF args.initFunc THEN Null ELSE ManagerDriverState(gen)
  /\ db' = [data |-> DriverDatabase(gen), driver |-> Driver(gen), phase |-> "open"]
  /\ drvOpts' = args.options
  /\ heap' = (heap \ {db.data}) \cup {db'.data, db'.driver} \cup ({manager'} \ {Null})
  /\ UNCHANGED <<gen, args, asked, cnVars, st, fault>>

\* AdbcDatabaseRelease without a driver: the TempDatabase is deleted, if
\* there is one.
DatabaseReleaseTemp ==
  /\ Unused /\ db.driver = Null /\ DatabaseSound("DatabaseRelease")
  /\ heap' = heap \ {db.data}
  /\ db' = Zeroed
  /\ UNCHANGED <<gen, args, table, manager, drvOpts, asked, cnVars, st, fault>>

\* With a driver: the driver's DatabaseRelease, then the driver is released
\* and both fields are cleared, whatever the status.
DatabaseReleaseDriver ==
  /\ Unused /\ db.driver # Null /\ DatabaseSound("DatabaseRelease")
  /\ LET rest == heap \ {db.driver, manager}
     IN \/ heap' = rest \ {db.data}
        \/ MayFail("DatabaseRelease") /\ heap' = rest
  /\ table' = {} /\ manager' = Null
  /\ db' = Zeroed
  /\ UNCHANGED <<gen, args, drvOpts, asked, cnVars, st, fault>>

-----------------------------------------------------------------------------
(* Connections.                                                            *)

\* AdbcConnectionNew, on a zeroed handle.
ConnectionNew(c) ==
  /\ cn[c].phase = "none"
  /\ cn' = [cn EXCEPT ![c] = [data |-> TempConnection(c), driver |-> Null, phase |-> "new"]]
  /\ heap' = heap \cup {TempConnection(c)}
  /\ cnArgs' = [cnArgs EXCEPT ![c] = NoOpts]
  /\ cnAsked' = [cnAsked EXCEPT ![c] = NoOpts]
  /\ cnOpts' = [cnOpts EXCEPT ![c] = NoOpts]
  /\ UNCHANGED <<dbVars, st, fault>>

\* AdbcConnectionSetOption before Init: stored.
ConnectionStoreOption(c, k, v) ==
  /\ cn[c].data # Null /\ cn[c].driver = Null
  /\ ConnectionSound(c, "ConnectionSetOption")
  /\ cnArgs' = [cnArgs EXCEPT ![c][k] = v]
  /\ cnAsked' = [cnAsked EXCEPT ![c][k] = v]
  /\ UNCHANGED <<heap, dbVars, cn, cnOpts, st, fault>>

\* AdbcConnectionSetOption after Init: the driver's function.
ConnectionForwardOption(c, k, v) ==
  /\ cn[c].data # Null /\ cn[c].driver # Null
  /\ ConnectionSound(c, "ConnectionSetOption")
  /\ \/ /\ cnOpts' = [cnOpts EXCEPT ![c][k] = v]
        /\ cnAsked' = [cnAsked EXCEPT ![c][k] = v]
     \/ MayFail("ConnectionSetOption") /\ UNCHANGED <<cnOpts, cnAsked>>
  /\ UNCHANGED <<heap, dbVars, cn, cnArgs, st, fault>>

\* AdbcConnectionInit: the TempConnection is deleted; then the driver's
\* ConnectionNew fails ...
ConnectionInitNewFails(c) ==
  /\ cn[c].data # Null /\ db.driver # Null /\ ConnectionSound(c, "ConnectionInit")
  /\ MayFail("ConnectionNew")
  /\ heap' = heap \ {cn[c].data}
  /\ cn' = [cn EXCEPT ![c] = [Zeroed EXCEPT !.phase = "failed"]]
  /\ UNCHANGED <<dbVars, cnArgs, cnOpts, cnAsked, st, fault>>

\* ... or succeeds, and the options are applied until one is refused, or all
\* are and the driver's ConnectionInit is called.
ConnectionInitDone(c) ==
  /\ cn[c].data # Null /\ db.driver # Null /\ ConnectionSound(c, "ConnectionInit")
  /\ heap' = (heap \ {cn[c].data}) \cup {DriverConnection(c)}
  /\ \E phase \in {"open", "failed"} :
       /\ cn' = [cn EXCEPT ![c] = [data |-> DriverConnection(c), driver |-> db.driver,
                                   phase |-> phase]]
       /\ \/ /\ phase = "open" \/ MayFail("ConnectionInit")
             /\ cnOpts' = [cnOpts EXCEPT ![c] = cnArgs[c]]
          \/ /\ phase = "failed" /\ MayFail("ConnectionSetOption")
             /\ \E refused \in Keys :
                  /\ cnArgs[c][refused] # Unset
                  /\ \E applied \in SUBSET (Keys \ {refused}) :
                       cnOpts' = [cnOpts EXCEPT ![c] =
                         [k \in Keys |-> IF k \in applied THEN cnArgs[c][k] ELSE Unset]]
  /\ UNCHANGED <<dbVars, cnArgs, cnAsked, st, fault>>

\* AdbcConnectionRelease without a driver: the TempConnection is deleted, if
\* there is one.  The caller has released the connection's statements.
ConnectionReleaseTemp(c) ==
  /\ cn[c].driver = Null /\ ConnectionSound(c, "ConnectionRelease")
  /\ heap' = heap \ {cn[c].data}
  /\ cn' = [cn EXCEPT ![c] = Zeroed]
  /\ UNCHANGED <<dbVars, cnArgs, cnOpts, cnAsked, st, fault>>

\* With a driver: the driver's ConnectionRelease, which clears private_data
\* unless it fails.  private_driver is cleared either way.
ConnectionReleaseDriver(c) ==
  /\ cn[c].driver # Null /\ ConnectionSound(c, "ConnectionRelease")
  /\ NoStatements(c)
  /\ \/ heap' = heap \ {cn[c].data} /\ cn' = [cn EXCEPT ![c] = Zeroed]
     \/ /\ MayFail("ConnectionRelease")
        /\ cn' = [cn EXCEPT ![c] = [data |-> @.data, driver |-> Null, phase |-> "stuck"]]
        /\ UNCHANGED heap
  /\ UNCHANGED <<dbVars, cnArgs, cnOpts, cnAsked, st, fault>>

\* Commit, GetInfo, GetObjects, GetTableSchema, GetTableTypes, ReadPartition,
\* Rollback: the driver's function.
ConnectionCall(c, f) ==
  /\ cn[c].driver # Null /\ ConnectionSound(c, f)
  /\ UNCHANGED vars

-----------------------------------------------------------------------------
(* Statements.                                                             *)

\* AdbcStatementNew: private_driver is set even if the driver fails.
StatementNew(c, s) ==
  /\ st[s].phase = "none" /\ cn[c].driver # Null /\ ConnectionSound(c, "StatementNew")
  /\ \/ /\ heap' = heap \cup {DriverStatement(s)}
        /\ st' = [st EXCEPT ![s] = [data |-> DriverStatement(s), driver |-> cn[c].driver,
                                    phase |-> "open", of |-> c]]
     \/ /\ MayFail("StatementNew")
        /\ st' = [st EXCEPT ![s] = [data |-> Null, driver |-> cn[c].driver,
                                    phase |-> "failed", of |-> c]]
        /\ UNCHANGED heap
  /\ UNCHANGED <<dbVars, cnVars, fault>>

\* Bind, BindStream, Execute..., Prepare, Set...: the driver's function.
StatementCall(s, f) ==
  /\ st[s].driver # Null /\ StatementSound(s, f)
  /\ UNCHANGED vars

\* AdbcStatementRelease: the driver's StatementRelease (which refuses a null
\* private_data), then private_driver is cleared.  A driver that fails keeps
\* its object.
StatementRelease(s) ==
  /\ st[s].driver # Null /\ StatementSound(s, "StatementRelease")
  /\ \/ heap' = heap \ {st[s].data} /\ st' = [st EXCEPT ![s] = NoStatement]
     \/ /\ MayFail("StatementRelease") /\ st[s].data # Null
        /\ st' = [st EXCEPT ![s] = [data |-> @.data, driver |-> Null, phase |-> "stuck", of |-> @.of]]
        /\ UNCHANGED heap
  /\ UNCHANGED <<dbVars, cnVars, fault>>

-----------------------------------------------------------------------------
DatabaseStep ==
  \/ DatabaseNew \/ DatabaseStoreDriver \/ DatabaseSetInitFunc
  \/ \E k \in Keys, v \in Values : DatabaseStoreOption(k, v) \/ DatabaseForwardOption(k, v)
  \/ DatabaseInitNotLoaded \/ DatabaseInitNewFails \/ DatabaseInitOptionFails
  \/ \E t \in Tables : DatabaseInitDone(t)
  \/ DatabaseReleaseTemp \/ DatabaseReleaseDriver

ConnectionStep(c) ==
  \/ ConnectionNew(c)
  \/ \E k \in Keys, v \in Values : ConnectionStoreOption(c, k, v) \/ ConnectionForwardOption(c, k, v)
  \/ ConnectionInitNewFails(c) \/ ConnectionInitDone(c)
  \/ ConnectionReleaseTemp(c) \/ ConnectionReleaseDriver(c)
  \/ \E f \in ConnectionCalls : ConnectionCall(c, f)

StatementStep(s) ==
  \/ \E c \in Connections : StatementNew(c, s)
  \/ \E f \in StatementCalls : StatementCall(s, f)
  \/ StatementRelease(s)

\* A call that is not sound.
Fault ==
  \/ \E f \in {"DatabaseSetOption", "DatabaseSetInitFunc", "DatabaseInit", "DatabaseRelease"} :
       DatabaseFault(f)
  \/ \E c \in Connections :
       \E f \in {"ConnectionSetOption", "ConnectionInit", "ConnectionRelease", "StatementNew"}
                \cup ConnectionCalls : ConnectionFault(c, f)
  \/ \E s \in Statements : \E f \in StatementCalls \cup {"StatementRelease"} : StatementFault(s, f)

Next ==
  /\ fault = NoCall
  /\ \/ DatabaseStep
     \/ \E c \in Connections : ConnectionStep(c)
     \/ \E s \in Statements : StatementStep(s)
     \/ Fault

Spec == Init /\ [][Next]_vars

-----------------------------------------------------------------------------
(* Properties.                                                             *)

Objects ==
  {TempDatabase(g) : g \in {0, 1}} \cup {Driver(g) : g \in {0, 1}}
    \cup {ManagerDriverState(g) : g \in {0, 1}} \cup {DriverDatabase(g) : g \in {0, 1}}
    \cup {TempConnection(c) : c \in Connections} \cup {DriverConnection(c) : c \in Connections}
    \cup {DriverStatement(s) : s \in Statements}

Drivers == {Driver(0), Driver(1), Null}
Phases  == {"none", "new", "open", "failed", "stuck"}

\* The handles hold null, the manager's temporary struct or the driver's
\* object of the same handle, and options are a partial function.
TypeOK ==
  /\ heap \subseteq Objects
  /\ gen \in {0, 1}
  /\ db \in [data : {TempDatabase(gen), DriverDatabase(gen), Null}, driver : Drivers,
             phase : Phases]
  /\ args \in [driver : BOOLEAN, initFunc : BOOLEAN, options : Options]
  /\ table \subseteq Functions
  /\ manager \in {ManagerDriverState(gen), Null}
  /\ drvOpts \in Options /\ asked \in Options
  /\ DOMAIN cn = Connections
  /\ \A c \in Connections :
       cn[c] \in [data : {TempConnection(c), DriverConnection(c), Null}, driver : Drivers,
                  phase : Phases]
  /\ cnArgs \in [Connections -> Options]
  /\ cnOpts \in [Connections -> Options]
  /\ cnAsked \in [Connections -> Options]
  /\ DOMAIN st = Statements
  /\ \A s \in Statements :
       st[s] \in [data : {DriverStatement(s), Null}, driver : Drivers, phase : Phases,
                  of : Connections \cup {NoConnection}]
  /\ fault \in (Functions \cup {"DatabaseSetInitFunc", "none"}) \X Phases

\* The calls that the manager does not guard: an option of a database that
\* was never made, or whose Init failed in the driver; an Init that is
\* repeated after the driver had the handle; and a connection that the driver
\* refused to release.
Unguarded ==
  {"DatabaseSetOption", "DatabaseSetInitFunc"} \X {"none", "failed"}
    \cup {<<"DatabaseInit", "open">>}
    \cup {"ConnectionInit"} \X {"open", "failed", "stuck"}
    \cup {"ConnectionSetOption", "ConnectionRelease"} \X {"stuck"}

\* The manager follows a dangling or null pointer, or takes a driver's object
\* for its own temporary one or the reverse, in the unguarded calls only, and
\* calls a null function only for StatementBindStream of a driver that has
\* none.  Every other call finds what it takes private_data for, in every
\* phase of its handle and whichever driver functions have failed: a handle
\* whose Init failed may always be released, and what is called on it reaches
\* the driver or is an error.
NoOtherFault ==
  \/ fault = NoCall
  \/ fault \in Unguarded
  \/ fault[1] = "StatementBindStream" /\ "StatementBindStream" \notin table

\* Every option that the caller was told is set reaches the driver: it is
\* kept across failed loads, and handed over by Init.
OptionsReachDriver ==
  /\ db.phase = "new" => args.options = asked
  /\ db.phase = "open" => drvOpts = asked
  /\ \A c \in Connections :
       /\ cn[c].phase = "new" => cnArgs[c] = cnAsked[c]
       /\ cn[c].phase = "open" => cnOpts[c] = cnAsked[c]

\* What the handles, and through the driver the manager, still refer to.
Reachable ==
  ({db.data, db.driver, manager}
     \cup {cn[c].data : c \in Connections}
     \cup {st[s].data : s \in Statements}) \ {Null}

\* Nothing is lost and nothing is freed too early: what is allocated is what
\* the handles refer to.  The struct a New function allocated "should be
\* released when" the Release function is called.
NoLeak == heap = Reachable

\* A connection handle whose private_data is not null is either still being
\* configured (a TempConnection and no driver) or initialized (the driver's
\* object and the driver).
FieldsAgree ==
  \A c \in Connections :
    \/ cn[c].data = Null /\ cn[c].driver = Null
    \/ cn[c].data = TempConnection(c) /\ cn[c].driver = Null
    \/ cn[c].data = DriverConnection(c) /\ cn[c].driver # Null
=============================================================================
