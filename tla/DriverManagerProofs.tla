------------------------ MODULE DriverManagerProofs ------------------------
(***************************************************************************)
(* Proofs about DriverManager, for any number of connections, statements,  *)
(* option keys and values, and any set of failing driver functions, and    *)
(* about RBindings, whose finalizers call it, for any number of streams.   *)
(***************************************************************************)
EXTENDS DriverManager, RBindings, TLAPS

\* A leaf that names no prover is for these, in this order.
USE Zenon, SMT, Z3

-----------------------------------------------------------------------------
(* The inductive invariant: in each phase the fields of a handle are what  *)
(* the phase says.                                                         *)

Db ==
  /\ gen \in {0, 1}
  /\ \/ db = [data |-> Null, driver |-> Null, phase |-> "none"]
     \/ db = [data |-> Null, driver |-> Null, phase |-> "failed"]
     \/ /\ db = [data |-> TempDatabase(gen), driver |-> Null, phase |-> "new"]
        /\ TempDatabase(gen) \in heap
     \/ /\ db = [data |-> DriverDatabase(gen), driver |-> Driver(gen), phase |-> "open"]
        /\ DriverDatabase(gen) \in heap /\ Driver(gen) \in heap
        /\ Functions \ {"StatementBindStream"} \subseteq table
  /\ manager \in {Null, ManagerDriverState(gen)}
  /\ db.phase # "open" => manager = Null

\* A connection that has the driver's object and the driver.
Connected(c, phase) ==
  /\ cn[c] = [data |-> DriverConnection(c), driver |-> Driver(gen), phase |-> phase]
  /\ DriverConnection(c) \in heap
  /\ db.phase = "open"

\* ... whether its Init succeeded or not.
Live(c) == Connected(c, "open") \/ Connected(c, "failed")

CnOf(c) ==
  \/ cn[c] = [data |-> Null, driver |-> Null, phase |-> "none"]
  \/ cn[c] = [data |-> Null, driver |-> Null, phase |-> "failed"]
  \/ /\ cn[c] = [data |-> TempConnection(c), driver |-> Null, phase |-> "new"]
     /\ TempConnection(c) \in heap
  \/ Connected(c, "open")
  \/ Connected(c, "failed")
  \/ /\ cn[c] = [data |-> DriverConnection(c), driver |-> Null, phase |-> "stuck"]
     /\ MayFail("ConnectionRelease")

StOf(s) ==
  \/ st[s] = NoStatement
  \/ \E c \in Connections :
       \/ /\ Live(c)
          /\ \/ st[s] = [data |-> DriverStatement(s), driver |-> Driver(gen), phase |-> "open", of |-> c]
             \/ st[s] = [data |-> Null, driver |-> Driver(gen), phase |-> "failed", of |-> c]
       \/ st[s] = [data |-> DriverStatement(s), driver |-> Null, phase |-> "stuck", of |-> c]

HInv ==
  /\ Db
  /\ DOMAIN cn = Connections /\ DOMAIN st = Statements
  /\ cn = [c \in Connections |-> cn[c]] /\ st = [s \in Statements |-> st[s]]
  /\ \A c \in Connections : CnOf(c)
  /\ \A s \in Statements : StOf(s)

-----------------------------------------------------------------------------
(* Objects of different kinds, or of different owners, are different.      *)

LEMMA Kinds ==
  /\ \A g : /\ TempDatabase(g).kind = "TempDatabase" /\ Driver(g).kind = "AdbcDriver"
            /\ ManagerDriverState(g).kind = "ManagerDriverState"
            /\ DriverDatabase(g).kind = "DriverDatabase"
  /\ \A c : /\ TempConnection(c).kind = "TempConnection"
            /\ DriverConnection(c).kind = "DriverConnection"
            /\ DriverStatement(c).kind = "DriverStatement"
            /\ TempConnection(c).of = c /\ DriverConnection(c).of = c
            /\ DriverStatement(c).of = c
  /\ Null.kind = "null"
  BY DEF TempDatabase, Driver, ManagerDriverState, DriverDatabase, TempConnection,
     DriverConnection, DriverStatement, Null

LEMMA InitHInv == Init => HInv
  BY DEF Init, HInv, Db, CnOf, StOf, Zeroed, NoStatement

\* A connection is as it was if its handle and its objects are, and the
\* database stays open if it was.
LEMMA CnFrame ==
  ASSUME NEW c \in Connections, CnOf(c), cn'[c] = cn[c],
         db.phase = "open" => db'.phase = "open" /\ gen' = gen,
         TempConnection(c) \in heap => TempConnection(c) \in heap',
         DriverConnection(c) \in heap => DriverConnection(c) \in heap'
  PROVE  CnOf(c)'
  BY DEF CnOf, Connected

\* So is a statement, if its connection has its driver still.
LEMMA StFrame ==
  ASSUME NEW s \in Statements, StOf(s), st'[s] = st[s],
         \A c \in Connections :
           st[s].driver # Null /\ st[s].of = c /\ Live(c) => Live(c)' /\ gen' = gen
  PROVE  StOf(s)'
  <1>1. CASE st[s] = NoStatement
    BY <1>1 DEF StOf, NoStatement
  <1>2. ASSUME NEW c \in Connections, Live(c),
               \/ st[s] = [data |-> DriverStatement(s), driver |-> Driver(gen), phase |-> "open", of |-> c]
               \/ st[s] = [data |-> Null, driver |-> Driver(gen), phase |-> "failed", of |-> c]
        PROVE  StOf(s)'
    <2>1. st[s].of = c /\ st[s].driver # Null
      BY <1>2, Kinds, SMT
    <2>2. Live(c)' /\ gen' = gen
      BY <1>2, <2>1
    <2> QED
      BY <1>2, <2>2 DEF StOf
  <1>3. ASSUME NEW c \in Connections,
               st[s] = [data |-> DriverStatement(s), driver |-> Null, phase |-> "stuck", of |-> c]
        PROVE  StOf(s)'
    BY <1>3 DEF StOf
  <1> QED
    BY <1>1, <1>2, <1>3 DEF StOf

\* Connections stay open if their handles, their objects and the database do.
LEMMA ConnectedFrame ==
  ASSUME NEW c \in Connections, cn'[c] = cn[c],
         db.phase = "open" => db'.phase = "open" /\ gen' = gen,
         DriverConnection(c) \in heap => DriverConnection(c) \in heap'
  PROVE  Live(c) => Live(c)' /\ gen' = gen
  BY DEF Live, Connected

\* What each of the database's pointers points to.
LEMMA DbPoints ==
  ASSUME Db
  PROVE  /\ db.phase = "new" => db.data = TempDatabase(gen) /\ Valid(db.data, "TempDatabase")
         /\ db.phase = "open" => /\ db.data = DriverDatabase(gen) /\ Valid(db.data, "DriverDatabase")
                                 /\ db.driver = Driver(gen) /\ Valid(db.driver, "AdbcDriver")
         /\ db.driver = Null <=> db.phase # "open"
         /\ db.phase \in {"none", "new", "open", "failed"}
         /\ db.data # Null <=> db.phase \in {"new", "open"}
  BY Kinds, SMT DEF Db, Valid

\* The phase of the handle in which a call is sound.
LEMMA DbCalls ==
  ASSUME Db
  PROVE  /\ InitRuns => db.phase = "new"
         /\ db.driver = Null /\ DatabaseSound("DatabaseSetOption") => db.phase = "new"
         /\ db.driver = Null /\ DatabaseSound("DatabaseSetInitFunc") => db.phase = "new"
  <1>1. /\ InitRuns => Valid(db.data, "TempDatabase")
        /\ db.driver = Null /\ DatabaseSound("DatabaseSetOption") => Valid(db.data, "TempDatabase")
        /\ db.driver = Null /\ DatabaseSound("DatabaseSetInitFunc") => Valid(db.data, "TempDatabase")
    BY DEF DatabaseSound, InitRuns
  <1>2. Valid(db.data, "TempDatabase") => db.phase = "new"
    BY Kinds, SMT DEF Db, Valid
  <1> QED
    BY <1>1, <1>2

-----------------------------------------------------------------------------
(* Steps on the database handle.                                           *)

LEMMA DatabaseLoads ==
  ASSUME HInv, NEW t, DatabaseInitDone(t)
  PROVE  HInv'
  <1>1. cn' = cn /\ st' = st /\ db.phase = "new"
    BY DbCalls DEF DatabaseInitDone, cnVars, HInv
  <1>2. \A c \in Connections : /\ TempConnection(c) \in heap => TempConnection(c) \in heap'
                               /\ DriverConnection(c) \in heap => DriverConnection(c) \in heap'
    BY Kinds, SMT DEF HInv, Db, DatabaseInitDone
  <1>3. \A c \in Connections : CnOf(c)'
    BY <1>1, <1>2, CnFrame DEF HInv
  <1>4. \A s \in Statements : StOf(s)'
    <2> TAKE s \in Statements
    <2>1. \A c \in Connections : ~Live(c)
      BY <1>1 DEF Live, Connected
    <2> QED
      BY <1>1, <2>1, StFrame DEF HInv
  <1>5. Db'
    <2>1. Functions \ {"StatementBindStream"} \subseteq table'
      BY DEF DatabaseInitDone, Loads, Stubs
    <2> QED
      BY <2>1 DEF HInv, Db, DatabaseInitDone
  <1> QED
    BY <1>1, <1>3, <1>4, <1>5 DEF HInv

LEMMA DatabaseKeeps ==
  ASSUME HInv, DatabaseStep, ~DatabaseReleaseTemp, ~DatabaseReleaseDriver,
         \A t \in Tables : ~DatabaseInitDone(t)
  PROVE  HInv'
  <1>1. cn' = cn /\ st' = st
    BY DEF DatabaseStep, DatabaseNew, DatabaseStoreDriver, DatabaseSetInitFunc, DatabaseStoreOption,
       DatabaseForwardOption, DatabaseInitNotLoaded, DatabaseInitNewFails, DatabaseInitOptionFails,
       DatabaseInitDone, vars, cnVars
  <1>2. \A c \in Connections : /\ TempConnection(c) \in heap => TempConnection(c) \in heap'
                               /\ DriverConnection(c) \in heap => DriverConnection(c) \in heap'
    BY Kinds, SMT DEF HInv, Db, DatabaseStep, DatabaseNew, DatabaseStoreDriver, DatabaseSetInitFunc,
       DatabaseStoreOption, DatabaseForwardOption, DatabaseInitNotLoaded, DatabaseInitNewFails,
       DatabaseInitOptionFails, DatabaseInitDone, vars, cnVars
  <1>3. db.phase = "open" => db'.phase = "open" /\ gen' = gen
    BY DbCalls DEF HInv, DatabaseStep, DatabaseNew, DatabaseStoreDriver, DatabaseSetInitFunc,
       DatabaseStoreOption, DatabaseForwardOption, DatabaseInitNotLoaded, DatabaseInitNewFails,
       DatabaseInitOptionFails, DatabaseInitDone, vars, dbVars
  <1>4. \A c \in Connections : CnOf(c)'
    BY <1>1, <1>2, <1>3, CnFrame DEF HInv
  <1>5. \A s \in Statements : StOf(s)'
    <2> TAKE s \in Statements
    <2>1. \A c \in Connections : Live(c) => Live(c)' /\ gen' = gen
      BY <1>1, <1>2, <1>3, ConnectedFrame
    <2> QED
      BY <1>1, <2>1, StFrame DEF HInv
  <1>6. Db'
    <2>1. CASE DatabaseNew
      BY <2>1, SMT DEF HInv, Db, DatabaseNew
    <2>2. CASE DatabaseInitNewFails \/ DatabaseInitOptionFails
      <3>1. db' = [data |-> Null, driver |-> Null, phase |-> "failed"]
        BY <2>2 DEF DatabaseInitNewFails, DatabaseInitOptionFails, Zeroed
      <3>2. gen' = gen /\ manager' = manager
        BY <2>2 DEF DatabaseInitNewFails, DatabaseInitOptionFails
      <3>3. manager = Null /\ gen \in {0, 1}
        BY <2>2, DbCalls DEF HInv, Db, DatabaseInitNewFails, DatabaseInitOptionFails
      <3> QED
        BY <3>1, <3>2, <3>3 DEF Db
    <2>3. CASE UNCHANGED <<heap, gen, db, table, manager>>
      BY <2>3 DEF HInv, Db
    <2> QED
      BY <2>1, <2>2, <2>3 DEF DatabaseStep, DatabaseStoreDriver, DatabaseSetInitFunc,
         DatabaseStoreOption, DatabaseForwardOption, DatabaseInitNotLoaded, vars, dbVars
  <1> QED
    BY <1>1, <1>4, <1>5, <1>6 DEF HInv

\* A release finds no connection and no statement that is initialized.
LEMMA DatabaseReleases ==
  ASSUME HInv, DatabaseReleaseTemp \/ DatabaseReleaseDriver
  PROVE  HInv'
  <1>1. cn' = cn /\ st' = st /\ Unused /\ gen' = gen
    BY DEF DatabaseReleaseTemp, DatabaseReleaseDriver, cnVars
  <1>2. \A c \in Connections : CnOf(c)'
    <2> TAKE c \in Connections
    <2>1. \A phase : ~Connected(c, phase)
      BY <1>1, Kinds, SMT DEF Unused, Connected
    <2>2. TempConnection(c) \in heap => TempConnection(c) \in heap'
      BY Kinds, SMT DEF HInv, Db, DatabaseReleaseTemp, DatabaseReleaseDriver
    <2> QED
      BY <1>1, <2>1, <2>2 DEF HInv, CnOf
  <1>3. \A s \in Statements : StOf(s)'
    <2>1. \A c \in Connections : ~Live(c)
      BY <1>1, Kinds, SMT DEF Unused, Live, Connected
    <2> QED
      BY <1>1, <2>1 DEF HInv, StOf
  <1>4. Db'
    <2>1. db' = [data |-> Null, driver |-> Null, phase |-> "none"]
      BY DEF DatabaseReleaseTemp, DatabaseReleaseDriver, Zeroed
    <2>2. manager' = Null
      BY DbPoints DEF HInv, Db, DatabaseReleaseTemp, DatabaseReleaseDriver
    <2>3. gen' \in {0, 1}
      BY <1>1 DEF HInv, Db
    <2> QED
      BY <2>1, <2>2, <2>3 DEF Db
  <1> QED
    BY <1>1, <1>2, <1>3, <1>4 DEF HInv

-----------------------------------------------------------------------------
(* Steps on a connection.                                                  *)

\* What the pointers of a connection point to.
LEMMA CnPoints ==
  ASSUME Db, NEW c \in Connections, CnOf(c)
  PROVE  /\ cn[c].phase = "new" => /\ cn[c].data = TempConnection(c) /\ cn[c].driver = Null
                                   /\ Valid(cn[c].data, "TempConnection")
         /\ cn[c].driver # Null => /\ cn[c].data = DriverConnection(c) /\ db.phase = "open"
                                   /\ cn[c].driver = db.driver
                                   /\ Valid(cn[c].data, "DriverConnection")
                                   /\ Valid(cn[c].driver, "AdbcDriver")
         /\ cn[c].phase = "open" => Connected(c, "open") /\ cn[c].driver # Null
         /\ cn[c].driver = Null /\ cn[c].data # Null => cn[c].phase \in {"new", "stuck"}
         /\ cn[c].data \in {Null, TempConnection(c), DriverConnection(c)}
         /\ cn[c].driver # Null <=> Live(c)
  BY Kinds, SMT DEF CnOf, Live, Connected, Db, Valid

LEMMA CnCalls ==
  ASSUME Db, NEW c \in Connections, CnOf(c), cn[c].data # Null
  PROVE  /\ cn[c].driver = Null /\ ConnectionSound(c, "ConnectionSetOption") => cn[c].phase = "new"
         /\ db.driver # Null /\ ConnectionSound(c, "ConnectionInit") => cn[c].phase = "new"
  <1>1. /\ cn[c].driver = Null /\ ConnectionSound(c, "ConnectionSetOption")
             => Valid(cn[c].data, "TempConnection")
        /\ db.driver # Null /\ ConnectionSound(c, "ConnectionInit")
             => Valid(cn[c].data, "TempConnection")
    BY DEF ConnectionSound
  <1>2. Valid(cn[c].data, "TempConnection") => cn[c].phase = "new"
    BY Kinds, SMT DEF CnOf, Connected, Valid
  <1> QED
    BY <1>1, <1>2

\* Freeing a connection's object frees nothing else.
LEMMA CnFree ==
  ASSUME NEW c \in Connections, NEW p \in {Null, TempConnection(c), DriverConnection(c)}
  PROVE  /\ \A d \in Connections \ {c} : p # TempConnection(d) /\ p # DriverConnection(d)
         /\ \A g : p \notin {TempDatabase(g), DriverDatabase(g), Driver(g)}
         /\ \A s \in Statements : p # DriverStatement(s)
         /\ p # TempConnection(c) \/ p # DriverConnection(c)
  BY Kinds, SMT

LEMMA ConnectionKeeps ==
  ASSUME HInv, NEW c \in Connections, ConnectionStep(c)
  PROVE  HInv'
  <1> USE DEF vars, cnVars, dbVars
  <1>1. st' = st /\ UNCHANGED <<gen, db, table, manager>>
    BY DEF ConnectionStep, ConnectionNew, ConnectionStoreOption, ConnectionForwardOption,
       ConnectionInitNewFails, ConnectionInitDone, ConnectionReleaseTemp, ConnectionReleaseDriver,
       ConnectionCall
  <1>4. PICK p \in {Null, TempConnection(c), DriverConnection(c)} : heap \ {p} \subseteq heap'
    BY CnPoints DEF HInv, ConnectionStep, ConnectionNew, ConnectionStoreOption, ConnectionForwardOption,
       ConnectionInitNewFails, ConnectionInitDone, ConnectionReleaseTemp, ConnectionReleaseDriver,
       ConnectionCall
  <1>5. Db'
    BY <1>1, <1>4, CnFree DEF HInv, Db
  <1>6. \E h : cn' = [cn EXCEPT ![c] = h]
    BY SMT DEF HInv, ConnectionStep, ConnectionNew, ConnectionStoreOption, ConnectionForwardOption,
       ConnectionInitNewFails, ConnectionInitDone, ConnectionReleaseTemp, ConnectionReleaseDriver,
       ConnectionCall
  <1>7. /\ DOMAIN cn' = Connections /\ cn' = [d \in Connections |-> cn'[d]]
        /\ \A d \in Connections \ {c} : cn'[d] = cn[d]
    BY <1>6 DEF HInv
  <1>8. ASSUME NEW d \in Connections \ {c}
        PROVE  CnOf(d)'
    BY <1>1, <1>4, <1>7, <1>8, CnFree, CnFrame DEF HInv
  <1>9. CnOf(c)'
    <2>1. CASE ConnectionNew(c)
      BY <2>1 DEF HInv, ConnectionNew, CnOf
    <2>2. CASE ConnectionInitNewFails(c)
      BY <2>2 DEF HInv, ConnectionInitNewFails, CnOf, Zeroed
    <2>3. CASE ConnectionInitDone(c)
      <3>1. db.phase = "open" /\ db.driver = Driver(gen)
        BY <2>3, DbPoints DEF HInv, ConnectionInitDone
      <3>2. DriverConnection(c) \in heap'
        BY <2>3 DEF ConnectionInitDone
      <3>3. PICK phase \in {"open", "failed"} :
               cn'[c] = [data |-> DriverConnection(c), driver |-> db.driver, phase |-> phase]
        BY <2>3 DEF HInv, ConnectionInitDone
      <3> QED
        BY <1>1, <3>1, <3>2, <3>3 DEF CnOf, Connected
    <2>4. CASE ConnectionReleaseTemp(c)
      BY <2>4 DEF HInv, ConnectionReleaseTemp, CnOf, Zeroed
    <2>5. CASE ConnectionReleaseDriver(c)
      <3>1. cn[c].data = DriverConnection(c)
        BY <2>5, CnPoints DEF HInv, ConnectionReleaseDriver
      <3> QED
        BY <2>5, <3>1 DEF HInv, ConnectionReleaseDriver, CnOf, Connected, Zeroed, MayFail
    <2>6. CASE UNCHANGED <<heap, cn>>
      BY <1>1, <2>6 DEF HInv, CnOf, Connected
    <2> QED
      BY <2>1, <2>2, <2>3, <2>4, <2>5, <2>6 DEF ConnectionStep, ConnectionStoreOption,
         ConnectionForwardOption, ConnectionCall
  <1>10. ASSUME NEW s \in Statements
         PROVE  StOf(s)'
    <2>1. ASSUME NEW d \in Connections, st[s].driver # Null, st[s].of = d, Live(d)
          PROVE  Live(d)'
      <3>1. CASE d # c
        BY <1>1, <1>4, <1>7, <2>1, <3>1, CnFree, ConnectedFrame, SMT
      <3>2. CASE d = c
        <4>1. UNCHANGED <<heap, cn>>
          <5>1. cn[c].phase \notin {"none", "new"} /\ cn[c].driver # Null /\ ~NoStatements(c)
            BY <2>1, <3>2, Kinds, SMT DEF Live, Connected, NoStatements
          <5>2. ~ConnectionInitNewFails(c) /\ ~ConnectionInitDone(c)
            BY <5>1, CnCalls DEF HInv, ConnectionInitNewFails, ConnectionInitDone
          <5> QED
            BY <5>1, <5>2 DEF ConnectionStep, ConnectionNew, ConnectionStoreOption,
               ConnectionForwardOption, ConnectionReleaseTemp, ConnectionReleaseDriver, ConnectionCall
        <4> QED
          BY <1>1, <2>1, <4>1 DEF Live, Connected
      <3> QED
        BY <3>1, <3>2
    <2> QED
      BY <1>1, <2>1, StFrame DEF HInv
  <1> QED
    BY <1>1, <1>5, <1>7, <1>8, <1>9, <1>10 DEF HInv

-----------------------------------------------------------------------------
(* Steps on a statement.                                                   *)

\* What the pointers of a statement point to.
LEMMA StPoints ==
  ASSUME Db, NEW s \in Statements, StOf(s)
  PROVE  /\ st[s].driver # Null => /\ st[s].driver = db.driver /\ db.phase = "open"
                                   /\ Valid(st[s].driver, "AdbcDriver")
         /\ st[s].data \in {Null, DriverStatement(s)}
         /\ st[s].phase = "open" => st[s].data = DriverStatement(s)
         /\ st[s].data # Null /\ st[s].driver # Null => st[s].phase = "open"
  <1>1. CASE st[s] = NoStatement
    BY <1>1, SMT DEF NoStatement
  <1>2. ASSUME NEW c \in Connections, Live(c),
               \/ st[s] = [data |-> DriverStatement(s), driver |-> Driver(gen), phase |-> "open", of |-> c]
               \/ st[s] = [data |-> Null, driver |-> Driver(gen), phase |-> "failed", of |-> c]
        PROVE  /\ st[s].driver = Driver(gen) /\ db.phase = "open"
               /\ st[s].data \in {Null, DriverStatement(s)}
               /\ st[s].phase = "open" => st[s].data = DriverStatement(s)
               /\ st[s].data # Null => st[s].phase = "open"
    BY <1>2, SMT DEF Live, Connected
  <1>3. ASSUME NEW c \in Connections,
               st[s] = [data |-> DriverStatement(s), driver |-> Null, phase |-> "stuck", of |-> c]
        PROVE  st[s].driver = Null /\ st[s].data = DriverStatement(s) /\ st[s].phase = "stuck"
    BY <1>3, SMT
  <1> QED
    BY <1>1, <1>2, <1>3, DbPoints DEF StOf

LEMMA StatementKeeps ==
  ASSUME HInv, NEW s \in Statements, StatementStep(s)
  PROVE  HInv'
  <1> USE DEF vars, cnVars, dbVars
  <1>1. cn' = cn /\ UNCHANGED <<gen, db, table, manager>>
    BY DEF StatementStep, StatementNew, StatementCall, StatementRelease
  <1>4. PICK p \in {Null, DriverStatement(s)} : heap \ {p} \subseteq heap'
    BY StPoints DEF HInv, StatementStep, StatementNew, StatementCall, StatementRelease
  <1>5. /\ \A g : p \notin {TempDatabase(g), DriverDatabase(g), Driver(g)}
        /\ \A c \in Connections : p # TempConnection(c) /\ p # DriverConnection(c)
    BY Kinds, SMT
  <1>6. Db'
    BY <1>1, <1>4, <1>5 DEF HInv, Db
  <1>7. \A c \in Connections : CnOf(c)'
    BY <1>1, <1>4, <1>5, CnFrame DEF HInv
  <1>8. \A c \in Connections : Live(c) => Live(c)' /\ gen' = gen
    BY <1>1, <1>4, <1>5, ConnectedFrame
  <1>9. \E h : st' = [st EXCEPT ![s] = h]
    BY SMT DEF HInv, StatementStep, StatementNew, StatementCall, StatementRelease
  <1>10. /\ DOMAIN st' = Statements /\ st' = [r \in Statements |-> st'[r]]
         /\ \A r \in Statements \ {s} : st'[r] = st[r]
    BY <1>9 DEF HInv
  <1>11. \A r \in Statements \ {s} : StOf(r)'
    BY <1>8, <1>10, StFrame DEF HInv
  <1>12. StOf(s)'
    <2>1. ASSUME NEW c \in Connections, StatementNew(c, s)
          PROVE  StOf(s)'
      <3>1. Live(c) /\ Live(c)'
        BY <1>8, <2>1, CnPoints DEF HInv, StatementNew
      <3>2. cn[c].driver = Driver(gen)
        BY <3>1, SMT DEF Live, Connected
      <3>3. \/ st'[s] = [data |-> DriverStatement(s), driver |-> Driver(gen), phase |-> "open", of |-> c]
            \/ st'[s] = [data |-> Null, driver |-> Driver(gen), phase |-> "failed", of |-> c]
        BY <2>1, <3>2 DEF HInv, StatementNew
      <3> QED
        BY <1>1, <3>1, <3>3 DEF StOf
    <2>2. CASE StatementRelease(s)
      <3>1. CASE st'[s] = NoStatement
        BY <3>1 DEF StOf, NoStatement
      <3>2. CASE st[s].data # Null /\ st'[s] = [data |-> st[s].data, driver |-> Null, phase |-> "stuck", of |-> st[s].of]
        <4>1. PICK c \in Connections :
                /\ Live(c)
                /\ st[s] = [data |-> DriverStatement(s), driver |-> Driver(gen), phase |-> "open", of |-> c]
          BY <2>2, <3>2, SMT DEF HInv, StOf, StatementRelease, NoStatement
        <4>2. st'[s] = [data |-> DriverStatement(s), driver |-> Null, phase |-> "stuck", of |-> c]
          BY <3>2, <4>1, SMT
        <4> QED
          BY <1>8, <4>1, <4>2 DEF StOf
      <3> QED
        BY <2>2, <3>1, <3>2 DEF HInv, StatementRelease
    <2>3. CASE st' = st
      BY <1>8, <2>3, StFrame DEF HInv
    <2> QED
      BY <2>1, <2>2, <2>3 DEF StatementStep, StatementCall
  <1> QED
    BY <1>1, <1>6, <1>7, <1>10, <1>11, <1>12 DEF HInv

-----------------------------------------------------------------------------
(* Theorems.                                                               *)

LEMMA HInvSame ==
  ASSUME HInv, UNCHANGED <<heap, dbVars, cnVars, st>>
  PROVE  HInv'
  BY SMT DEF dbVars, cnVars, HInv, Db, CnOf, StOf, Live, Connected

LEMMA FaultKeeps == Fault => UNCHANGED <<heap, dbVars, cnVars, st>>
  BY DEF Fault, DatabaseFault, ConnectionFault, StatementFault, GoesWrong

LEMMA HInvStep ==
  ASSUME HInv, [Next]_vars
  PROVE  HInv'
  <1>1. CASE DatabaseStep
    BY <1>1, DatabaseKeeps, DatabaseLoads, DatabaseReleases
  <1>2. CASE \E c \in Connections : ConnectionStep(c)
    BY <1>2, ConnectionKeeps
  <1>3. CASE \E s \in Statements : StatementStep(s)
    BY <1>3, StatementKeeps
  <1>4. CASE Fault
    BY <1>4, FaultKeeps, HInvSame
  <1>5. CASE UNCHANGED vars
    BY <1>5, HInvSame DEF vars
  <1> QED
    BY <1>1, <1>2, <1>3, <1>4, <1>5 DEF Next

\* HInv is an invariant of the manager, whatever is called and whichever driver
\* functions fail.
THEOREM HandleInvariance == Spec => []HInv
  <1>1. HInv /\ [Next]_vars => HInv'
    BY HInvStep
  <1> QED
    BY <1>1, InitHInv, PTL DEF Spec

-----------------------------------------------------------------------------
(* Calls that are not sound.  By HInv the two fields of a handle tell which *)
(* phase it is in, and each function but the unguarded ones asks for them.  *)

LEMMA DatabaseIsSound ==
  ASSUME HInv,
         NEW f \in {"DatabaseSetOption", "DatabaseSetInitFunc", "DatabaseInit", "DatabaseRelease"},
         <<f, db.phase>> \notin Unguarded
  PROVE  DatabaseSound(f)
  <1>1. Db /\ db.phase \in {"none", "new", "open", "failed"}
    BY DbPoints DEF HInv
  <1>2. db.phase = "open" => "DatabaseSetOption" \in table /\ "DatabaseRelease" \in table
    BY SMT DEF HInv, Db, Functions, Required
  <1>3. CASE f = "DatabaseSetOption"
    <2>1. db.phase \in {"new", "open"}
      BY <1>1, <1>3 DEF Unguarded
    <2> QED
      BY <1>1, <1>2, <1>3, <2>1, DbPoints DEF DatabaseSound
  <1>4. CASE f = "DatabaseSetInitFunc"
    <2>1. db.phase \in {"new", "open"}
      BY <1>1, <1>4 DEF Unguarded
    <2> QED
      BY <1>1, <1>4, <2>1, DbPoints DEF DatabaseSound
  <1>5. CASE f = "DatabaseInit"
    <2>1. db.phase # "open"
      BY <1>1, <1>5 DEF Unguarded
    <2> QED
      BY <1>1, <1>5, <2>1, DbPoints DEF DatabaseSound
  <1>6. CASE f = "DatabaseRelease"
    BY <1>1, <1>2, <1>6, DbPoints DEF DatabaseSound
  <1> QED
    BY <1>3, <1>4, <1>5, <1>6

LEMMA ConnectionIsSound ==
  ASSUME HInv, NEW c \in Connections,
         NEW f \in {"ConnectionSetOption", "ConnectionInit", "ConnectionRelease", "StatementNew"}
                    \cup ConnectionCalls,
         <<f, cn[c].phase>> \notin Unguarded
  PROVE  ConnectionSound(c, f)
  <1>1. /\ Db /\ CnOf(c) /\ cn[c].phase \in {"none", "new", "open", "failed", "stuck"}
        /\ cn[c].data # Null => cn[c].phase # "none"
    BY SMT DEF HInv, CnOf, Connected
  <1>2. cn[c].driver # Null => f \in table \/ f = "ConnectionInit"
    <2>1. f \in Functions \ {"StatementBindStream"}
      BY DEF Functions, Required, ConnectionCalls, StatementCalls
    <2> QED
      BY <1>1, <2>1, CnPoints, SMT DEF Db
  <1>3. CASE f = "ConnectionSetOption"
    <2>1. cn[c].phase # "stuck"
      BY <1>1, <1>3 DEF Unguarded
    <2> QED
      BY <1>1, <1>2, <1>3, <2>1, CnPoints DEF ConnectionSound
  <1>4. CASE f = "ConnectionInit"
    <2>1. cn[c].phase \in {"none", "new"}
      BY <1>1, <1>4 DEF Unguarded
    <2> QED
      BY <1>1, <1>4, <2>1, CnPoints, DbPoints DEF ConnectionSound
  <1>5. CASE f = "ConnectionRelease"
    <2>1. cn[c].phase # "stuck"
      BY <1>1, <1>5 DEF Unguarded
    <2> QED
      BY <1>1, <1>2, <1>5, <2>1, CnPoints DEF ConnectionSound
  <1>6. CASE f = "StatementNew"
    BY <1>1, <1>2, <1>6, CnPoints DEF ConnectionSound
  <1>7. CASE f \in ConnectionCalls
    <2>1. f \notin {"ConnectionSetOption", "ConnectionInit", "ConnectionRelease", "StatementNew"}
      BY <1>7 DEF ConnectionCalls
    <2> QED
      BY <1>1, <1>2, <1>7, <2>1, CnPoints DEF ConnectionSound
  <1> QED
    BY <1>3, <1>4, <1>5, <1>6, <1>7

LEMMA StatementIsSound ==
  ASSUME HInv, NEW s \in Statements, NEW f \in StatementCalls \cup {"StatementRelease"},
         f = "StatementBindStream" => "StatementBindStream" \in table
  PROVE  StatementSound(s, f)
  <1>1. f \in Functions
    BY DEF Functions, Required
  <1>2. db.phase = "open" => f \in table
    BY <1>1, SMT DEF HInv, Db
  <1> QED
    BY <1>2, StPoints DEF HInv, StatementSound

LEMMA FaultsAreUnguarded ==
  ASSUME HInv, Fault
  PROVE  NoOtherFault'
  <1>1. ASSUME NEW f \in {"DatabaseSetOption", "DatabaseSetInitFunc", "DatabaseInit", "DatabaseRelease"},
               DatabaseFault(f)
        PROVE  NoOtherFault'
    <2>1. fault' = <<f, db.phase>> /\ ~DatabaseSound(f)
      BY <1>1 DEF DatabaseFault, GoesWrong
    <2>2. <<f, db.phase>> \in Unguarded
      BY <2>1, DatabaseIsSound
    <2> QED
      BY <2>1, <2>2 DEF NoOtherFault, Unguarded
  <1>2. ASSUME NEW c \in Connections,
               NEW f \in {"ConnectionSetOption", "ConnectionInit", "ConnectionRelease", "StatementNew"}
                          \cup ConnectionCalls,
               ConnectionFault(c, f)
        PROVE  NoOtherFault'
    <2>1. fault' = <<f, cn[c].phase>> /\ ~ConnectionSound(c, f)
      BY <1>2 DEF ConnectionFault, GoesWrong
    <2>2. <<f, cn[c].phase>> \in Unguarded
      BY <2>1, ConnectionIsSound
    <2> QED
      BY <2>1, <2>2 DEF NoOtherFault, Unguarded
  <1>3. ASSUME NEW s \in Statements, NEW f \in StatementCalls \cup {"StatementRelease"},
               StatementFault(s, f)
        PROVE  NoOtherFault'
    <2>1. fault' = <<f, st[s].phase>> /\ ~StatementSound(s, f) /\ table' = table
      BY <1>3 DEF StatementFault, GoesWrong, dbVars
    <2>2. f = "StatementBindStream" /\ "StatementBindStream" \notin table
      BY <2>1, StatementIsSound
    <2> QED
      BY <2>1, <2>2 DEF NoOtherFault
  <1> QED
    BY <1>1, <1>2, <1>3 DEF Fault

\* Whatever is called in whatever order on however many handles, and whichever
\* driver functions fail, a call that casts private_data to what it is not, or
\* follows a null or dangling pointer, is one of the unguarded ones: options of
\* a database that has no TempDatabase, a repeated Init, and a connection whose
\* release the driver refused.  A null function is called only where a driver
\* has no StatementBindStream.
THEOREM CastsAreRight == Spec => []NoOtherFault
  <1>1. Init => NoOtherFault
    BY DEF Init, NoOtherFault
  <1>2. HInv /\ NoOtherFault /\ [Next]_vars => NoOtherFault'
    <2> SUFFICES ASSUME HInv, NoOtherFault, [Next]_vars
                 PROVE  NoOtherFault'
      OBVIOUS
    <2>1. CASE UNCHANGED vars
      BY <2>1 DEF vars, dbVars, NoOtherFault, Unguarded
    <2>2. CASE Fault
      BY <2>2, FaultsAreUnguarded
    <2>3. CASE fault' = NoCall
      BY <2>3 DEF NoOtherFault
    <2>4. DatabaseStep => fault' = fault
      BY DEF DatabaseStep, DatabaseNew, DatabaseStoreDriver, DatabaseSetInitFunc, DatabaseStoreOption,
         DatabaseForwardOption, DatabaseInitNotLoaded, DatabaseInitNewFails, DatabaseInitOptionFails,
         DatabaseInitDone, DatabaseReleaseTemp, DatabaseReleaseDriver, vars
    <2>5. \A c \in Connections : ConnectionStep(c) => fault' = fault
      BY DEF ConnectionStep, ConnectionNew, ConnectionStoreOption, ConnectionForwardOption,
         ConnectionInitNewFails, ConnectionInitDone, ConnectionReleaseTemp, ConnectionReleaseDriver,
         ConnectionCall, vars
    <2>6. \A s \in Statements : StatementStep(s) => fault' = fault
      BY DEF StatementStep, StatementNew, StatementCall, StatementRelease, vars
    <2> QED
      BY <2>1, <2>2, <2>3, <2>4, <2>5, <2>6 DEF Next
  <1> QED
    BY <1>1, <1>2, HandleInvariance, PTL DEF Spec

\* If drivers never refuse ConnectionRelease, the two fields of a connection
\* handle agree on whether it is initialized.
THEOREM ConnectionFieldsAgree ==
  ~MayFail("ConnectionRelease") => (Spec => []FieldsAgree)
  <1> SUFFICES ASSUME ~MayFail("ConnectionRelease")
               PROVE  Spec => []FieldsAgree
    OBVIOUS
  <1>1. HInv => FieldsAgree
    <2> SUFFICES ASSUME HInv, NEW c \in Connections
                 PROVE  \/ cn[c].data = Null /\ cn[c].driver = Null
                        \/ cn[c].data = TempConnection(c) /\ cn[c].driver = Null
                        \/ cn[c].data = DriverConnection(c) /\ cn[c].driver # Null
      BY DEF FieldsAgree
    <2>1. CnOf(c) /\ Driver(gen) # Null
      BY Kinds DEF HInv
    <2> QED
      BY <2>1, SMT DEF CnOf, Connected
  <1> QED
    BY <1>1, HandleInvariance, PTL

-----------------------------------------------------------------------------
(* Options.  Beyond OptionsReachDriver itself: the shape of the variables  *)
(* that a step updates at one key.                                         *)

OInv ==
  /\ args = [driver |-> args.driver, initFunc |-> args.initFunc, options |-> args.options]
  /\ cnArgs = [c \in Connections |-> cnArgs[c]]
  /\ cnOpts = [c \in Connections |-> cnOpts[c]]
  /\ cnAsked = [c \in Connections |-> cnAsked[c]]
  /\ OptionsReachDriver

LEMMA DatabaseOptions ==
  ASSUME HInv, OInv, DatabaseStep
  PROVE  OInv'
  <1> USE DEF vars, dbVars, cnVars
  <1>1. UNCHANGED cnVars
    BY DEF DatabaseStep, DatabaseNew, DatabaseStoreDriver, DatabaseSetInitFunc, DatabaseStoreOption,
       DatabaseForwardOption, DatabaseInitNotLoaded, DatabaseInitNewFails, DatabaseInitOptionFails,
       DatabaseInitDone, DatabaseReleaseTemp, DatabaseReleaseDriver
  <1>2. args' = [driver |-> args'.driver, initFunc |-> args'.initFunc, options |-> args'.options]
    <2>1. CASE DatabaseNew
      BY <2>1 DEF DatabaseNew, NoArgs
    <2>2. CASE DatabaseStoreDriver
      BY <2>2 DEF DatabaseStoreDriver, OInv
    <2>3. CASE DatabaseSetInitFunc
      BY <2>3 DEF DatabaseSetInitFunc, OInv
    <2>4. CASE \E k \in Keys, v \in Values : DatabaseStoreOption(k, v)
      BY <2>4 DEF DatabaseStoreOption, OInv
    <2>5. CASE args' = args
      BY <2>5 DEF OInv
    <2> QED
      BY <2>1, <2>2, <2>3, <2>4, <2>5 DEF DatabaseStep, DatabaseForwardOption, DatabaseInitNotLoaded,
         DatabaseInitNewFails, DatabaseInitOptionFails, DatabaseInitDone, DatabaseReleaseTemp,
         DatabaseReleaseDriver, dbVars
  <1>3. /\ db'.phase = "new" => args'.options = asked'
        /\ db'.phase = "open" => drvOpts' = asked'
    <2>1. CASE DatabaseNew
      BY <2>1 DEF DatabaseNew, NoArgs
    <2>2. CASE DatabaseStoreDriver
      BY <2>2 DEF DatabaseStoreDriver, OInv, OptionsReachDriver
    <2>3. CASE DatabaseSetInitFunc
      BY <2>3 DEF DatabaseSetInitFunc, OInv, OptionsReachDriver
    <2>4. ASSUME NEW k \in Keys, NEW v \in Values, DatabaseStoreOption(k, v)
          PROVE  /\ db'.phase = "new" => args'.options = asked'
                 /\ db'.phase = "open" => drvOpts' = asked'
      BY <2>4, DbCalls DEF DatabaseStoreOption, HInv, OInv, OptionsReachDriver
    <2>5. ASSUME NEW k \in Keys, NEW v \in Values, DatabaseForwardOption(k, v)
          PROVE  /\ db'.phase = "new" => args'.options = asked'
                 /\ db'.phase = "open" => drvOpts' = asked'
      BY <2>5, DbPoints DEF DatabaseForwardOption, HInv, OInv, OptionsReachDriver
    <2>6. CASE \E t \in Tables : DatabaseInitDone(t)
      BY <2>6, DbCalls DEF HInv, DatabaseInitDone, OInv, OptionsReachDriver
    <2>7. CASE DatabaseInitNotLoaded
      BY <2>7 DEF DatabaseInitNotLoaded, OInv, OptionsReachDriver, dbVars
    <2>8. CASE db'.phase \in {"none", "failed"}
      BY <2>8
    <2> QED
      BY <2>1, <2>2, <2>3, <2>4, <2>5, <2>6, <2>7, <2>8, SMT DEF DatabaseStep, DatabaseInitNewFails,
         DatabaseInitOptionFails, DatabaseReleaseTemp, DatabaseReleaseDriver, Zeroed
  <1> QED
    BY <1>1, <1>2, <1>3 DEF OInv, OptionsReachDriver

LEMMA ConnectionOptions ==
  ASSUME HInv, OInv, NEW c \in Connections, ConnectionStep(c)
  PROVE  OInv'
  <1> DEFINE Reach(d) == /\ cn[d].phase = "new" => cnArgs[d] = cnAsked[d]
                         /\ cn[d].phase = "open" => cnOpts[d] = cnAsked[d]
  <1> USE DEF vars, dbVars, cnVars
  <1>1. UNCHANGED dbVars
    BY DEF ConnectionStep, ConnectionNew, ConnectionStoreOption, ConnectionForwardOption,
       ConnectionInitNewFails, ConnectionInitDone, ConnectionReleaseTemp, ConnectionReleaseDriver,
       ConnectionCall
  <1>2. \E h : cn' = [cn EXCEPT ![c] = h]
    BY SMT DEF HInv, ConnectionStep, ConnectionNew, ConnectionStoreOption, ConnectionForwardOption,
       ConnectionInitNewFails, ConnectionInitDone, ConnectionReleaseTemp, ConnectionReleaseDriver,
       ConnectionCall
  <1>3. \E h : cnArgs' = [cnArgs EXCEPT ![c] = h]
    BY SMT DEF OInv, ConnectionStep, ConnectionNew, ConnectionStoreOption, ConnectionForwardOption,
       ConnectionInitNewFails, ConnectionInitDone, ConnectionReleaseTemp, ConnectionReleaseDriver,
       ConnectionCall
  <1>4. \E h : cnOpts' = [cnOpts EXCEPT ![c] = h]
    BY SMT DEF OInv, ConnectionStep, ConnectionNew, ConnectionStoreOption, ConnectionForwardOption,
       ConnectionInitNewFails, ConnectionInitDone, ConnectionReleaseTemp, ConnectionReleaseDriver,
       ConnectionCall
  <1>5. \E h : cnAsked' = [cnAsked EXCEPT ![c] = h]
    BY SMT DEF OInv, ConnectionStep, ConnectionNew, ConnectionStoreOption, ConnectionForwardOption,
       ConnectionInitNewFails, ConnectionInitDone, ConnectionReleaseTemp, ConnectionReleaseDriver,
       ConnectionCall
  <1>6. /\ cn' = [d \in Connections |-> cn'[d]]
         /\ \A d \in Connections \ {c} : cn'[d] = cn[d]
    BY <1>2 DEF HInv
  <1>7. /\ cnArgs' = [d \in Connections |-> cnArgs'[d]]
         /\ \A d \in Connections \ {c} : cnArgs'[d] = cnArgs[d]
    BY <1>3 DEF OInv
  <1>8. /\ cnOpts' = [d \in Connections |-> cnOpts'[d]]
         /\ \A d \in Connections \ {c} : cnOpts'[d] = cnOpts[d]
    BY <1>4 DEF OInv
  <1>9. /\ cnAsked' = [d \in Connections |-> cnAsked'[d]]
         /\ \A d \in Connections \ {c} : cnAsked'[d] = cnAsked[d]
    BY <1>5 DEF OInv
  <1>10. \A d \in Connections \ {c} : Reach(d)'
    BY <1>6, <1>7, <1>8, <1>9 DEF OInv, OptionsReachDriver
  <1>11. Reach(c)'
    <2>1. CASE ConnectionNew(c)
      BY <2>1 DEF ConnectionNew, HInv, OInv
    <2>2. ASSUME NEW k \in Keys, NEW v \in Values, ConnectionStoreOption(c, k, v)
          PROVE  Reach(c)'
      <3>1. cn[c].phase = "new"
        BY <2>2, CnCalls DEF ConnectionStoreOption, HInv
      <3> QED
        BY <2>2, <3>1 DEF ConnectionStoreOption, OInv, OptionsReachDriver
    <2>3. ASSUME NEW k \in Keys, NEW v \in Values, ConnectionForwardOption(c, k, v)
          PROVE  Reach(c)'
      <3>1. cn[c].phase # "new"
        BY <2>3, CnPoints DEF ConnectionForwardOption, HInv
      <3> QED
        BY <2>3, <3>1, SMT DEF ConnectionForwardOption, OInv, OptionsReachDriver
    <2>4. CASE ConnectionInitDone(c)
      <3>1. cnArgs[c] = cnAsked[c]
        BY <2>4, CnCalls DEF ConnectionInitDone, HInv, OInv, OptionsReachDriver
      <3>2. cn'[c].phase = "failed" \/ (cn'[c].phase = "open" /\ cnOpts'[c] = cnArgs[c])
        BY <2>4, SMT DEF ConnectionInitDone, HInv, OInv
      <3> QED
        BY <2>4, <3>1, <3>2 DEF ConnectionInitDone
    <2>5. CASE cn'[c].phase \in {"none", "failed", "stuck"}
      BY <2>5
    <2>6. CASE UNCHANGED cnVars
      BY <2>6 DEF OInv, OptionsReachDriver
    <2>7. CASE ConnectionInitNewFails(c) \/ ConnectionReleaseTemp(c) \/ ConnectionReleaseDriver(c)
      <3>1. cn'[c].phase \in {"none", "failed", "stuck"}
        BY <2>7, SMT DEF HInv, ConnectionInitNewFails, ConnectionReleaseTemp, ConnectionReleaseDriver,
           Zeroed
      <3> QED
        BY <2>5, <3>1
    <2> QED
      BY <2>1, <2>2, <2>3, <2>4, <2>6, <2>7 DEF ConnectionStep, ConnectionCall
  <1> QED
    BY <1>1, <1>7, <1>8, <1>9, <1>10, <1>11 DEF OInv, OptionsReachDriver

\* Every option the caller was told is set is stored until Init and known to
\* the driver's object once the handle is open, for any options and any
\* failures: AdbcDatabaseInit and AdbcConnectionInit lose none.
THEOREM OptionsArrive == Spec => []OptionsReachDriver
  <1>1. Init => OInv
    BY SMT DEF Init, OInv, OptionsReachDriver, Zeroed, NoArgs
  <1>2. HInv /\ OInv /\ [Next]_vars => OInv'
    <2> SUFFICES ASSUME HInv, OInv, [Next]_vars
                 PROVE  OInv'
      OBVIOUS
    <2>1. CASE \E s \in Statements : StatementStep(s)
      BY <2>1, SMT DEF StatementStep, StatementNew, StatementCall, StatementRelease, OInv,
         OptionsReachDriver, vars, dbVars, cnVars
    <2>2. CASE Fault \/ UNCHANGED vars
      BY <2>2, FaultKeeps DEF vars, OInv, OptionsReachDriver, dbVars, cnVars
    <2> QED
      BY <2>1, <2>2, DatabaseOptions, ConnectionOptions DEF Next
  <1>3. OInv => OptionsReachDriver
    BY DEF OInv
  <1> QED
    BY <1>1, <1>2, <1>3, HandleInvariance, PTL DEF Spec

-----------------------------------------------------------------------------
(* Memory.  A call replaces the objects of its own handle and no others.   *)

Owned ==
  /\ db.data \in {Null, TempDatabase(gen), DriverDatabase(gen)}
  /\ db.driver \in {Null, Driver(gen)}
  /\ manager \in {Null, ManagerDriverState(gen)}
  /\ \A c \in Connections : cn[c].data \in {Null, TempConnection(c), DriverConnection(c)}
  /\ \A s \in Statements : st[s].data \in {Null, DriverStatement(s)}

LEMMA HInvOwned == HInv => Owned
  <1> SUFFICES ASSUME HInv
               PROVE  Owned
    OBVIOUS
  <1>1. /\ db.data \in {Null, TempDatabase(gen), DriverDatabase(gen)}
        /\ db.driver \in {Null, Driver(gen)}
        /\ manager \in {Null, ManagerDriverState(gen)}
    BY SMT DEF HInv, Db
  <1> QED
    BY <1>1, CnPoints, StPoints DEF HInv, Owned

LEMMA DatabaseReplaces ==
  ASSUME Owned, NoLeak, UNCHANGED <<cn, st>>,
         heap' = (heap \ {db.data, db.driver, manager}) \cup ({db'.data, db'.driver, manager'} \ {Null})
  PROVE  NoLeak'
  BY Kinds, SMT DEF Owned, NoLeak, Reachable

LEMMA ConnectionReplaces ==
  ASSUME Owned, NoLeak, UNCHANGED <<db, manager, st>>, NEW c \in Connections,
         \A d \in Connections \ {c} : cn'[d] = cn[d],
         heap' = (heap \ {cn[c].data}) \cup ({cn'[c].data} \ {Null})
  PROVE  NoLeak'
  BY Kinds, SMT DEF Owned, NoLeak, Reachable

LEMMA StatementReplaces ==
  ASSUME Owned, NoLeak, UNCHANGED <<db, manager, cn>>, NEW s \in Statements,
         \A r \in Statements \ {s} : st'[r] = st[r],
         heap' = (heap \ {st[s].data}) \cup ({st'[s].data} \ {Null})
  PROVE  NoLeak'
  BY Kinds, SMT DEF Owned, NoLeak, Reachable

LEMMA DatabaseMemory ==
  ASSUME HInv, NoLeak, DatabaseStep, ~MayFail("DatabaseNew"), ~MayFail("DatabaseRelease")
  PROVE  NoLeak'
  <1> USE DEF vars, dbVars, cnVars
  <1>1. UNCHANGED <<cn, st>>
    BY DEF DatabaseStep, DatabaseNew, DatabaseStoreDriver, DatabaseSetInitFunc, DatabaseStoreOption,
       DatabaseForwardOption, DatabaseInitNotLoaded, DatabaseInitNewFails, DatabaseInitOptionFails,
       DatabaseInitDone, DatabaseReleaseTemp, DatabaseReleaseDriver
  <1>2. CASE UNCHANGED <<heap, db, manager>>
    BY <1>1, <1>2 DEF NoLeak, Reachable
  <1>3. CASE DatabaseNew
    BY <1>1, <1>3, DbPoints, HInvOwned, DatabaseReplaces, Kinds, SMT DEF HInv, Db, DatabaseNew, NoLeak, Reachable
  <1>4. CASE DatabaseInitOptionFails
    <2>1. db.data # Null /\ db.driver = Null /\ manager = Null /\ manager' = Null
      BY <1>4, DbCalls, DbPoints DEF HInv, Db, InitRuns, DatabaseInitOptionFails
    <2>2. heap' = heap \ {db.data} /\ db'.data = Null /\ db'.driver = Null
      BY <1>4 DEF DatabaseInitOptionFails, Zeroed
    <2>3. Null \notin heap
      BY DEF NoLeak, Reachable
    <2> QED
      BY <1>1, <2>1, <2>2, <2>3, HInvOwned, DatabaseReplaces
  <1>5. CASE \E t \in Tables : DatabaseInitDone(t)
    <2>1. db.data # Null /\ db.driver = Null /\ manager = Null
      BY <1>5, DbCalls, DbPoints DEF HInv, Db, InitRuns, DatabaseInitDone
    <2>2. /\ heap' = (heap \ {db.data}) \cup {db'.data, db'.driver} \cup ({manager'} \ {Null})
          /\ db'.data # Null /\ db'.driver # Null
      BY <1>5, Kinds, SMT DEF DatabaseInitDone
    <2>3. Null \notin heap
      BY DEF NoLeak, Reachable
    <2> QED
      BY <1>1, <2>1, <2>2, <2>3, HInvOwned, DatabaseReplaces
  <1>6. CASE DatabaseReleaseTemp
    BY <1>1, <1>6, DbPoints, HInvOwned, DatabaseReplaces DEF HInv, Db, DatabaseReleaseTemp, Zeroed,
       NoLeak, Reachable
  <1>7. CASE DatabaseReleaseDriver
    BY <1>1, <1>7, DatabaseReplaces, HInvOwned DEF DatabaseReleaseDriver, Zeroed
  <1> QED
    BY <1>2, <1>3, <1>4, <1>5, <1>6, <1>7 DEF DatabaseStep, DatabaseStoreDriver, DatabaseSetInitFunc,
       DatabaseStoreOption, DatabaseForwardOption, DatabaseInitNotLoaded, DatabaseInitNewFails, dbVars

LEMMA ConnectionMemory ==
  ASSUME HInv, NoLeak, NEW c \in Connections, ConnectionStep(c)
  PROVE  NoLeak'
  <1> USE DEF vars, cnVars, dbVars
  <1>1. UNCHANGED <<db, manager, st>>
    BY DEF ConnectionStep, ConnectionNew, ConnectionStoreOption, ConnectionForwardOption,
       ConnectionInitNewFails, ConnectionInitDone, ConnectionReleaseTemp, ConnectionReleaseDriver,
       ConnectionCall
  <1>2. \E h : cn' = [cn EXCEPT ![c] = h]
    BY SMT DEF HInv, ConnectionStep, ConnectionNew, ConnectionStoreOption, ConnectionForwardOption,
       ConnectionInitNewFails, ConnectionInitDone, ConnectionReleaseTemp, ConnectionReleaseDriver,
       ConnectionCall
  <1>3. \A d \in Connections \ {c} : cn'[d] = cn[d]
    BY <1>2 DEF HInv
  <1>4. heap' = (heap \ {cn[c].data}) \cup ({cn'[c].data} \ {Null})
    <2>1. Null \notin heap /\ (cn[c].data # Null => cn[c].data \in heap)
      BY DEF NoLeak, Reachable
    <2>2. CASE ConnectionNew(c)
      BY <2>1, <2>2, Kinds, SMT DEF ConnectionNew, HInv, CnOf, Connected
    <2>3. CASE ConnectionInitNewFails(c) \/ ConnectionReleaseTemp(c)
      BY <2>3, Kinds, SMT DEF ConnectionInitNewFails, ConnectionReleaseTemp, HInv, Zeroed
    <2>4. CASE ConnectionInitDone(c)
      BY <2>4, Kinds, SMT DEF ConnectionInitDone, HInv
    <2>5. CASE ConnectionReleaseDriver(c)
      BY <2>1, <2>5, SMT DEF ConnectionReleaseDriver, HInv, Zeroed
    <2>6. CASE UNCHANGED <<heap, cn>>
      BY <2>1, <2>6
    <2> QED
      BY <2>2, <2>3, <2>4, <2>5, <2>6 DEF ConnectionStep, ConnectionStoreOption,
         ConnectionForwardOption, ConnectionCall
  <1> QED
    BY <1>1, <1>3, <1>4, HInvOwned, ConnectionReplaces

LEMMA StatementMemory ==
  ASSUME HInv, NoLeak, NEW s \in Statements, StatementStep(s)
  PROVE  NoLeak'
  <1> USE DEF vars, cnVars, dbVars
  <1>1. UNCHANGED <<db, manager, cn>>
    BY DEF StatementStep, StatementNew, StatementCall, StatementRelease
  <1>2. \E h : st' = [st EXCEPT ![s] = h]
    BY SMT DEF HInv, StatementStep, StatementNew, StatementCall, StatementRelease
  <1>3. \A r \in Statements \ {s} : st'[r] = st[r]
    BY <1>2 DEF HInv
  <1>4. heap' = (heap \ {st[s].data}) \cup ({st'[s].data} \ {Null})
    <2>1. Null \notin heap /\ (st[s].data # Null => st[s].data \in heap)
      BY DEF NoLeak, Reachable
    <2>2. ASSUME NEW c \in Connections, StatementNew(c, s)
          PROVE  heap' = (heap \ {st[s].data}) \cup ({st'[s].data} \ {Null})
      <3>1. st[s].data = Null
        BY <2>2, SMT DEF StatementNew, HInv, StOf, NoStatement
      <3> QED
        BY <2>1, <2>2, <3>1, Kinds, SMT DEF StatementNew, HInv
    <2>3. CASE StatementRelease(s)
      BY <2>1, <2>3, SMT DEF StatementRelease, HInv, NoStatement
    <2>4. CASE UNCHANGED <<heap, st>>
      BY <2>1, <2>4
    <2> QED
      BY <2>2, <2>3, <2>4 DEF StatementStep, StatementCall
  <1> QED
    BY <1>1, <1>3, <1>4, HInvOwned, StatementReplaces

\* If the driver's DatabaseNew and DatabaseRelease do not fail, what is
\* allocated is exactly what the handles refer to: no call leaks an object
\* and none frees one that a handle still points to.
THEOREM NothingLeaks ==
  ~MayFail("DatabaseNew") /\ ~MayFail("DatabaseRelease") => (Spec => []NoLeak)
  <1> SUFFICES ASSUME ~MayFail("DatabaseNew"), ~MayFail("DatabaseRelease")
               PROVE  Spec => []NoLeak
    OBVIOUS
  <1>1. Init => NoLeak
    BY SMT DEF Init, NoLeak, Reachable, Zeroed, NoStatement
  <1>2. HInv /\ NoLeak /\ [Next]_vars => NoLeak'
    <2> SUFFICES ASSUME HInv, NoLeak, [Next]_vars
                 PROVE  NoLeak'
      OBVIOUS
    <2>1. CASE Fault \/ UNCHANGED vars
      BY <2>1, FaultKeeps DEF vars, dbVars, cnVars, NoLeak, Reachable
    <2> QED
      BY <2>1, DatabaseMemory, ConnectionMemory, StatementMemory DEF Next
  <1> QED
    BY <1>1, <1>2, HandleInvariance, PTL DEF Spec

-----------------------------------------------------------------------------
(* The R package.  A pointer's environment keeps the pointer that its      *)
(* handle was made from, which is older.  So what a collection dooms is    *)
(* closed under "was made from it", and the one registered last among the  *)
(* doomed is one that nothing left was made from.                          *)

\* Drivers do not fail to release a statement.
StatementsGo == "StatementRelease" \notin Failures

\* What a pointer's environment keeps, which is all that it protects.
Keeps ==
  /\ tag \in [Xptrs -> Xptrs \cup {Nil}] /\ prot \in [Xptrs -> Xptrs \cup {Nil}]
  /\ \A x \in Xptrs : prot[x] \in {Nil, tag[x]}
  /\ tag[Database] = Nil
  /\ \A c \in Connections : tag[c] = IF c \in made THEN Database ELSE Nil
  /\ \A s \in Statements : IF s \in made THEN tag[s] \in Connections ELSE tag[s] = Nil

PtrInv ==
  /\ made \subseteq Xptrs /\ held \subseteq made /\ doomed \subseteq made
  /\ held \cap doomed = {}
  /\ older \in [Xptrs -> SUBSET made]
  /\ Keeps
  /\ \A x \in made : tag[x] # Nil => /\ tag[x] \in made /\ tag[x] \in older[x] /\ x \notin older[tag[x]]
                                     /\ tag[x] \in doomed => x \in doomed

\* A handle in use is in a pointer that still has its finalizer.
InPtrs ==
  /\ \A c \in Connections : cn[c].driver # Null => c \in made
  /\ \A s \in Statements : st[s].of \in Connections => s \in made /\ st[s].of = tag[s]

RInv == HInv /\ PtrInv /\ InPtrs /\ ~early

LEMMA XptrsDiffer ==
  /\ Database \in Xptrs /\ Connections \subseteq Xptrs /\ Statements \subseteq Xptrs
  /\ \A x \in Xptrs : x = Database \/ x \in Connections \/ x \in Statements
  /\ \A c \in Connections : c # Database /\ c \notin Statements
  /\ \A s \in Statements : s # Database /\ s \notin Connections
  /\ Nil \notin Xptrs
  BY XptrsAssumption DEF Xptrs

\* A new pointer, whose environment keeps one that a program holds.
LEMMA PtrAllocated ==
  ASSUME PtrInv, NEW x \in Xptrs, Allocate(x), held' = held \cup {x}, doomed' = doomed,
         NEW p \in held \cup {Nil}, tag' = [tag EXCEPT ![x] = p],
         prot' = prot \/ prot' = [prot EXCEPT ![x] = p],
         x = Database <=> p = Nil,
         x \in Connections => p = Database,
         x \in Statements => p \in Connections
  PROVE  PtrInv'
  <1>0. /\ x \notin made /\ doomed = {} /\ made' = made \cup {x} /\ older' = [older EXCEPT ![x] = made]
        /\ p # x /\ p \in made \cup {Nil}
    BY XptrsDiffer DEF Allocate, PtrInv
  <1>1. tag[x] = Nil
    BY <1>0, XptrsDiffer DEF PtrInv, Keeps
  <1>2. /\ made' \subseteq Xptrs /\ held' \subseteq made' /\ doomed' = {}
        /\ older' \in [Xptrs -> SUBSET made']
    BY <1>0 DEF PtrInv
  <1>3. tag' \in [Xptrs -> Xptrs \cup {Nil}] /\ prot' \in [Xptrs -> Xptrs \cup {Nil}]
    BY <1>0, SMT DEF PtrInv, Keeps
  <1>4. \A y \in Xptrs : prot'[y] \in {Nil, tag'[y]}
    BY <1>1, SMT DEF PtrInv, Keeps
  <1>5. \A y \in Xptrs \ {x} : tag'[y] = tag[y] /\ (y \in made' <=> y \in made)
    BY <1>0, SMT DEF PtrInv, Keeps
  <1>6. tag'[x] = p /\ x \in made'
    BY <1>0, SMT DEF PtrInv, Keeps
  <1>7. Keeps'
    BY <1>3, <1>4, <1>5, <1>6, XptrsDiffer, SMT DEF PtrInv, Keeps
  <1>8. ASSUME NEW y \in made', tag'[y] # Nil
        PROVE  tag'[y] \in made' /\ tag'[y] \in older'[y] /\ y \notin older'[tag'[y]]
    <2>1. CASE y = x
      BY <1>0, <1>6, <1>8, <2>1, SMT DEF PtrInv
    <2>2. CASE y # x
      <3>1. y \in made /\ tag'[y] = tag[y] /\ tag[y] \in made /\ tag[y] # x
        BY <1>0, <1>5, <1>8, <2>2 DEF PtrInv
      <3>2. older'[y] = older[y] /\ older'[tag[y]] = older[tag[y]]
        BY <1>0, <2>2, <3>1 DEF PtrInv
      <3> QED
        BY <1>0, <1>8, <3>1, <3>2, SMT DEF PtrInv
    <2> QED
      BY <2>1, <2>2
  <1> QED
    BY <1>2, <1>7, <1>8 DEF PtrInv

\* What a program holds, and what is protected, may change.
LEMMA PtrKept ==
  ASSUME PtrInv, UNCHANGED <<made, older, tag, doomed>>, held' \subseteq held,
         prot' \in [Xptrs -> Xptrs \cup {Nil}],
         \A x \in Xptrs : prot'[x] \in {Nil, tag[x]}
  PROVE  PtrInv'
  BY DEF PtrInv, Keeps

\* What is reached keeps what it reaches.
LEMMA ReachedIsClosed ==
  ASSUME PtrInv, NEW x \in Reached, tag[x] # Nil
  PROVE  held \subseteq Reached /\ tag[x] \in Reached
  <1> DEFINE step(xs) == xs \cup UNION {Refs(y) : y \in xs}
  <1>1. Reached = step(step(held))
    BY DEF Reached
  <1>2. \A y \in Xptrs : Refs(y) = {tag[y]} \ {Nil}
    BY SMT DEF PtrInv, Keeps, Refs
  <1>3. \A y \in Xptrs : tag[y] # Nil => tag[y] \in Xptrs /\ (tag[tag[y]] # Nil => tag[tag[tag[y]]] = Nil)
    BY XptrsDiffer DEF PtrInv, Keeps
  <1>4. ASSUME NEW xs \in SUBSET Xptrs, NEW y
        PROVE  y \in step(xs) <=> y \in xs \/ \E z \in xs : y = tag[z] /\ tag[z] # Nil
    BY <1>2, <1>4, SMT
  <1>5. held \subseteq Xptrs
    BY DEF PtrInv
  <1> HIDE DEF step
  <1>6. step(held) \subseteq Xptrs
    BY <1>3, <1>4, <1>5, SMT
  <1>7. held \subseteq Reached
    BY <1>1, <1>4, <1>5, <1>6
  <1>8. CASE x \in step(held)
    BY <1>1, <1>4, <1>6, <1>7, <1>8
  <1>9. ASSUME NEW z \in step(held), x = tag[z], tag[z] # Nil
        PROVE  tag[x] \in Reached
    <2>1. CASE z \in held
      <3>1. x \in step(held)
        BY <1>4, <1>5, <1>9, <2>1
      <3> QED
        BY <1>8, <3>1
    <2>2. ASSUME NEW y \in held, z = tag[y], tag[y] # Nil
          PROVE  FALSE
      BY <1>3, <1>5, <1>9, <2>2
    <2> QED
      BY <1>4, <1>5, <1>9, <2>1, <2>2
  <1> QED
    BY <1>1, <1>4, <1>6, <1>7, <1>8, <1>9

\* A collection dooms what was made from what it dooms.
LEMMA PtrCollected ==
  ASSUME PtrInv, Collect
  PROVE  PtrInv'
  <1>1. held \subseteq Reached
    BY DEF Reached
  <1>2. \A x \in made : tag[x] # Nil /\ tag[x] \in doomed' => x \in doomed'
    BY ReachedIsClosed DEF Collect
  <1>3. Keeps'
    BY DEF Collect, PtrInv, Keeps
  <1> QED
    BY <1>1, <1>2, <1>3 DEF Collect, PtrInv

\* Nothing that is left was made from what is finalized next.
LEMMA NothingMadeFrom ==
  ASSUME PtrInv, NEW x \in Xptrs, LastOfDoomed(x)
  PROVE  \A y \in made : tag[y] # x
  BY XptrsDiffer, SMT DEF PtrInv, LastOfDoomed

LEMMA PtrFinalized ==
  ASSUME PtrInv, NEW x \in Xptrs, LastOfDoomed(x), Finalized(x)
  PROVE  PtrInv'
  <1>1. /\ doomed' = doomed \ {x} /\ made' = made \ {x} /\ held' = held /\ x \in doomed
        /\ older' = [y \in Xptrs |-> IF y = x THEN {} ELSE older[y] \ {x}]
        /\ tag' = [tag EXCEPT ![x] = Nil] /\ prot' = [prot EXCEPT ![x] = Nil]
    BY DEF Finalized, LastOfDoomed
  <1>2. /\ made' \subseteq Xptrs /\ held' \subseteq made' /\ doomed' \subseteq made'
        /\ held' \cap doomed' = {}
        /\ older' \in [Xptrs -> SUBSET made']
    BY <1>1, SMT DEF PtrInv
  <1>3. tag' \in [Xptrs -> Xptrs \cup {Nil}] /\ prot' \in [Xptrs -> Xptrs \cup {Nil}]
    BY <1>1 DEF PtrInv, Keeps
  <1>4. /\ tag'[x] = Nil /\ x \notin made' /\ prot'[x] = Nil
        /\ \A y \in Xptrs \ {x} : /\ tag'[y] = tag[y] /\ prot'[y] = prot[y]
                                  /\ y \in made' <=> y \in made
    BY <1>1, SMT DEF PtrInv, Keeps
  <1>5. Keeps'
    BY <1>3, <1>4, XptrsDiffer, SMT DEF PtrInv, Keeps
  <1>6. ASSUME NEW y \in made', tag'[y] # Nil
        PROVE  /\ tag'[y] \in made' /\ tag'[y] \in older'[y] /\ y \notin older'[tag'[y]]
               /\ tag'[y] \in doomed' => y \in doomed'
    <2>1. y \in made /\ y # x /\ tag'[y] = tag[y] /\ tag[y] # x
      BY <1>1, <1>2, <1>4, NothingMadeFrom
    <2>2. tag[y] \in Xptrs /\ y \in Xptrs
      BY <1>2, <1>6, <2>1 DEF PtrInv
    <2>3. older'[y] = older[y] \ {x} /\ older'[tag[y]] = older[tag[y]] \ {x}
      BY <1>1, <2>1, <2>2
    <2> QED
      BY <1>1, <1>6, <2>1, <2>3, SMT DEF PtrInv
  <1> QED
    BY <1>2, <1>5, <1>6 DEF PtrInv

-----------------------------------------------------------------------------
(* The handles in the pointers.                                            *)

\* RAdbcDatabaseNew, which may set the initialization function at once.
LEMMA DatabaseAnew == HInv /\ RAdbcDatabaseNew => HInv'
  <1> SUFFICES ASSUME HInv, RAdbcDatabaseNew PROVE HInv'
    OBVIOUS
  <1>1. cn' = cn /\ st' = st /\ db.phase = "none" /\ fault' = fault
    BY DEF RAdbcDatabaseNew, cnVars
  <1>2. heap \subseteq heap'
    BY DEF RAdbcDatabaseNew
  <1>3. \A c \in Connections : CnOf(c)'
    BY <1>1, <1>2, CnFrame DEF HInv
  <1>4. \A s \in Statements : StOf(s)'
    <2> TAKE s \in Statements
    <2>1. \A c \in Connections : ~Live(c)
      BY <1>1 DEF Live, Connected
    <2> QED
      BY <1>1, <2>1, StFrame DEF HInv
  <1>5. Db'
    BY SMT DEF HInv, Db, RAdbcDatabaseNew
  <1> QED
    BY <1>1, <1>3, <1>4, <1>5 DEF HInv

\* A finalizer that has nothing to release frees the handle.
LEMMA DatabaseFreed ==
  ASSUME HInv, Unused, db.data = Null, db' = Zeroed,
         UNCHANGED <<heap, gen, args, table, manager, drvOpts, asked, cnVars, st, fault>>
  PROVE  HInv'
  <1>1. cn' = cn /\ st' = st /\ UNCHANGED <<heap, gen, manager, fault>>
    BY DEF cnVars
  <1>2. db.phase # "open" /\ gen \in {0, 1}
    BY DbPoints DEF HInv, Db
  <1>3. Db'
    <2>1. manager = Null
      BY <1>2 DEF HInv, Db
    <2> QED
      BY <1>1, <1>2, <2>1 DEF Db, Zeroed
  <1>4. \A c \in Connections : CnOf(c)'
    BY <1>1, <1>2, CnFrame DEF HInv
  <1>5. \A s \in Statements : StOf(s)'
    <2> TAKE s \in Statements
    <2>1. \A c \in Connections : ~Live(c)
      BY <1>2 DEF Live, Connected
    <2> QED
      BY <1>1, <2>1, StFrame DEF HInv
  <1> QED
    BY <1>1, <1>3, <1>4, <1>5, SMT DEF HInv

LEMMA ConnectionFreed ==
  ASSUME HInv, NEW c \in Connections, cn[c].data = Null, cn' = [cn EXCEPT ![c] = Zeroed],
         UNCHANGED <<heap, dbVars, cnArgs, cnOpts, cnAsked, st, fault>>
  PROVE  HInv'
  <1>1. cn'[c] = Zeroed /\ \A d \in Connections \ {c} : cn'[d] = cn[d]
    BY DEF HInv
  <1>2. UNCHANGED <<heap, gen, db, table, manager, st, fault>>
    BY DEF dbVars
  <1>3. Db'
    BY <1>2 DEF HInv, Db
  <1>4. \A d \in Connections : CnOf(d)'
    <2>1. CnOf(c)'
      BY <1>1 DEF CnOf, Zeroed
    <2>2. \A d \in Connections \ {c} : CnOf(d)'
      BY <1>1, <1>2, CnFrame DEF HInv
    <2> QED
      BY <2>1, <2>2
  <1>5. \A s \in Statements : StOf(s)'
    <2> TAKE s \in Statements
    <2>1. ~Live(c)
      BY Kinds, SMT DEF Live, Connected
    <2>2. \A d \in Connections : Live(d) => Live(d)' /\ gen' = gen
      BY <1>1, <1>2, <2>1, ConnectedFrame
    <2> QED
      BY <1>2, <2>2, StFrame DEF HInv
  <1>6. DOMAIN cn' = Connections /\ cn' = [d \in Connections |-> cn'[d]]
    BY DEF HInv
  <1> QED
    BY <1>2, <1>3, <1>4, <1>5, <1>6, SMT DEF HInv

LEMMA StatementFreed ==
  ASSUME HInv, NEW s \in Statements, st' = [st EXCEPT ![s] = NoStatement],
         UNCHANGED <<heap, dbVars, cnVars, fault>>
  PROVE  HInv'
  <1>1. st'[s] = NoStatement /\ \A r \in Statements \ {s} : st'[r] = st[r]
    BY DEF HInv
  <1>2. UNCHANGED <<heap, gen, db, table, manager, cn, fault>>
    BY DEF dbVars, cnVars
  <1>3. Db' /\ \A c \in Connections : CnOf(c)'
    BY <1>2, CnFrame DEF HInv, Db
  <1>4. \A r \in Statements : StOf(r)'
    <2>1. StOf(s)'
      BY <1>1 DEF StOf
    <2>2. \A c \in Connections : Live(c) => Live(c)' /\ gen' = gen
      BY <1>2, ConnectedFrame
    <2>3. \A r \in Statements \ {s} : StOf(r)'
      BY <1>1, <2>2, StFrame DEF HInv
    <2> QED
      BY <2>1, <2>3
  <1>5. DOMAIN st' = Statements /\ st' = [r \in Statements |-> st'[r]]
    BY DEF HInv
  <1> QED
    BY <1>2, <1>3, <1>4, <1>5, SMT DEF HInv

\* Releasing leaves no handle in use behind.
LEMMA ConnectionGoes ==
  ASSUME HInv, NEW c \in Connections, ConnectionReleaseTemp(c) \/ ConnectionReleaseDriver(c)
  PROVE  cn'[c].driver = Null /\ \A d \in Connections \ {c} : cn'[d] = cn[d]
  BY SMT DEF HInv, ConnectionReleaseTemp, ConnectionReleaseDriver, Zeroed

LEMMA StatementGoes ==
  ASSUME StatementsGo, HInv, NEW s \in Statements, StatementRelease(s)
  PROVE  st'[s] = NoStatement /\ \A r \in Statements \ {s} : st'[r] = st[r]
  BY DEF StatementsGo, MayFail, HInv, StatementRelease

\* A statement that has a driver was made from a connection that has one.
LEMMA DriverThroughConnection ==
  ASSUME HInv, NEW s \in Statements, st[s].driver # Null
  PROVE  \E c \in Connections : cn[c].driver # Null
  <1>1. Driver(gen) # Null
    BY Kinds
  <1>2. st[s] # NoStatement
    BY SMT DEF NoStatement
  <1>3. \A c : st[s] # [data |-> DriverStatement(s), driver |-> Null, phase |-> "stuck", of |-> c]
    BY SMT
  <1>4. PICK c \in Connections : Live(c)
    BY <1>2, <1>3 DEF HInv, StOf
  <1> QED
    BY <1>1, <1>4, SMT DEF Live, Connected

LEMMA RDatabaseStep ==
  ASSUME RInv, \/ RAdbcDatabaseNew \/ RAdbcDatabaseSetOption \/ RAdbcDatabaseInit
               \/ RAdbcDatabaseRelease \/ FinalizeDatabase \/ RAdbcDatabaseSetOptionFaults
  PROVE  RInv'
  <1>0. HInv /\ PtrInv /\ Keeps /\ InPtrs /\ ~early
    BY DEF RInv, PtrInv
  <1>1. cn' = cn /\ st' = st
    BY DEF RAdbcDatabaseNew, RAdbcDatabaseSetOption, RAdbcDatabaseInit, RAdbcDatabaseRelease,
       FinalizeDatabase, DatabaseStoreDriver, DatabaseStoreOption, DatabaseForwardOption,
       DatabaseInitNotLoaded, DatabaseInitOptionFails, DatabaseInitDone, DatabaseReleaseTemp,
       DatabaseReleaseDriver, RAdbcDatabaseSetOptionFaults, DatabaseFault, GoesWrong, vars, cnVars
  <1>2. CASE RAdbcDatabaseNew
    <2>1. HInv'
      BY <1>0, <1>2, DatabaseAnew
    <2>2. /\ Allocate(Database) /\ held' = held \cup {Database}
          /\ UNCHANGED <<tag, prot, doomed, early>>
      BY <1>2 DEF RAdbcDatabaseNew
    <2>3. tag' = [tag EXCEPT ![Database] = Nil]
      BY <1>0, <2>2 DEF Keeps
    <2>4. PtrInv'
      BY <1>0, <2>2, <2>3, PtrAllocated, XptrsDiffer
    <2>5. made \subseteq made'
      BY <2>2 DEF Allocate
    <2> QED
      BY <1>0, <1>1, <2>1, <2>2, <2>4, <2>5 DEF RInv, InPtrs
  <1>3. CASE RAdbcDatabaseSetOption \/ RAdbcDatabaseInit \/ RAdbcDatabaseSetOptionFaults
    <2>1. UNCHANGED rVars
      BY <1>3 DEF RAdbcDatabaseSetOption, RAdbcDatabaseInit, RAdbcDatabaseSetOptionFaults
    <2>2. HInv'
      <3>1. ASSUME NEW t \in {MonkeyDriver, VoidDriver}, DatabaseInitDone(t) PROVE HInv'
        BY <1>0, <3>1, DatabaseLoads
      <3>2. CASE \/ DatabaseStoreDriver
                 \/ \E k \in Keys, v \in Values : DatabaseStoreOption(k, v) \/ DatabaseForwardOption(k, v)
                 \/ DatabaseInitNotLoaded \/ DatabaseInitOptionFails
        <4>1. DatabaseStep
          BY <3>2 DEF DatabaseStep
        <4>2. db'.phase = db.phase \/ db'.phase = "failed"
          BY <3>2 DEF DatabaseStoreDriver, DatabaseStoreOption, DatabaseForwardOption,
             DatabaseInitNotLoaded, DatabaseInitOptionFails, Zeroed, vars, dbVars
        <4>3. db.phase # "none"
          BY <1>0, <3>2, DbCalls, DbPoints DEF HInv, DatabaseStoreDriver, DatabaseStoreOption,
             DatabaseForwardOption, DatabaseInitNotLoaded, DatabaseInitOptionFails
        <4>4. ~DatabaseReleaseTemp /\ ~DatabaseReleaseDriver
          BY <4>2, <4>3, SMT DEF DatabaseReleaseTemp, DatabaseReleaseDriver, Zeroed
        <4>5. \A t \in Tables : ~DatabaseInitDone(t)
          BY <1>0, <4>2, DbCalls, SMT DEF HInv, DatabaseInitDone
        <4> QED
          BY <1>0, <4>1, <4>4, <4>5, DatabaseKeeps
      <3>3. CASE RAdbcDatabaseSetOptionFaults
        BY <1>0, <3>3, HInvSame DEF RAdbcDatabaseSetOptionFaults, DatabaseFault, GoesWrong
      <3> QED
        BY <1>3, <3>1, <3>2, <3>3 DEF RAdbcDatabaseSetOption, RAdbcDatabaseInit
    <2>3. PtrInv'
      BY <1>0, <2>1, PtrKept DEF rVars, Keeps
    <2> QED
      BY <1>0, <1>1, <2>1, <2>2, <2>3 DEF RInv, InPtrs, rVars
  <1>4. CASE RAdbcDatabaseRelease
    <2>1. HInv'
      BY <1>0, <1>4, DatabaseReleases DEF RAdbcDatabaseRelease
    <2>2. UNCHANGED <<made, older, held, tag, prot, doomed, early>>
      BY <1>0, <1>4 DEF RAdbcDatabaseRelease, Keeps
    <2>3. PtrInv'
      BY <1>0, <2>2, PtrKept DEF Keeps
    <2> QED
      BY <1>0, <1>1, <2>1, <2>2, <2>3 DEF RInv, InPtrs
  <1>5. CASE FinalizeDatabase
    <2>1. LastOfDoomed(Database) /\ Finalized(Database)
      BY <1>5 DEF FinalizeDatabase
    <2>2. \A c \in Connections : c \notin made
      BY <1>0, <2>1, NothingMadeFrom, XptrsDiffer DEF Keeps
    <2>3. Unused
      BY <1>0, <2>2, DriverThroughConnection DEF Unused, InPtrs
    <2>4. ~early'
      BY <1>0, <1>5, <2>3 DEF FinalizeDatabase
    <2>5. HInv'
      BY <1>0, <1>5, <2>3, DatabaseReleases, DatabaseFreed DEF FinalizeDatabase
    <2>6. PtrInv'
      BY <1>0, <2>1, PtrFinalized, XptrsDiffer
    <2>7. \A x \in Xptrs \ {Database} : (x \in made' <=> x \in made) /\ tag'[x] = tag[x]
      BY <1>0, <2>1 DEF Finalized, Keeps
    <2> QED
      BY <1>0, <1>1, <2>4, <2>5, <2>6, <2>7, XptrsDiffer DEF RInv, InPtrs
  <1> QED
    BY <1>2, <1>3, <1>4, <1>5

LEMMA RConnectionStep ==
  ASSUME RInv, NEW c \in Connections,
         \/ RAdbcConnectionNew(c) \/ RAdbcConnectionInit(c) \/ RAdbcConnectionSetOption(c)
         \/ RAdbcConnectionCall(c) \/ RAdbcConnectionRelease(c) \/ FinalizeConnection(c)
  PROVE  RInv'
  <1>0. HInv /\ PtrInv /\ Keeps /\ InPtrs /\ ~early /\ c \in Xptrs /\ held \subseteq made
    BY XptrsDiffer DEF RInv, PtrInv
  <1>1. st' = st /\ \A d \in Connections \ {c} : cn'[d] = cn[d]
    BY <1>0 DEF HInv, RAdbcConnectionNew, RAdbcConnectionInit, RAdbcConnectionSetOption,
       RAdbcConnectionCall, RAdbcConnectionRelease, FinalizeConnection, ConnectionNew,
       ConnectionStoreOption, ConnectionForwardOption, ConnectionInitNewFails, ConnectionInitDone,
       ConnectionCall, ConnectionReleaseTemp, ConnectionReleaseDriver, vars, cnVars
  <1>2. ConnectionStep(c) => HInv'
    BY <1>0, ConnectionKeeps
  <1>3. CASE RAdbcConnectionNew(c)
    <2>1. /\ Uses(Database) /\ Allocate(c) /\ ConnectionNew(c) /\ held' = held \cup {c}
          /\ tag' = [tag EXCEPT ![c] = Database] /\ UNCHANGED <<prot, doomed, early>>
      BY <1>3 DEF RAdbcConnectionNew
    <2>2. HInv'
      BY <1>2, <2>1 DEF ConnectionStep
    <2>3. PtrInv'
      BY <1>0, <2>1, PtrAllocated, XptrsDiffer DEF Uses
    <2>4. made' = made \cup {c} /\ \A s \in Statements : tag'[s] = tag[s]
      BY <1>0, <2>1, XptrsDiffer, SMT DEF Allocate, Keeps
    <2> QED
      BY <1>0, <1>1, <2>1, <2>2, <2>3, <2>4 DEF RInv, InPtrs
  <1>4. CASE RAdbcConnectionInit(c)
    <2>1. /\ Uses(c)
          /\ ConnectionInitNewFails(c) \/ ConnectionInitDone(c)
          /\ held' \subseteq held /\ UNCHANGED <<made, older, tag, doomed, early>>
          /\ prot' = prot \/ prot' = [prot EXCEPT ![c] = Database]
      BY <1>4 DEF RAdbcConnectionInit
    <2>2. HInv'
      BY <1>2, <2>1 DEF ConnectionStep
    <2>3. c \in made /\ tag[c] = Database
      BY <1>0, <2>1 DEF Uses, Keeps
    <2>4. PtrInv'
      BY <1>0, <2>1, <2>3, PtrKept, XptrsDiffer, SMT DEF Keeps
    <2> QED
      BY <1>0, <1>1, <2>1, <2>2, <2>3, <2>4 DEF RInv, InPtrs
  <1>5. CASE RAdbcConnectionSetOption(c) \/ RAdbcConnectionCall(c)
    <2>1. UNCHANGED rVars
      BY <1>5 DEF RAdbcConnectionSetOption, RAdbcConnectionCall
    <2>2. HInv'
      BY <1>2, <1>5 DEF RAdbcConnectionSetOption, RAdbcConnectionCall, ConnectionStep
    <2>3. cn' = cn
      BY <1>5 DEF RAdbcConnectionSetOption, RAdbcConnectionCall, ConnectionStoreOption,
         ConnectionForwardOption, ConnectionCall, vars, cnVars
    <2>4. PtrInv'
      BY <1>0, <2>1, PtrKept DEF rVars, Keeps
    <2> QED
      BY <1>0, <1>1, <2>1, <2>2, <2>3, <2>4 DEF RInv, InPtrs, rVars
  <1>6. CASE RAdbcConnectionRelease(c)
    <2>1. /\ ConnectionReleaseTemp(c) \/ ConnectionReleaseDriver(c)
          /\ prot' = [prot EXCEPT ![c] = Nil] /\ UNCHANGED <<made, older, held, tag, doomed, early>>
      BY <1>6 DEF RAdbcConnectionRelease
    <2>2. HInv'
      BY <1>2, <2>1 DEF ConnectionStep
    <2>3. PtrInv'
      BY <1>0, <2>1, PtrKept DEF Keeps
    <2> QED
      BY <1>0, <1>1, <2>1, <2>2, <2>3, ConnectionGoes DEF RInv, InPtrs
  <1>7. CASE FinalizeConnection(c)
    <2>1. LastOfDoomed(c) /\ Finalized(c)
      BY <1>7 DEF FinalizeConnection
    <2>2. \A s \in Statements : st[s].of # c
      BY <1>0, <2>1, NothingMadeFrom DEF InPtrs
    <2>3. ~early' /\ \/ ConnectionReleaseTemp(c) \/ ConnectionReleaseDriver(c)
                     \/ /\ cn[c].data = Null /\ cn' = [cn EXCEPT ![c] = Zeroed]
                        /\ UNCHANGED <<heap, dbVars, cnArgs, cnOpts, cnAsked, st, fault>>
      BY <1>0, <1>7, <2>2 DEF FinalizeConnection
    <2>4. HInv'
      BY <1>0, <1>2, <2>3, ConnectionFreed DEF ConnectionStep
    <2>5. cn'[c].driver = Null
      <3>1. CASE cn' = [cn EXCEPT ![c] = Zeroed]
        BY <1>0, <3>1 DEF HInv, Zeroed
      <3> QED
        BY <1>0, <2>3, <3>1, ConnectionGoes
    <2>6. PtrInv'
      BY <1>0, <2>1, PtrFinalized
    <2>7. \A x \in Xptrs \ {c} : (x \in made' <=> x \in made) /\ tag'[x] = tag[x]
      BY <1>0, <2>1 DEF Finalized, Keeps
    <2> QED
      BY <1>0, <1>1, <2>3, <2>4, <2>5, <2>6, <2>7, XptrsDiffer DEF RInv, InPtrs
  <1> QED
    BY <1>3, <1>4, <1>5, <1>6, <1>7

LEMMA RStatementStep ==
  ASSUME StatementsGo, RInv, NEW s \in Statements,
         \/ \E c \in Connections : RAdbcStatementNew(c, s)
         \/ \E a \in Streams : RAdbcStatementBindStream(s, a)
         \/ RAdbcStatementExecuteQuery(s) \/ RAdbcStatementCall(s)
         \/ RAdbcStatementRelease(s) \/ FinalizeStatement(s)
  PROVE  RInv'
  <1>0. HInv /\ PtrInv /\ Keeps /\ InPtrs /\ ~early /\ s \in Xptrs /\ held \subseteq made
    BY XptrsDiffer DEF RInv, PtrInv
  <1>1. cn' = cn /\ \A r \in Statements \ {s} : st'[r] = st[r]
    BY <1>0 DEF HInv, RAdbcStatementNew, RAdbcStatementBindStream, RAdbcStatementExecuteQuery,
       RAdbcStatementCall, RAdbcStatementRelease, FinalizeStatement, StatementNew, StatementCall,
       StatementRelease, vars, cnVars
  <1>2. StatementStep(s) => HInv'
    BY <1>0, StatementKeeps
  <1>3. NoStatement.of \notin Connections
    BY XptrsAssumption DEF NoStatement
  <1>4. ASSUME NEW c \in Connections, RAdbcStatementNew(c, s) PROVE RInv'
    <2>1. /\ Uses(c) /\ Allocate(s) /\ StatementNew(c, s) /\ held' = held \cup {s}
          /\ tag' = [tag EXCEPT ![s] = c] /\ prot' = [prot EXCEPT ![s] = c]
          /\ UNCHANGED <<doomed, early>>
      BY <1>4 DEF RAdbcStatementNew
    <2>2. HInv'
      BY <1>2, <2>1 DEF StatementStep
    <2>3. PtrInv'
      BY <1>0, <2>1, PtrAllocated, XptrsDiffer DEF Uses
    <2>4. made' = made \cup {s} /\ tag'[s] = c /\ \A r \in Statements \ {s} : tag'[r] = tag[r]
      BY <1>0, <2>1, XptrsDiffer DEF Allocate, Keeps
    <2>5. st'[s].of = c
      BY <1>0, <2>1, SMT DEF HInv, StatementNew
    <2> QED
      BY <1>0, <1>1, <2>1, <2>2, <2>3, <2>4, <2>5 DEF RInv, InPtrs
  <1>5. CASE \/ \E a \in Streams : RAdbcStatementBindStream(s, a)
             \/ RAdbcStatementExecuteQuery(s) \/ RAdbcStatementCall(s)
    <2>1. /\ UNCHANGED <<made, older, held, tag, prot, doomed, early>>
          /\ \E f \in StatementCalls : StatementCall(s, f)
      <3>1. {"StatementBindStream", "StatementExecuteQuery"} \subseteq StatementCalls
        BY DEF StatementCalls
      <3> QED
        BY <1>5, <3>1 DEF RAdbcStatementBindStream, RAdbcStatementExecuteQuery,
           RAdbcStatementCall, rVars
    <2>2. HInv'
      BY <1>2, <2>1 DEF StatementStep
    <2>3. st' = st
      BY <2>1 DEF StatementCall, vars
    <2>4. PtrInv'
      BY <1>0, <2>1, PtrKept DEF Keeps
    <2> QED
      BY <1>0, <1>1, <2>1, <2>2, <2>3, <2>4 DEF RInv, InPtrs
  <1>6. CASE RAdbcStatementRelease(s)
    <2>1. /\ StatementRelease(s) /\ prot' = [prot EXCEPT ![s] = Nil]
          /\ UNCHANGED <<made, older, held, tag, doomed, early>>
      BY <1>6 DEF RAdbcStatementRelease
    <2>2. HInv'
      BY <1>2, <2>1 DEF StatementStep
    <2>3. PtrInv'
      BY <1>0, <2>1, PtrKept DEF Keeps
    <2>4. st'[s] = NoStatement
      BY <1>0, <2>1, StatementGoes
    <2> QED
      BY <1>0, <1>1, <1>3, <2>1, <2>2, <2>3, <2>4 DEF RInv, InPtrs
  <1>7. CASE FinalizeStatement(s)
    <2>1. LastOfDoomed(s) /\ Finalized(s) /\ UNCHANGED early
      BY <1>7 DEF FinalizeStatement
    <2>2. StatementRelease(s) \/ st' = [st EXCEPT ![s] = NoStatement]
      BY <1>7 DEF FinalizeStatement
    <2>3. HInv'
      BY <1>0, <1>2, <1>7, StatementFreed DEF FinalizeStatement, StatementStep
    <2>4. st'[s] = NoStatement
      BY <1>0, <2>2, StatementGoes DEF HInv
    <2>5. PtrInv'
      BY <1>0, <2>1, PtrFinalized
    <2>6. \A x \in Xptrs \ {s} : (x \in made' <=> x \in made) /\ tag'[x] = tag[x]
      BY <1>0, <2>1 DEF Finalized, Keeps
    <2> QED
      BY <1>0, <1>1, <1>3, <2>1, <2>3, <2>4, <2>5, <2>6, XptrsDiffer DEF RInv, InPtrs
  <1> QED
    BY <1>4, <1>5, <1>6, <1>7

LEMMA RInvStep ==
  ASSUME StatementsGo, RInv, [RNext]_<<vars, rVars>>
  PROVE  RInv'
  <1>1. CASE UNCHANGED <<vars, rVars>>
    <2>1. HInv'
      BY <1>1, HInvSame DEF vars, RInv
    <2>2. UNCHANGED <<cn, st, made, older, held, tag, prot, doomed, early>>
      BY <1>1 DEF vars, cnVars, rVars
    <2>3. PtrInv'
      BY <2>2, PtrKept DEF RInv, PtrInv, Keeps
    <2> QED
      BY <2>1, <2>2, <2>3 DEF RInv, InPtrs
  <1>2. ASSUME UNCHANGED <<vars, made, older, tag, prot, early>>, PtrInv' PROVE RInv'
    <2>1. HInv'
      BY <1>2, HInvSame DEF vars, RInv
    <2>2. UNCHANGED <<cn, st>>
      BY <1>2 DEF vars, cnVars
    <2> QED
      BY <1>2, <2>1, <2>2 DEF RInv, InPtrs
  <1>3. ASSUME NEW x \in Xptrs, Drop(x) PROVE RInv'
    <2>1. /\ UNCHANGED <<vars, made, older, tag, prot, doomed, early>>
          /\ held' \subseteq held
      BY <1>3 DEF Drop
    <2>2. PtrInv'
      BY <2>1, PtrKept DEF RInv, PtrInv, Keeps
    <2> QED
      BY <1>2, <2>1, <2>2
  <1>4. CASE Collect
    <2>1. PtrInv'
      BY <1>4, PtrCollected DEF RInv
    <2> QED
      BY <1>2, <1>4, <2>1 DEF Collect
  <1> QED
    BY <1>1, <1>3, <1>4, RDatabaseStep, RConnectionStep, RStatementStep DEF RNext

LEMMA RInitRInv == RInit => RInv
  <1> SUFFICES ASSUME RInit PROVE RInv
    OBVIOUS
  <1>1. HInv /\ RStart /\ Init
    BY InitHInv DEF RInit
  <1>2. PtrInv
    BY <1>1, XptrsDiffer DEF RStart, PtrInv, Keeps
  <1>3. InPtrs
    BY <1>1, XptrsAssumption DEF Init, InPtrs, Zeroed, NoStatement
  <1> QED
    BY <1>1, <1>2, <1>3 DEF RStart, RInv

\* In whatever order an R program drops its objects, and whichever functions
\* fail but StatementRelease, the finalizers release a statement before its
\* connection and a connection before its database.
THEOREM FinalizersAreOrdered == StatementsGo => (RSpec => []FinalizersInOrder)
  <1> SUFFICES ASSUME StatementsGo
               PROVE  RSpec => []FinalizersInOrder
    OBVIOUS
  <1>1. RInit => RInv
    BY RInitRInv
  <1>2. RInv /\ [RNext]_<<vars, rVars>> => RInv'
    BY RInvStep
  <1>3. RInv => FinalizersInOrder
    BY DEF RInv, FinalizersInOrder
  <1> QED
    BY <1>1, <1>2, <1>3, PTL DEF RSpec

-----------------------------------------------------------------------------
(* Streams.                                                                *)

\* The owners of a stream, who are statements or the program.
OwnersInv ==
  /\ owners \in [Streams -> SUBSET (Statements \cup {"program"})]
  /\ StreamsHaveOneOwner

\* Statements that own streams stay, or release them.
LEMMA OwnersKept ==
  ASSUME OwnersInv, owners' = owners,
         \A s \in Statements : st[s].data # Null => st'[s].data # Null
  PROVE  OwnersInv'
  <1>1. \A s : Bound(s)' = Bound(s)
    BY DEF Bound
  <1> QED
    BY <1>1 DEF OwnersInv, StreamsHaveOneOwner

\* Streams that one statement owned go to others together.
LEMMA OwnersMoved ==
  ASSUME OwnersInv, NEW s \in Statements, NEW o \in SUBSET {"program"},
         owners' = [a \in Streams |-> IF a \in Bound(s) THEN o ELSE owners[a]],
         \A r \in Statements \ {s} : st'[r] = st[r]
  PROVE  OwnersInv'
  <1>0. "program" \notin Statements
    BY XptrsAssumption
  <1>1. owners' \in [Streams -> SUBSET (Statements \cup {"program"})]
    BY DEF OwnersInv
  <1>2. \A a \in Streams : \A r \in Statements :
          r \in owners'[a] => r \in owners[a] /\ r # s
    BY <1>0 DEF OwnersInv, Bound
  <1>3. \A a \in Streams : \A p, q \in owners'[a] : p = q
    BY DEF OwnersInv, StreamsHaveOneOwner
  <1>4. \A a \in Streams : \A r \in owners'[a] \cap Statements :
          st'[r].data # Null /\ \A b \in Bound(r)' : a = b
    <2> SUFFICES ASSUME NEW a \in Streams, NEW r \in owners'[a] \cap Statements
                 PROVE  st'[r].data # Null /\ \A b \in Bound(r)' : a = b
      OBVIOUS
    <2>1. r \in owners[a] \cap Statements /\ r # s /\ st'[r] = st[r]
      BY <1>2
    <2>2. Bound(r)' \subseteq Bound(r)
      BY <1>2 DEF Bound
    <2> QED
      BY <2>1, <2>2 DEF OwnersInv, StreamsHaveOneOwner
  <1> QED
    BY <1>1, <1>3, <1>4 DEF OwnersInv, StreamsHaveOneOwner

LEMMA OwnersBound ==
  ASSUME RInv, OwnersInv, NEW s \in Statements, NEW a \in Streams, RAdbcStatementBindStream(s, a)
  PROVE  OwnersInv'
  <1>0. st' = st /\ st[s].data # Null
    BY DEF RAdbcStatementBindStream, StatementCall, vars
  <1> DEFINE new(b) == CASE b = a -> {s} [] b \in Bound(s) -> {} [] OTHER -> owners[b]
             moved(b) == IF b = a THEN {s} ELSE IF b \in Bound(s) THEN {} ELSE owners[b]
  <1>1. owners' = [b \in Streams |-> moved(b)]
    <2>1. owners' = [b \in Streams |-> new(b)]
      BY DEF RAdbcStatementBindStream
    <2>2. a \notin Bound(s)
      BY XptrsAssumption DEF RAdbcStatementBindStream, Bound
    <2>3. \A b \in Streams : new(b) = moved(b)
      BY <2>2
    <2> QED
      BY <2>1, <2>3
  <1>2. owners' \in [Streams -> SUBSET (Statements \cup {"program"})]
    BY <1>1 DEF OwnersInv
  <1>3. \A b \in Streams : \A r \in Statements :
          r \in owners'[b] <=> IF r = s THEN b = a ELSE r \in owners[b] /\ b # a /\ b \notin Bound(s)
    BY <1>1 DEF OwnersInv, Bound
  <1>4. \A b \in Streams : \A p, q \in owners'[b] : p = q
    BY <1>1 DEF OwnersInv, StreamsHaveOneOwner
  <1>5. \A b \in Streams : \A r \in owners'[b] \cap Statements :
          st'[r].data # Null /\ \A d \in Bound(r)' : b = d
    BY <1>0, <1>3, SMT DEF OwnersInv, StreamsHaveOneOwner, Bound
  <1> QED
    BY <1>2, <1>4, <1>5 DEF OwnersInv, StreamsHaveOneOwner

\* Steps that change no statement and no owner.
LEMMA OwnersElsewhere ==
  ASSUME OwnersInv, UNCHANGED <<st, owners>>
  PROVE  OwnersInv'
  BY OwnersKept

LEMMA OwnersStep ==
  ASSUME StatementsGo, RInv, OwnersInv, [RNext]_<<vars, rVars>>
  PROVE  OwnersInv'
  <1>1. CASE UNCHANGED <<vars, rVars>>
    BY <1>1, OwnersElsewhere DEF vars, rVars
  <1>2. CASE \/ RAdbcDatabaseNew \/ RAdbcDatabaseSetOption \/ RAdbcDatabaseInit
             \/ RAdbcDatabaseRelease \/ FinalizeDatabase \/ RAdbcDatabaseSetOptionFaults
    <2>1. UNCHANGED <<st, owners>>
      BY <1>2 DEF RAdbcDatabaseNew, RAdbcDatabaseSetOption, RAdbcDatabaseInit,
         RAdbcDatabaseRelease, FinalizeDatabase, DatabaseStoreDriver, DatabaseStoreOption,
         DatabaseForwardOption, DatabaseInitNotLoaded, DatabaseInitOptionFails, DatabaseInitDone,
         DatabaseReleaseTemp, DatabaseReleaseDriver, RAdbcDatabaseSetOptionFaults, DatabaseFault,
         GoesWrong, vars, rVars
    <2> QED
      BY <2>1, OwnersElsewhere
  <1>3. ASSUME NEW c \in Connections,
               \/ RAdbcConnectionNew(c) \/ RAdbcConnectionInit(c) \/ RAdbcConnectionSetOption(c)
               \/ RAdbcConnectionCall(c) \/ RAdbcConnectionRelease(c) \/ FinalizeConnection(c)
        PROVE  OwnersInv'
    <2>1. UNCHANGED <<st, owners>>
      BY <1>3 DEF RAdbcConnectionNew, RAdbcConnectionInit, RAdbcConnectionSetOption,
         RAdbcConnectionCall, RAdbcConnectionRelease, FinalizeConnection, ConnectionNew,
         ConnectionStoreOption, ConnectionForwardOption, ConnectionInitNewFails, ConnectionInitDone,
         ConnectionCall, ConnectionReleaseTemp, ConnectionReleaseDriver, vars, rVars
    <2> QED
      BY <2>1, OwnersElsewhere
  <1>4. ASSUME NEW s \in Statements, NEW c \in Connections, RAdbcStatementNew(c, s)
        PROVE  OwnersInv'
    <2>1. StatementNew(c, s) /\ owners' = owners
      BY <1>4 DEF RAdbcStatementNew
    <2>2. st[s].phase = "none" /\ \A r \in Statements \ {s} : st'[r] = st[r]
      BY <2>1 DEF StatementNew, RInv, HInv
    <2>3. st[s] = NoStatement
      BY <2>2, SMT DEF RInv, HInv, StOf
    <2>4. st[s].data = Null
      BY <2>3, SMT DEF NoStatement
    <2> QED
      BY <2>1, <2>2, <2>4, OwnersKept
  <1>5. ASSUME NEW s \in Statements, RAdbcStatementExecuteQuery(s) \/ RAdbcStatementCall(s)
        PROVE  OwnersInv'
    <2>1. st' = st
      BY <1>5 DEF RAdbcStatementExecuteQuery, RAdbcStatementCall, StatementCall, vars
    <2>2. CASE RAdbcStatementExecuteQuery(s)
      BY <2>1, <2>2, OwnersMoved DEF RAdbcStatementExecuteQuery
    <2>3. CASE RAdbcStatementCall(s)
      BY <2>1, <2>3, OwnersElsewhere DEF RAdbcStatementCall, rVars
    <2> QED
      BY <1>5, <2>2, <2>3
  <1>6. ASSUME NEW s \in Statements, StatementRelease(s), ReleaseStreams(s)
        PROVE  OwnersInv'
    <2>1. \A r \in Statements \ {s} : st'[r] = st[r]
      BY <1>6, StatementGoes DEF RInv
    <2>2. owners' = [a \in Streams |-> IF a \in Bound(s) THEN {} ELSE owners[a]]
      BY <1>6 DEF ReleaseStreams
    <2> QED
      BY <2>1, <2>2, OwnersMoved
  <1>7. ASSUME NEW s \in Statements, RAdbcStatementRelease(s) \/ FinalizeStatement(s)
        PROVE  OwnersInv'
    <2>1. CASE /\ st[s].data = Null /\ st' = [st EXCEPT ![s] = NoStatement]
               /\ UNCHANGED <<heap, dbVars, cnVars, fault, owners>>
      <3>1. \A r \in Statements \ {s} : st'[r] = st[r]
        BY <2>1 DEF RInv, HInv
      <3> QED
        BY <2>1, <3>1, OwnersKept
    <2> QED
      BY <1>6, <1>7, <2>1 DEF RAdbcStatementRelease, FinalizeStatement
  <1>8. ASSUME NEW x \in Xptrs, Drop(x) PROVE OwnersInv'
    BY <1>8, OwnersElsewhere DEF Drop, vars
  <1>9. CASE Collect
    BY <1>9, OwnersElsewhere DEF Collect, vars
  <1> QED
    BY <1>1, <1>2, <1>3, <1>4, <1>5, <1>7, <1>8, <1>9, OwnersBound DEF RNext

\* A stream that was bound to a statement of the R package's test driver has
\* one owner until it is released, an open statement or the program, through
\* any sequence of calls, drops and collections.
THEOREM StreamsAreOwned == StatementsGo => (RSpec => []StreamsHaveOneOwner)
  <1> SUFFICES ASSUME StatementsGo
               PROVE  RSpec => []StreamsHaveOneOwner
    OBVIOUS
  <1>1. RInit => RInv /\ OwnersInv
    <2>1. RInit => OwnersInv
      BY XptrsAssumption, SMT DEF RInit, RStart, OwnersInv, StreamsHaveOneOwner
    <2> QED
      BY <2>1, RInitRInv
  <1>2. RInv /\ OwnersInv /\ [RNext]_<<vars, rVars>> => RInv' /\ OwnersInv'
    BY RInvStep, OwnersStep
  <1>3. OwnersInv => StreamsHaveOneOwner
    BY DEF OwnersInv
  <1> QED
    BY <1>1, <1>2, <1>3, PTL DEF RSpec
=============================================================================
