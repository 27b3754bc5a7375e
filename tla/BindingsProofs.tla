--------------------------- MODULE BindingsProofs ---------------------------
(***************************************************************************)
(* The reference counts of the GLib bindings and of the Python package     *)
(* release the handles of the driver manager in the order that it needs,   *)
(* for any number of connections, statements, cursors and closes.          *)
(***************************************************************************)
EXTENDS DriverManagerProofs, GLibBindings, PyHandles, FiniteSetTheorems

\* A leaf that names no prover is for these, in this order.
USE Zenon, SMT, Z3

-----------------------------------------------------------------------------
(* The GLib bindings.  The count of an object is what the program and the  *)
(* objects made from it hold, so an object is disposed of after everything *)
(* that was made from it; a connection that has the driver is one that has *)
(* a reference to the database, and a statement one that has a reference   *)
(* to its connection.  The second needs drivers that do not fail where the *)
(* bindings take no reference, or keep the handle: see glib_unref.         *)

\* Connections and statements are finitely many.
Finite == IsFiniteSet(Connections) /\ IsFiniteSet(Statements)

\* The failures after which an object is left without what it should have.
Reliable ==
  Failures \cap {"DatabaseNew", "DatabaseSetOption", "ConnectionNew", "ConnectionSetOption",
                 "ConnectionInit", "ConnectionRelease", "StatementRelease"} = {}

Children(x) == {y \in GObjects : parent[y] = x}
Held(x) == IF x \in program THEN 1 ELSE 0

RefTypes ==
  /\ refs \in [GObjects -> Nat]
  /\ parent \in [GObjects -> GObjects \cup {None}]
  /\ program \subseteq GObjects /\ initialized \subseteq GObjects
  /\ disposing \in GObjects \cup {None}

\* Each reference is counted, and an object without references is on its way
\* out or has let go of everything.
RefInv ==
  /\ RefTypes
  /\ \A x \in GObjects : refs[x] = Held(x) + Cardinality(Children(x))
  /\ disposing # None => refs[disposing] = 0
  /\ \A x \in GObjects : refs[x] = 0 /\ disposing # x => x \notin initialized /\ parent[x] = None

DbHeld ==
  /\ parent[TheDatabase] = None
  /\ db.phase \in IF TheDatabase \in initialized THEN {"new", "open"} ELSE {"none"}

CnHeld(c) ==
  /\ parent[c] \in {None, TheDatabase}
  /\ IF c \in initialized
     THEN \/ cn[c].phase = "new" /\ parent[c] = None
          \/ cn[c].phase = "open" /\ parent[c] = TheDatabase
     ELSE cn[c].phase = "none"

StHeld(s) ==
  /\ parent[s] \in Connections \cup {None}
  /\ IF s \in initialized THEN st[s].phase = "open" /\ st[s].of = parent[s] ELSE st[s] = NoStatement

GInv ==
  /\ HInv /\ RefInv /\ ~crashed
  /\ DbHeld
  /\ \A c \in Connections : CnHeld(c)
  /\ \A s \in Statements : StHeld(s)

\* A step of the bindings is a step of the manager, or none.
LEMMA GLibStep == GNext => [Next]_vars
  <1> SUFFICES ASSUME GNext PROVE Next \/ UNCHANGED vars
    BY DEF vars
  <1> USE DEF Next, DatabaseStep, ConnectionStep, StatementStep
  <1>1. ASSUME gadbc_database_new \/ gadbc_database_set_option \/ gadbc_database_init
                 \/ gadbc_database_release \/ gadbc_database_finalize
        PROVE  Next \/ UNCHANGED vars
    BY <1>1 DEF GNext, gadbc_database_new, gadbc_database_set_option, gadbc_database_init,
       gadbc_database_release, gadbc_database_finalize
  <1>2. ASSUME NEW c \in Connections,
               \/ gadbc_connection_new(c) \/ gadbc_connection_set_option(c) \/ gadbc_connection_init(c)
               \/ gadbc_connection_release(c) \/ gadbc_connection_dispose(c)
        PROVE  Next \/ UNCHANGED vars
    BY <1>2 DEF GNext, gadbc_connection_new, gadbc_connection_set_option,
       gadbc_connection_init, gadbc_connection_release, gadbc_connection_dispose
  <1>3. ASSUME NEW s \in Statements,
               \/ \E c \in Connections : gadbc_statement_new(c, s)
               \/ gadbc_statement_call(s) \/ gadbc_statement_release(s) \/ gadbc_statement_dispose(s)
        PROVE  Next \/ UNCHANGED vars
    <2>1. {"StatementSetSqlQuery", "StatementExecuteQuery"} \subseteq StatementCalls
      BY DEF StatementCalls
    <2> QED
      BY <1>3, <2>1 DEF GNext, gadbc_statement_new, gadbc_statement_call,
         gadbc_statement_release, gadbc_statement_dispose
  <1>4. ASSUME NEW x \in GObjects, Unref(x) PROVE UNCHANGED vars
    BY <1>4 DEF Unref, vars
  <1>5. ASSUME gadbc_faults PROVE Next
    BY <1>5 DEF GNext, gadbc_faults, Fault
  <1> QED
    BY <1>1, <1>2, <1>3, <1>4, <1>5 DEF GNext

LEMMA ChildrenAreFinite == Finite => \A x : IsFiniteSet(Children(x))
  <1> SUFFICES ASSUME Finite, NEW x PROVE IsFiniteSet(Children(x))
    OBVIOUS
  <1>1. IsFiniteSet({TheDatabase})
    BY FS_Singleton
  <1>2. IsFiniteSet(GObjects)
    BY <1>1, FS_Union DEF Finite, GObjects
  <1> QED
    BY <1>2, FS_Subset DEF Children

\* An object that gets a parent, and one that lets go of it.
LEMMA ChildAdded ==
  ASSUME Finite, parent \in [GObjects -> GObjects \cup {None}], NEW y \in GObjects, NEW p \in GObjects,
         parent[y] = None, parent' = [parent EXCEPT ![y] = p]
  PROVE  \A x \in GObjects :
           Cardinality(Children(x))' = Cardinality(Children(x)) + (IF x = p THEN 1 ELSE 0)
  <1> SUFFICES ASSUME NEW x \in GObjects
               PROVE  Cardinality(Children(x)') = Cardinality(Children(x)) + (IF x = p THEN 1 ELSE 0)
    OBVIOUS
  <1>0. None \notin GObjects
    BY GObjectsAssumption
  <1>1. IsFiniteSet(Children(x)) /\ Cardinality(Children(x)) \in Nat
    BY ChildrenAreFinite, FS_CardinalityType
  <1>2. CASE x = p
    <2>1. Children(x)' = Children(x) \cup {y} /\ y \notin Children(x)
      BY <1>0, <1>2 DEF Children
    <2>2. Cardinality(Children(x) \cup {y}) = Cardinality(Children(x)) + 1
      BY <1>1, <2>1, FS_AddElement
    <2> QED
      BY <1>2, <2>1, <2>2
  <1>3. CASE x # p
    <2>1. Children(x)' = Children(x)
      BY <1>0, <1>3 DEF Children
    <2> QED
      BY <1>1, <1>3, <2>1, SMT
  <1> QED
    BY <1>2, <1>3

LEMMA ChildDropped ==
  ASSUME Finite, parent \in [GObjects -> GObjects \cup {None}], NEW y \in GObjects,
         parent' = [parent EXCEPT ![y] = None]
  PROVE  \A x \in GObjects :
           Cardinality(Children(x))' = Cardinality(Children(x)) - (IF x = parent[y] THEN 1 ELSE 0)
  <1> SUFFICES ASSUME NEW x \in GObjects
               PROVE  Cardinality(Children(x)') = Cardinality(Children(x)) - (IF x = parent[y] THEN 1 ELSE 0)
    OBVIOUS
  <1>0. None \notin GObjects
    BY GObjectsAssumption
  <1>1. IsFiniteSet(Children(x)) /\ Cardinality(Children(x)) \in Nat
    BY ChildrenAreFinite, FS_CardinalityType
  <1>2. CASE x = parent[y]
    <2>1. Children(x)' = Children(x) \ {y} /\ y \in Children(x)
      BY <1>0, <1>2 DEF Children
    <2>2. Cardinality(Children(x) \ {y}) = Cardinality(Children(x)) - 1
      BY <1>1, <2>1, FS_RemoveElement
    <2> QED
      BY <1>2, <2>1, <2>2
  <1>3. CASE x # parent[y]
    <2>1. Children(x)' = Children(x)
      BY <1>0, <1>3 DEF Children
    <2> QED
      BY <1>1, <1>3, <2>1, SMT
  <1> QED
    BY <1>2, <1>3

\* Nothing was made from an object without references that is still there,
\* and the program does not have it.
LEMMA Unreferenced ==
  ASSUME Finite, RefInv, NEW x \in GObjects, refs[x] = 0
  PROVE  x \notin program /\ \A y \in GObjects : parent[y] # x
  <1>1. IsFiniteSet(Children(x)) /\ Cardinality(Children(x)) \in Nat
    BY ChildrenAreFinite, FS_CardinalityType
  <1>2. x \notin program /\ Cardinality(Children(x)) = 0
    BY <1>1, SMT DEF RefInv, Held
  <1>3. Children(x) = {}
    BY <1>1, <1>2, FS_EmptySet
  <1> QED
    BY <1>2, <1>3 DEF Children

-----------------------------------------------------------------------------
(* References, for each way in which a step of the bindings changes them.  *)

LEMMA RefsKept ==
  ASSUME RefInv, UNCHANGED <<refs, program, parent, disposing>>, initialized' \subseteq initialized
  PROVE  RefInv'
  <1>1. \A x \in GObjects : Children(x)' = Children(x) /\ Held(x)' = Held(x)
    BY DEF Children, Held
  <1> QED
    BY <1>1 DEF RefInv, RefTypes

LEMMA RefsOfNew ==
  ASSUME Finite, RefInv, NEW x \in GObjects, GNew(x)
  PROVE  RefInv'
  <1>1. \A y \in GObjects : Children(y)' = Children(y) /\ Cardinality(Children(y)) \in Nat
    BY ChildrenAreFinite, FS_CardinalityType DEF GNew, Children
  <1>2. x \notin program
    BY Unreferenced DEF GNew
  <1>3. RefTypes'
    BY DEF GNew, RefInv, RefTypes
  <1>4. ASSUME NEW y \in GObjects PROVE (refs[y] = Held(y) + Cardinality(Children(y)))'
    BY <1>1, <1>2, SMT DEF GNew, RefInv, RefTypes, Held
  <1>5. \A y \in GObjects : refs'[y] = 0 => refs[y] = 0 /\ y # x
    BY SMT DEF GNew, RefInv, RefTypes
  <1>6. \A y \in GObjects :
          refs'[y] = 0 /\ disposing' # y => y \notin initialized' /\ parent'[y] = None
    BY <1>5 DEF GNew, RefInv
  <1> QED
    BY <1>3, <1>4, <1>6 DEF GNew, RefInv

LEMMA RefsOfConnected ==
  ASSUME Finite, RefInv, NEW c \in Connections, Raw(TheDatabase), parent[c] = None, c \in program,
         parent' = [parent EXCEPT ![c] = TheDatabase],
         refs' = [refs EXCEPT ![TheDatabase] = @ + 1],
         UNCHANGED <<program, initialized, disposing>>
  PROVE  RefInv'
  <1>0. c \in GObjects /\ TheDatabase \in GObjects /\ c # TheDatabase
    BY GObjectsAssumption DEF GObjects
  <1>1. \A x \in GObjects : /\ Cardinality(Children(x)) \in Nat
                            /\ Cardinality(Children(x))' =
                                 Cardinality(Children(x)) + (IF x = TheDatabase THEN 1 ELSE 0)
    BY <1>0, ChildAdded, ChildrenAreFinite, FS_CardinalityType DEF RefInv, RefTypes
  <1>2. RefTypes'
    BY <1>0, SMT DEF RefInv, RefTypes
  <1>3. \A x \in GObjects : refs'[x] = Held(x)' + Cardinality(Children(x))'
    BY <1>0, <1>1, SMT DEF RefInv, RefTypes, Held
  <1>4. disposing' = None
    BY DEF Raw
  <1>5. \A x \in GObjects : refs'[x] = 0 => refs[x] = 0
    BY <1>0, SMT DEF RefInv, RefTypes
  <1>6. refs[c] # 0
    BY <1>0, Unreferenced
  <1>7. ASSUME NEW x \in GObjects, refs'[x] = 0, disposing' # x
        PROVE  x \notin initialized' /\ parent'[x] = None
    BY <1>0, <1>5, <1>6, <1>7 DEF RefInv, RefTypes
  <1> QED
    BY <1>2, <1>3, <1>4, <1>7 DEF RefInv

LEMMA RefsOfStatement ==
  ASSUME Finite, RefInv, NEW c \in Connections, NEW s \in Statements, Raw(c), refs[s] = 0,
         refs' = [refs EXCEPT ![s] = 1, ![c] = @ + 1],
         program' = program \cup {s}, initialized' = initialized \cup {s},
         parent' = [parent EXCEPT ![s] = c], UNCHANGED disposing
  PROVE  RefInv'
  <1>0. c \in GObjects /\ s \in GObjects /\ c # s
    BY GObjectsAssumption DEF GObjects
  <1>1. disposing = None /\ disposing # s /\ parent[s] = None /\ s \notin program
    BY <1>0, Unreferenced, GObjectsAssumption DEF Raw, RefInv
  <1>2. \A x \in GObjects : /\ Cardinality(Children(x)) \in Nat
                            /\ Cardinality(Children(x))' =
                                 Cardinality(Children(x)) + (IF x = c THEN 1 ELSE 0)
    BY <1>0, <1>1, ChildAdded, ChildrenAreFinite, FS_CardinalityType DEF RefInv, RefTypes
  <1>3. RefTypes'
    BY <1>0, SMT DEF RefInv, RefTypes
  <1>4. \A x \in GObjects : refs'[x] = Held(x)' + Cardinality(Children(x))'
    <2> SUFFICES ASSUME NEW x \in GObjects PROVE refs'[x] = Held(x)' + Cardinality(Children(x))'
      OBVIOUS
    <2>1. refs'[x] = IF x = s THEN 1 ELSE IF x = c THEN refs[x] + 1 ELSE refs[x]
      BY <1>0 DEF RefInv, RefTypes
    <2>2. Held(x)' = IF x = s THEN 1 ELSE Held(x)
      BY DEF Held
    <2>3. Held(s) = 0 /\ Held(x) \in Nat
      BY <1>1 DEF Held
    <2>4. refs[x] = Held(x) + Cardinality(Children(x)) /\ refs[s] = Held(s) + Cardinality(Children(s))
      BY <1>0 DEF RefInv
    <2> QED
      BY <1>0, <1>2, <2>1, <2>2, <2>3, <2>4, SMT
  <1>5. \A x \in GObjects : refs'[x] = 0 => refs[x] = 0 /\ x # s
    BY <1>0, SMT DEF RefInv, RefTypes
  <1>6. ASSUME NEW x \in GObjects, refs'[x] = 0, disposing' # x
        PROVE  x \notin initialized' /\ parent'[x] = None
    BY <1>0, <1>5, <1>6 DEF RefInv, RefTypes
  <1> QED
    BY <1>1, <1>3, <1>4, <1>6 DEF RefInv

\* The program gives a reference up.
LEMMA RefsOfUnref ==
  ASSUME Finite, RefInv, NEW x \in GObjects, Unref(x)
  PROVE  RefInv'
  <1>0. x # None /\ disposing = None
    BY GObjectsAssumption DEF Unref
  <1>1. refs' = [refs EXCEPT ![x] = @ - 1] /\ disposing' = IF refs[x] = 1 THEN x ELSE None
    BY <1>0 DEF Unref, GiveUp
  <1>2. \A y \in GObjects : Children(y)' = Children(y) /\ Cardinality(Children(y)) \in Nat
    BY ChildrenAreFinite, FS_CardinalityType DEF Unref, Children
  <1>3. refs[x] \in Nat /\ refs[x] # 0
    BY Unreferenced DEF Unref, RefInv, RefTypes
  <1>4. RefTypes'
    BY <1>1, <1>3, SMT DEF Unref, RefInv, RefTypes
  <1>5. ASSUME NEW y \in GObjects PROVE refs'[y] = Held(y)' + Cardinality(Children(y))'
    BY <1>1, <1>2, SMT DEF Unref, RefInv, RefTypes, Held
  <1>6. disposing' # None => refs'[disposing'] = 0
    BY <1>1, SMT DEF RefInv, RefTypes
  <1>7. ASSUME NEW y \in GObjects, refs'[y] = 0, disposing' # y
        PROVE  y \notin initialized' /\ parent'[y] = None
    <2>1. y # x /\ refs[y] = 0
      BY <1>0, <1>1, <1>3, <1>7, SMT DEF RefInv, RefTypes
    <2> QED
      BY <1>0, <2>1, GObjectsAssumption DEF Unref, RefInv
  <1> QED
    BY <1>4, <1>5, <1>6, <1>7 DEF RefInv

\* An object that is disposed of gives its parent up.
LEMMA RefsOfDisposed ==
  ASSUME Finite, RefInv, NEW x \in GObjects, disposing = x, parent[x] # x, Disposed(x)
  PROVE  RefInv'
  <1> DEFINE p == parent[x]
  <1>0. None \notin GObjects /\ refs[x] = 0 /\ x \notin program /\ p \in GObjects \cup {None}
    BY Unreferenced, GObjectsAssumption DEF RefInv, RefTypes
  <1>1. /\ refs' = IF p = None THEN refs ELSE [refs EXCEPT ![p] = @ - 1]
        /\ disposing' = IF p # None /\ refs[p] = 1 THEN p ELSE None
    BY DEF Disposed, GiveUp
  <1>2. \A y \in GObjects : /\ Cardinality(Children(y)) \in Nat
                            /\ Cardinality(Children(y))' =
                                 Cardinality(Children(y)) - (IF y = p THEN 1 ELSE 0)
    BY ChildDropped, ChildrenAreFinite, FS_CardinalityType DEF Disposed, RefInv, RefTypes
  <1>3. p \in GObjects => refs[p] \in Nat /\ refs[p] # 0
    BY Unreferenced DEF RefInv, RefTypes
  <1>4. RefTypes'
    BY <1>0, <1>1, <1>3, SMT DEF Disposed, RefInv, RefTypes
  <1>5. ASSUME NEW y \in GObjects PROVE refs'[y] = Held(y)' + Cardinality(Children(y))'
    <2>1. refs'[y] = refs[y] - (IF y = p THEN 1 ELSE 0)
      BY <1>0, <1>1, SMT DEF RefInv, RefTypes
    <2>2. Held(y)' = Held(y) /\ Held(y) \in Nat /\ refs[y] = Held(y) + Cardinality(Children(y))
      BY DEF Held, Disposed, RefInv
    <2> QED
      BY <1>2, <2>1, <2>2, SMT
  <1>6. disposing' # None => refs'[disposing'] = 0
    BY <1>0, <1>1, SMT DEF RefInv, RefTypes
  <1>7. ASSUME NEW y \in GObjects, refs'[y] = 0, disposing' # y
        PROVE  y \notin initialized' /\ parent'[y] = None
    <2>1. refs[y] = 0
      BY <1>0, <1>1, <1>3, <1>7, SMT DEF RefInv, RefTypes
    <2>2. CASE y = x
      BY <2>2 DEF Disposed, RefInv, RefTypes
    <2>3. CASE y # x
      BY <2>1, <2>3 DEF Disposed, RefInv, RefTypes
    <2> QED
      BY <2>2, <2>3
  <1> QED
    BY <1>4, <1>5, <1>6, <1>7 DEF RefInv

-----------------------------------------------------------------------------
(* Handles.                                                                *)

\* A connection with a driver has a reference to the database, and one in use
\* has something to release.
LEMMA ConnectionHolds ==
  ASSUME GInv, NEW c \in Connections
  PROVE  /\ cn[c].driver # Null => cn[c].phase = "open" /\ parent[c] = TheDatabase
         /\ c \in initialized => cn[c].data # Null
         /\ cn[c].phase \in {"none", "new", "open"}
  <1>1. CnOf(c) /\ CnHeld(c)
    BY DEF GInv, HInv
  <1>2. cn[c].phase \in {"none", "new", "open"}
    BY <1>1 DEF CnHeld
  <1>3. TempConnection(c) # Null /\ DriverConnection(c) # Null
    BY Kinds
  <1> QED
    BY <1>1, <1>2, <1>3, SMT DEF CnOf, CnHeld, Connected

\* A statement that was made from a connection has a reference to it, and a
\* statement with a driver was made from a connection with one.
LEMMA StatementHolds ==
  ASSUME GInv, NEW s \in Statements
  PROVE  /\ \A c \in Connections : st[s].of = c => parent[s] = c
         /\ st[s].driver # Null => \E c \in Connections : cn[c].driver # Null
  <1>1. StHeld(s)
    BY DEF GInv
  <1>2. \A c \in Connections : st[s].of = c => parent[s] = c
    BY <1>1, GObjectsAssumption, SMT DEF StHeld, NoStatement
  <1> QED
    BY <1>2, DriverThroughConnection DEF GInv

\* What a step leaves alone stays as it is.
LEMMA HeldFrame ==
  ASSUME GInv
  PROVE  /\ UNCHANGED <<db, parent[TheDatabase]>> /\ (TheDatabase \in initialized' <=> TheDatabase \in initialized)
              => DbHeld'
         /\ \A c \in Connections :
              UNCHANGED <<cn[c], parent[c]>> /\ (c \in initialized' <=> c \in initialized) => CnHeld(c)'
         /\ \A s \in Statements :
              UNCHANGED <<st[s], parent[s]>> /\ (s \in initialized' <=> s \in initialized) => StHeld(s)'
  BY DEF GInv, DbHeld, CnHeld, StHeld

\* The objects are different.
LEMMA ObjectsDiffer ==
  /\ TheDatabase \in GObjects /\ Connections \subseteq GObjects /\ Statements \subseteq GObjects
  /\ \A c \in Connections : c # TheDatabase /\ c \notin Statements
  /\ \A s \in Statements : s # TheDatabase /\ s \notin Connections
  /\ None \notin GObjects
  BY GObjectsAssumption DEF GObjects

\* What the releases and the new statement leave in the handles.
LEMMA DatabaseReleased ==
  DatabaseReleaseTemp \/ DatabaseReleaseDriver => db'.phase = "none"
BY SMT DEF DatabaseReleaseTemp, DatabaseReleaseDriver, Zeroed

LEMMA ConnectionReleased ==
  ASSUME NEW c \in DOMAIN cn, ~MayFail("ConnectionRelease"),
         ConnectionReleaseTemp(c) \/ ConnectionReleaseDriver(c)
  PROVE  cn'[c].data = Null /\ cn'[c].phase = "none"
BY SMT DEF ConnectionReleaseTemp, ConnectionReleaseDriver, Zeroed

LEMMA StatementMade ==
  ASSUME NEW c, NEW s \in DOMAIN st, StatementNew(c, s)
  PROVE  st[s].phase = "none" /\ st'[s].phase # "none" /\ st'[s].of = c
BY SMT DEF StatementNew

LEMMA DatabaseHeld ==
  ASSUME Finite, Reliable, GInv,
         \/ gadbc_database_new \/ gadbc_database_set_option \/ gadbc_database_init
         \/ gadbc_database_release \/ gadbc_database_finalize
  PROVE  /\ RefInv' /\ ~crashed' /\ DbHeld'
         /\ \A c \in Connections : CnHeld(c)'
         /\ \A s \in Statements : StHeld(s)'
  <1>0. RefInv /\ RefTypes /\ ~crashed /\ DbHeld /\ Db
    BY DEF GInv, HInv, RefInv
  <1>1. TheDatabase \in initialized => db.data # Null
    BY <1>0, DbPoints DEF DbHeld
  <1>2. cn' = cn /\ st' = st
    BY DEF gadbc_database_new, gadbc_database_set_option, gadbc_database_init, gadbc_database_release,
       gadbc_database_finalize, DatabaseNew, DatabaseStoreDriver, DatabaseStoreOption,
       DatabaseForwardOption, DatabaseInitNotLoaded, DatabaseInitNewFails, DatabaseInitOptionFails,
       DatabaseInitDone, DatabaseReleaseTemp, DatabaseReleaseDriver, cnVars, vars
  <1>3. ASSUME \A x \in GObjects : x # TheDatabase =>
                 parent'[x] = parent[x] /\ (x \in initialized' <=> x \in initialized)
        PROVE  (\A c \in Connections : CnHeld(c)') /\ (\A s \in Statements : StHeld(s)')
    BY <1>2, <1>3, HeldFrame, ObjectsDiffer
  <1>4. CASE gadbc_database_new
    <2>1. GNew(TheDatabase) /\ db'.phase = "new"
      BY <1>4 DEF gadbc_database_new, DatabaseNew
    <2>2. parent' = parent /\ initialized' = initialized \cup {TheDatabase} /\ crashed' = crashed
      BY <2>1 DEF GNew
    <2>3. RefInv'
      BY <1>0, <2>1, RefsOfNew, ObjectsDiffer
    <2> QED
      BY <1>0, <1>3, <2>1, <2>2, <2>3 DEF DbHeld
  <1>5. CASE gadbc_database_set_option \/ gadbc_database_init
    <2>1. UNCHANGED gVars /\ TheDatabase \in initialized
      BY <1>5 DEF gadbc_database_set_option, gadbc_database_init, Raw
    <2>2. ~MayFail("DatabaseNew") /\ ~MayFail("DatabaseSetOption")
      BY DEF Reliable, MayFail
    <2>3. db'.phase \in {"new", "open"}
      <3>1. db.phase \in {"new", "open"}
        BY <1>0, <2>1 DEF DbHeld
      <3>2. CASE DatabaseStoreDriver
        BY <3>1, <3>2 DEF DatabaseStoreDriver, dbVars
      <3>3. ASSUME NEW k \in Keys, NEW v \in Values, DatabaseStoreOption(k, v)
            PROVE  db'.phase \in {"new", "open"}
        BY <3>1, <3>3 DEF DatabaseStoreOption, dbVars
      <3>4. ASSUME NEW k \in Keys, NEW v \in Values, DatabaseForwardOption(k, v)
            PROVE  db'.phase \in {"new", "open"}
        BY <3>1, <3>4 DEF DatabaseForwardOption, dbVars
      <3>5. CASE DatabaseInitNotLoaded \/ DatabaseInitNewFails \/ DatabaseInitOptionFails
        BY <2>2, <3>1, <3>5 DEF DatabaseInitNotLoaded, DatabaseInitNewFails,
           DatabaseInitOptionFails, vars, dbVars
      <3>6. ASSUME NEW t \in Tables, DatabaseInitDone(t) PROVE db'.phase \in {"new", "open"}
        BY <3>6 DEF DatabaseInitDone
      <3> QED
        BY <1>5, <3>2, <3>3, <3>4, <3>5, <3>6
           DEF gadbc_database_set_option, gadbc_database_init
    <2>4. RefInv'
      BY <1>0, <2>1, RefsKept DEF gVars
    <2> QED
      BY <1>0, <1>3, <2>1, <2>3, <2>4 DEF gVars, DbHeld
  <1>6. CASE gadbc_database_release
    <2>1. ~NothingInDatabase
      BY <1>1, <1>6 DEF gadbc_database_release, Raw, NothingInDatabase
    <2>2. /\ initialized' = initialized \ {TheDatabase} /\ ~crashed'
          /\ UNCHANGED <<refs, program, parent, disposing>>
      BY <1>0, <1>6, <2>1 DEF gadbc_database_release, ErrorCheck
    <2>3. db'.phase = "none"
      BY <1>6, DatabaseReleased DEF gadbc_database_release
    <2>4. RefInv'
      BY <1>0, <2>2, RefsKept
    <2> QED
      BY <1>0, <1>3, <2>2, <2>3, <2>4 DEF DbHeld
  <1>7. CASE gadbc_database_finalize
    <2>1. disposing = TheDatabase /\ refs[TheDatabase] = 0 /\ Disposed(TheDatabase)
      BY <1>0, <1>7, ObjectsDiffer DEF gadbc_database_finalize, RefInv
    <2>2. \A x \in GObjects : parent[x] # TheDatabase
      BY <1>0, <2>1, Unreferenced, ObjectsDiffer
    <2>3. Unused
      BY <2>2, ConnectionHolds, StatementHolds, ObjectsDiffer DEF Unused
    <2>4. ~crashed' /\ db'.phase = "none"
      <3>1. CASE TheDatabase \in initialized
        <4>1. ~NothingInDatabase
          BY <1>1, <3>1 DEF NothingInDatabase
        <4>2. ~crashed' /\ (DatabaseReleaseTemp \/ DatabaseReleaseDriver)
          BY <1>0, <1>7, <2>3, <3>1, <4>1 DEF gadbc_database_finalize, ErrorCheck
        <4> QED
          BY <4>2, DatabaseReleased
      <3>2. CASE TheDatabase \notin initialized
        BY <1>0, <1>7, <3>2 DEF gadbc_database_finalize, vars, dbVars, DbHeld
      <3> QED
        BY <3>1, <3>2
    <2>5. RefInv'
      BY <1>0, <2>1, <2>2, RefsOfDisposed, ObjectsDiffer
    <2>6. initialized' = initialized \ {TheDatabase} /\ parent' = [parent EXCEPT ![TheDatabase] = None]
      BY <2>1 DEF Disposed
    <2> QED
      BY <1>0, <1>3, <2>4, <2>5, <2>6, ObjectsDiffer DEF DbHeld, RefTypes
  <1> QED
    BY <1>4, <1>5, <1>6, <1>7

LEMMA ConnectionHeld ==
  ASSUME Finite, Reliable, GInv, NEW c \in Connections,
         \/ gadbc_connection_new(c) \/ gadbc_connection_set_option(c) \/ gadbc_connection_init(c)
         \/ gadbc_connection_release(c) \/ gadbc_connection_dispose(c)
  PROVE  /\ RefInv' /\ ~crashed' /\ DbHeld'
         /\ \A d \in Connections : CnHeld(d)'
         /\ \A s \in Statements : StHeld(s)'
  <1>0. RefInv /\ RefTypes /\ ~crashed /\ CnHeld(c) /\ CnOf(c) /\ DOMAIN cn = Connections
    BY DEF GInv, HInv, RefInv
  <1>1. ~MayFail("ConnectionNew") /\ ~MayFail("ConnectionInit") /\ ~MayFail("ConnectionSetOption")
          /\ ~MayFail("ConnectionRelease")
    BY DEF Reliable, MayFail
  <1>2. db' = db /\ st' = st /\ \A d \in Connections \ {c} : cn'[d] = cn[d]
    BY <1>0 DEF gadbc_connection_new, gadbc_connection_set_option, gadbc_connection_init,
       gadbc_connection_release, gadbc_connection_dispose, ConnectionNew, ConnectionStoreOption,
       ConnectionForwardOption, ConnectionInitNewFails, ConnectionInitDone, ConnectionReleaseTemp,
       ConnectionReleaseDriver, vars, cnVars, dbVars
  <1>3. ASSUME CnHeld(c)',
               \A x \in GObjects : x # c =>
                 parent'[x] = parent[x] /\ (x \in initialized' <=> x \in initialized)
        PROVE  /\ DbHeld'
               /\ \A d \in Connections : CnHeld(d)'
               /\ \A s \in Statements : StHeld(s)'
    BY <1>2, <1>3, HeldFrame, ObjectsDiffer
  <1>4. ConnectionReleaseTemp(c) \/ ConnectionReleaseDriver(c) =>
          cn'[c].data = Null /\ cn'[c].phase = "none"
    BY <1>0, <1>1, ConnectionReleased
  <1>5. CASE gadbc_connection_new(c)
    <2>1. GNew(c) /\ cn'[c].phase = "new"
      BY <1>0, <1>5 DEF gadbc_connection_new, ConnectionNew
    <2>2. parent' = parent /\ initialized' = initialized \cup {c} /\ crashed' = crashed
      BY <2>1 DEF GNew
    <2>3. RefInv'
      BY <1>0, <2>1, RefsOfNew, ObjectsDiffer
    <2>4. parent[c] = None
      BY <1>0, <2>1, ObjectsDiffer DEF GNew, RefInv
    <2> QED
      BY <1>0, <1>3, <2>1, <2>2, <2>3, <2>4 DEF CnHeld
  <1>6. CASE gadbc_connection_set_option(c)
    <2>1. UNCHANGED gVars /\ cn' = cn
      BY <1>6 DEF gadbc_connection_set_option, ConnectionStoreOption, ConnectionForwardOption
    <2>2. RefInv'
      BY <1>0, <2>1, RefsKept DEF gVars
    <2> QED
      BY <1>0, <1>3, <2>1, <2>2 DEF gVars, CnHeld
  <1>7. CASE gadbc_connection_init(c)
    <2>1. Raw(c) /\ Raw(TheDatabase) /\ UNCHANGED <<program, initialized, disposing, crashed>>
      BY <1>7 DEF gadbc_connection_init
    <2>2. cn[c].phase = "new" /\ cn'[c].phase = "open"
      <3>1. cn[c].phase = "new"
        BY <1>0, <1>7, CnCalls DEF GInv, HInv, gadbc_connection_init, ConnectionInitNewFails,
           ConnectionInitDone
      <3> QED
        BY <1>0, <1>1, <1>7, <3>1, SMT DEF gadbc_connection_init, ConnectionInitNewFails,
           ConnectionInitDone
    <2>3. /\ parent' = [parent EXCEPT ![c] = TheDatabase]
          /\ refs' = [refs EXCEPT ![TheDatabase] = @ + 1]
      BY <1>7, <2>2 DEF gadbc_connection_init
    <2>4. parent[c] = None /\ c \in program /\ c \in initialized
      BY <1>0, <2>1, <2>2 DEF CnHeld, Raw
    <2>5. RefInv'
      BY <1>0, <2>1, <2>3, <2>4, RefsOfConnected
    <2>6. parent'[c] = TheDatabase
      BY <1>0, <2>3, ObjectsDiffer DEF RefTypes
    <2>7. CnHeld(c)'
      BY <2>1, <2>2, <2>4, <2>6 DEF CnHeld
    <2>8. \A x \in GObjects : x # c => parent'[x] = parent[x]
      BY <1>0, <2>3 DEF RefTypes
    <2> QED
      BY <1>0, <1>3, <2>1, <2>5, <2>7, <2>8
  <1>8. CASE gadbc_connection_release(c)
    <2>1. ~NothingInConnection(c)
      BY <1>8, ConnectionHolds DEF gadbc_connection_release, Raw, NothingInConnection
    <2>2. cn'[c].data = Null /\ cn'[c].phase = "none"
      BY <1>4, <1>8 DEF gadbc_connection_release
    <2>3. /\ initialized' = initialized \ {c} /\ ~crashed'
          /\ UNCHANGED <<refs, program, parent, disposing>>
      BY <1>0, <1>8, <2>1, <2>2 DEF gadbc_connection_release, ErrorCheck
    <2>4. RefInv'
      BY <1>0, <2>3, RefsKept
    <2>5. CnHeld(c)'
      BY <1>0, <2>2, <2>3 DEF CnHeld
    <2> QED
      BY <1>3, <2>3, <2>4, <2>5
  <1>9. CASE gadbc_connection_dispose(c)
    <2>1. disposing = c /\ refs[c] = 0 /\ Disposed(c)
      BY <1>0, <1>9, ObjectsDiffer DEF gadbc_connection_dispose, RefInv
    <2>2. \A x \in GObjects : parent[x] # c
      BY <1>0, <2>1, Unreferenced, ObjectsDiffer
    <2>3. \A s \in Statements : st[s].of # c
      BY <2>2, StatementHolds, ObjectsDiffer
    <2>4. ~crashed' /\ cn'[c].phase = "none"
      <3>1. CASE c \in initialized
        <4>1. ~NothingInConnection(c)
          BY <3>1, ConnectionHolds DEF NothingInConnection
        <4>2. ~crashed' /\ (ConnectionReleaseTemp(c) \/ ConnectionReleaseDriver(c))
          BY <1>0, <1>9, <2>3, <3>1, <4>1 DEF gadbc_connection_dispose, ErrorCheck
        <4> QED
          BY <1>4, <4>2
      <3>2. CASE c \notin initialized
        <4>1. ~crashed' /\ cn' = cn
          BY <1>0, <1>9, <3>2 DEF gadbc_connection_dispose, vars, cnVars
        <4> QED
          BY <1>0, <3>2, <4>1 DEF CnHeld
      <3> QED
        BY <3>1, <3>2
    <2>5. RefInv'
      BY <1>0, <2>1, <2>2, RefsOfDisposed, ObjectsDiffer
    <2>6. initialized' = initialized \ {c} /\ parent' = [parent EXCEPT ![c] = None]
      BY <2>1 DEF Disposed
    <2>7. CnHeld(c)'
      BY <1>0, <2>4, <2>6, ObjectsDiffer DEF CnHeld, RefTypes
    <2>8. \A x \in GObjects : x # c => parent'[x] = parent[x]
      BY <1>0, <2>6 DEF RefTypes
    <2> QED
      BY <1>3, <2>4, <2>5, <2>6, <2>7, <2>8
  <1> QED
    BY <1>5, <1>6, <1>7, <1>8, <1>9

LEMMA StatementHeld ==
  ASSUME Finite, Reliable, GInv, NEW s \in Statements,
         \/ \E c \in Connections : gadbc_statement_new(c, s)
         \/ gadbc_statement_call(s) \/ gadbc_statement_release(s) \/ gadbc_statement_dispose(s)
  PROVE  /\ RefInv' /\ ~crashed' /\ DbHeld'
         /\ \A c \in Connections : CnHeld(c)'
         /\ \A r \in Statements : StHeld(r)'
  <1>0. RefInv /\ RefTypes /\ ~crashed /\ StHeld(s) /\ DOMAIN st = Statements
    BY DEF GInv, HInv, RefInv
  <1>1. db' = db /\ cn' = cn /\ \A r \in Statements \ {s} : st'[r] = st[r]
    BY <1>0 DEF gadbc_statement_new, gadbc_statement_call, gadbc_statement_release,
       gadbc_statement_dispose, StatementNew, StatementCall, StatementRelease, vars, cnVars, dbVars
  <1>2. ASSUME StHeld(s)',
               \A x \in GObjects : x # s =>
                 parent'[x] = parent[x] /\ (x \in initialized' <=> x \in initialized)
        PROVE  /\ DbHeld'
               /\ \A c \in Connections : CnHeld(c)'
               /\ \A r \in Statements : StHeld(r)'
    BY <1>1, <1>2, HeldFrame, ObjectsDiffer
  <1>3. StatementRelease(s) => st'[s] = NoStatement
    BY <1>0 DEF Reliable, MayFail, StatementRelease
  <1>4. ASSUME NEW c \in Connections, gadbc_statement_new(c, s), ~UNCHANGED vars
        PROVE  /\ RefInv' /\ ~crashed' /\ StHeld(s)'
               /\ \A x \in GObjects : x # s =>
                    parent'[x] = parent[x] /\ (x \in initialized' <=> x \in initialized)
    <2>1. /\ Raw(c) /\ refs[s] = 0 /\ StatementNew(c, s) /\ st'[s].phase = "open"
          /\ refs' = [refs EXCEPT ![s] = 1, ![c] = @ + 1]
          /\ program' = program \cup {s}
          /\ initialized' = initialized \cup {s}
          /\ parent' = [parent EXCEPT ![s] = c]
          /\ UNCHANGED <<disposing, crashed>>
      BY <1>4 DEF gadbc_statement_new
    <2>2. RefInv'
      BY <1>0, <2>1, RefsOfStatement
    <2>3. st'[s].of = c
      BY <1>0, <2>1, StatementMade
    <2>4. parent'[s] = c /\ \A x \in GObjects : x # s => parent'[x] = parent[x]
      BY <1>0, <2>1, ObjectsDiffer DEF RefTypes
    <2>5. StHeld(s)'
      BY <2>1, <2>3, <2>4 DEF StHeld
    <2> QED
      BY <1>0, <2>1, <2>2, <2>4, <2>5
  <1>5. CASE UNCHANGED <<st, gVars>>
    <2>1. RefInv'
      BY <1>0, <1>5, RefsKept DEF gVars
    <2> QED
      BY <1>0, <1>2, <1>5, <2>1 DEF gVars, StHeld
  <1>6. CASE gadbc_statement_call(s)
    BY <1>5, <1>6 DEF gadbc_statement_call, StatementCall, vars
  <1>7. CASE gadbc_statement_release(s)
    <2>1. st'[s] = NoStatement
      BY <1>3, <1>7 DEF gadbc_statement_release
    <2>2. initialized' = initialized \ {s} /\ UNCHANGED <<refs, program, parent, disposing, crashed>>
      BY <1>7, <2>1 DEF gadbc_statement_release
    <2>3. RefInv'
      BY <1>0, <2>2, RefsKept
    <2>4. StHeld(s)'
      BY <1>0, <2>1, <2>2 DEF StHeld
    <2> QED
      BY <1>0, <1>2, <2>2, <2>3, <2>4
  <1>8. CASE gadbc_statement_dispose(s)
    <2>1. disposing = s /\ Disposed(s) /\ crashed' = crashed
      BY <1>8 DEF gadbc_statement_dispose
    <2>2. st'[s] = NoStatement
      <3>1. CASE s \in initialized
        BY <1>3, <1>8, <3>1 DEF gadbc_statement_dispose
      <3>2. CASE s \notin initialized
        BY <1>0, <1>8, <3>2 DEF gadbc_statement_dispose, vars, StHeld
      <3> QED
        BY <3>1, <3>2
    <2>3. parent[s] # s
      BY <1>0, ObjectsDiffer DEF StHeld
    <2>4. RefInv'
      BY <1>0, <2>1, <2>3, RefsOfDisposed, ObjectsDiffer
    <2>5. initialized' = initialized \ {s} /\ parent' = [parent EXCEPT ![s] = None]
      BY <2>1 DEF Disposed
    <2>6. StHeld(s)'
      BY <1>0, <2>2, <2>5, ObjectsDiffer DEF StHeld, RefTypes
    <2>7. \A x \in GObjects : x # s => parent'[x] = parent[x]
      BY <1>0, <2>5 DEF RefTypes
    <2> QED
      BY <1>0, <1>2, <2>1, <2>4, <2>5, <2>6, <2>7
  <1>9. ASSUME NEW c \in Connections, gadbc_statement_new(c, s), UNCHANGED vars
        PROVE  UNCHANGED <<st, gVars>>
    <2>1. ~StatementNew(c, s)
      BY <1>0, <1>9, StatementMade DEF vars
    <2> QED
      BY <1>9, <2>1 DEF gadbc_statement_new, vars, gVars
  <1> QED
    BY <1>2, <1>4, <1>5, <1>6, <1>7, <1>8, <1>9

LEMMA GInvStep ==
  ASSUME Finite, Reliable, GInv, [GNext]_<<vars, gVars>>
  PROVE  GInv'
  <1>1. HInv'
    <2>1. [Next]_vars
      BY GLibStep DEF vars
    <2> QED
      BY <2>1, HInvStep DEF GInv
  <1>2. CASE UNCHANGED <<vars, gVars>>
    <2>1. UNCHANGED <<db, cn, st, refs, program, initialized, parent, disposing, crashed>>
      BY <1>2 DEF vars, dbVars, cnVars, gVars
    <2>2. RefInv'
      BY <2>1, RefsKept DEF GInv
    <2> QED
      BY <1>1, <2>1, <2>2, HeldFrame DEF GInv
  <1>3. ASSUME NEW x \in GObjects, Unref(x) PROVE GInv'
    <2>1. UNCHANGED <<db, cn, st, initialized, parent, crashed>>
      BY <1>3 DEF Unref, vars, dbVars, cnVars
    <2>2. RefInv'
      BY <1>3, RefsOfUnref DEF GInv
    <2> QED
      BY <1>1, <2>1, <2>2, HeldFrame DEF GInv
  <1>4. CASE gadbc_faults
    <2>1. UNCHANGED <<db, cn, st, refs, program, initialized, parent, disposing, crashed>>
      BY <1>4 DEF gadbc_faults, DatabaseFault, ConnectionFault, GoesWrong, dbVars, cnVars, gVars
    <2>2. RefInv'
      BY <2>1, RefsKept DEF GInv
    <2> QED
      BY <1>1, <2>1, <2>2, HeldFrame DEF GInv
  <1> QED
    BY <1>1, <1>2, <1>3, <1>4, DatabaseHeld, ConnectionHeld, StatementHeld DEF GNext, GInv

LEMMA GInitGInv == Finite /\ GInit => GInv
  <1> SUFFICES ASSUME Finite, GInit PROVE GInv
    OBVIOUS
  <1>1. HInv /\ GStart /\ Init
    BY InitHInv DEF GInit
  <1>2. \A x \in GObjects : Children(x) = {}
    BY <1>1, ObjectsDiffer DEF GStart, Children
  <1>3. RefInv
    BY <1>1, <1>2, FS_EmptySet, SMT DEF GStart, RefInv, RefTypes, Held
  <1> QED
    BY <1>1, <1>3, ObjectsDiffer DEF GStart, Init, Zeroed, GInv, DbHeld, CnHeld, StHeld

\* In whatever order a program gives its references up, for any number of
\* connections and statements, the GLib bindings release a handle when
\* nothing uses its driver any more, and report no error that was never set,
\* over drivers that do not fail where the bindings miss it.
THEOREM ReferencesAreSafe ==
  ASSUME Finite, Reliable
  PROVE  GSpec => []UnrefIsSafe
  <1>1. GInit => GInv
    BY GInitGInv
  <1>2. GInv /\ [GNext]_<<vars, gVars>> => GInv'
    BY GInvStep
  <1>3. GInv => UnrefIsSafe
    BY DEF GInv, UnrefIsSafe
  <1> QED
    BY <1>1, <1>2, <1>3, PTL DEF GSpec
-----------------------------------------------------------------------------
(* The database of the Python bindings outlives its connections, and the   *)
(* last of them to be closed releases it.  The count of AdbcDatabase lags  *)
(* behind: a connection in the making is not counted yet.  It does no      *)
(* harm, because the connection that is being cloned is counted meanwhile. *)
(* The invariant says who is counted when, and that a connection in the    *)
(* making has a maker.                                                     *)

\* There are finitely many connections, and the marks are none of them.
Sane ==
  /\ IsFiniteSet(PyConnections)
  /\ Nobody \notin PyConnections /\ Module \notin PyConnections

Making == {"made", "counted", "shared"}
Closing == {"closeChild", "dec", "check", "releaseDatabase", "closed"}

PyTypes ==
  /\ database \in {"none", "open", "released"}
  /\ children \in Int /\ count \in Int
  /\ handle \in [PyConnections -> {"none", "live", "released"}]
  /\ pc \in [PyConnections -> {"none", "idle", "release", "lost"} \cup Making \cup Closing]
  /\ maker \in [PyConnections -> PyConnections \cup {Nobody, Module}]

\* The children of the AdbcDatabase.
Counted ==
  {c \in PyConnections :
     \/ handle[c] = "live" /\ pc[c] # "made"
     \/ pc[c] = "closeChild"}

PyPhases ==
  \A c \in PyConnections :
    /\ pc[c] \in Making \cup {"idle"} => handle[c] = "live"
    /\ pc[c] \in Closing \cup {"none"} => handle[c] # "live"
    /\ pc[c] \in Making <=> maker[c] # Nobody

Makers ==
  \A c, d \in PyConnections :
    /\ maker[c] = d => pc[d] = "idle"
    /\ maker[c] = Module /\ d # c => pc[d] = "none"

\* No connection is live once the database is about to be released.
Outlived ==
  /\ database = "none" => \A c \in PyConnections : pc[c] = "none"
  /\ (database # "open" \/ \E c \in PyConnections : pc[c] = "releaseDatabase")
       => \A c \in PyConnections : handle[c] # "live"

PyInv ==
  /\ PyTypes /\ PyPhases /\ Makers /\ Outlived
  /\ children = Cardinality(Counted)

\* The children can be counted.
LEMMA CountedIsFinite == Sane => IsFiniteSet(Counted)
BY FS_Subset DEF Sane, Counted

\* One more child, or one less.
LEMMA Recount ==
  ASSUME Sane, NEW S, NEW c,
         children = Cardinality(Counted)
  PROVE  /\ S = Counted \cup {c} /\ c \notin Counted => Cardinality(S) = children + 1
         /\ S = Counted \ {c} /\ c \in Counted => Cardinality(S) = children - 1
BY CountedIsFinite, FS_AddElement, FS_RemoveElement, SMT

\* The invariant holds before anything is connected.
LEMMA InitInvariant == Sane /\ PyInit => PyInv
<1> SUFFICES ASSUME Sane, PyInit PROVE PyInv
  OBVIOUS
<1>1. Counted = {}
  BY DEF PyInit, Counted
<1>2. Cardinality(Counted) = 0
  BY <1>1, FS_EmptySet
<1> QED
  BY <1>2, SMT DEF Sane, PyInit, PyInv, PyTypes, PyPhases, Makers, Outlived, Making, Closing

\* connect() or adbc_clone makes a connection, which is not counted yet.
LEMMA MakesConnection ==
  ASSUME Sane, PyInv, NEW c \in PyConnections,
         Connect(c) \/ \E d \in PyConnections : Clone(d, c)
  PROVE  PyInv'
<1>1. Counted' = Counted
  BY DEF PyInv, PyTypes, PyPhases, Connect, Clone, At, Counted, Making, Closing
<1>2. children' = Cardinality(Counted')
  BY <1>1 DEF PyInv, Connect, Clone
<1>3. CASE Connect(c)
  <2>1. \A d \in PyConnections : pc[d] = "none" /\ handle[d] # "live" /\ maker[d] = Nobody
    BY <1>3 DEF PyInv, PyTypes, PyPhases, Outlived, Connect, Making
  <2>2. /\ pc' = [pc EXCEPT ![c] = "made"] /\ maker' = [maker EXCEPT ![c] = Module]
        /\ handle' = [handle EXCEPT ![c] = "live"] /\ database' = "open"
        /\ UNCHANGED <<children, count>>
    BY <1>3 DEF Connect, At
  <2>3. PyTypes' /\ PyPhases'
    BY <2>1, <2>2 DEF PyInv, PyTypes, PyPhases, Making, Closing, Nobody, Module
  <2>4. Makers'
    BY <2>1, <2>2, SMT DEF Sane, PyInv, PyTypes, Makers, Nobody, Module
  <2>5. Outlived'
    BY <2>1, <2>2 DEF PyInv, PyTypes, Outlived
  <2> QED
    BY <1>2, <2>3, <2>4, <2>5 DEF PyInv
<1>4. CASE \E d \in PyConnections : Clone(d, c)
  <2> PICK d \in PyConnections : Clone(d, c)
    BY <1>4
  <2>1. /\ PyTypes' /\ PyPhases'
    BY DEF Sane, PyInv, PyTypes, PyPhases, Clone, At, Making, Closing
  <2>2. Makers'
    <3> SUFFICES ASSUME NEW e \in PyConnections, NEW f \in PyConnections
                 PROVE  /\ maker'[e] = f => pc'[f] = "idle"
                        /\ maker'[e] = Module /\ f # e => pc'[f] = "none"
      BY DEF Makers
    <3>1. /\ pc[d] = "idle" /\ pc[c] = "none"
          /\ pc' = [pc EXCEPT ![c] = "made"] /\ maker' = [maker EXCEPT ![c] = d]
      BY DEF Clone, Idle, At
    <3>2. maker[e] # Module
      <4>1. maker[e] = Module => e # d
        BY <3>1 DEF PyInv, PyPhases, Making, Nobody, Module
      <4> QED
        BY <3>1, <4>1 DEF PyInv, Makers
    <3>3. maker[e] = f => f # c /\ pc[f] = "idle"
      BY <3>1 DEF PyInv, Makers
    <3> QED
      BY <3>1, <3>2, <3>3 DEF Sane, PyInv, PyTypes
  <2>3. Outlived'
    BY DEF PyInv, PyTypes, PyPhases, Outlived, Clone, Idle, At, Making, Closing
  <2> QED
    BY <1>2, <2>1, <2>2, <2>3 DEF PyInv
<1> QED
  BY <1>3, <1>4

\* The rest of the making of a connection, when it goes well.
LEMMA CountsConnection ==
  ASSUME Sane, PyInv, NEW c \in PyConnections,
         OpenChild(c) \/ Share(c) \/ AutocommitOff(c)
  PROVE  PyInv'
<1>1. children' = Cardinality(Counted')
  <2>1. CASE OpenChild(c)
    <3>1. Counted' = Counted \cup {c} /\ c \notin Counted
      BY <2>1 DEF PyInv, PyTypes, PyPhases, OpenChild, At, Counted, Making, Closing
    <3> QED
      BY <2>1, <3>1, Recount DEF PyInv, OpenChild
  <2>2. CASE Share(c) \/ AutocommitOff(c)
    <3>1. Counted' = Counted
      BY <2>2 DEF PyInv, PyTypes, PyPhases, Share, AutocommitOff, At, Counted, Making, Closing
    <3> QED
      BY <2>2, <3>1 DEF PyInv, Share, AutocommitOff
  <2> QED
    BY <2>1, <2>2
<1>2. PyTypes' /\ PyPhases'
  <2>1. PyTypes'
    BY SMT DEF PyInv, PyTypes, OpenChild, Share, AutocommitOff, At, Making
  <2>2. CASE OpenChild(c) \/ Share(c)
    <3>1. pc[c] \in {"made", "counted"} /\ handle' = handle /\ maker' = maker
      BY <2>2 DEF OpenChild, Share, At
    <3>2. PICK there \in {"counted", "shared"} : pc' = [pc EXCEPT ![c] = there]
      BY <2>2 DEF OpenChild, Share, At
    <3>3. pc'[c] = there /\ \A d \in PyConnections \ {c} : pc'[d] = pc[d]
      BY <3>2 DEF PyInv, PyTypes
    <3> QED
      BY <2>1, <3>1, <3>3 DEF PyInv, PyPhases, Making, Closing
  <2>3. CASE AutocommitOff(c)
    BY <2>1, <2>3 DEF PyInv, PyTypes, PyPhases, AutocommitOff, At, Making, Closing
  <2> QED
    BY <2>2, <2>3
<1>3. Makers'
  BY SMT DEF Sane, PyInv, PyTypes, PyPhases, Makers, OpenChild, Share, AutocommitOff, At, Making,
         Nobody, Module
<1>4. Outlived'
  BY DEF PyInv, PyTypes, Outlived, OpenChild, Share, AutocommitOff, At
<1> QED
  BY <1>1, <1>2, <1>3, <1>4 DEF PyInv

\* ... and when disabling autocommit fails.
LEMMA LosesConnection ==
  ASSUME Sane, PyInv, NEW c \in PyConnections, AutocommitFails(c)
  PROVE  PyInv'
<1>1. /\ pc[c] = "shared" /\ handle[c] = "live" /\ maker[c] # Nobody
      /\ pc' = [pc EXCEPT ![c] = "lost"] /\ maker' = [maker EXCEPT ![c] = Nobody]
      /\ count' = count
  BY DEF PyInv, PyPhases, AutocommitFails, At, Making
<1>2. CASE maker[c] = Module
  <2>1. /\ handle' = [handle EXCEPT ![c] = "released"]
        /\ children' = children - 1 /\ database' = "released"
    BY <1>2 DEF AutocommitFails
  <2>2. Counted' = Counted \ {c} /\ c \in Counted
    BY <1>1, <2>1 DEF PyInv, PyTypes, Counted
  <2>3. children' = Cardinality(Counted')
    BY <2>1, <2>2, Recount DEF PyInv
  <2>4. \A d \in PyConnections \ {c} : pc[d] = "none" /\ handle[d] # "live" /\ maker[d] = Nobody
    BY <1>2 DEF PyInv, PyTypes, PyPhases, Makers, Making
  <2>5. Outlived'
    BY <1>1, <2>1, <2>4 DEF PyInv, PyTypes, Outlived
  <2>8. PyTypes'
    <3>1. database' \in {"none", "open", "released"} /\ children' \in Int /\ count' \in Int
      BY <1>1, <2>1, SMT DEF PyInv, PyTypes
    <3>2. handle' \in [PyConnections -> {"none", "live", "released"}]
      BY <1>1, <2>1 DEF PyInv, PyTypes
    <3>3. pc' \in [PyConnections -> {"none", "idle", "release", "lost"} \cup Making \cup Closing]
      BY <1>1, <2>1 DEF PyInv, PyTypes
    <3>4. maker' \in [PyConnections -> PyConnections \cup {Nobody, Module}]
      BY <1>1, <2>1 DEF PyInv, PyTypes
    <3> QED
      BY <3>1, <3>2, <3>3, <3>4 DEF PyTypes, Nobody, Module, Making, Closing
  <2>7. PyPhases'
    BY <1>1, <2>1, <2>4 DEF PyInv, PyTypes, PyPhases, Making, Closing
  <2>6. Makers'
    BY <1>1, <2>4, SMT DEF Sane, PyInv, PyTypes, Makers, Nobody, Module
  <2> QED
    BY <2>3, <2>5, <2>6, <2>7, <2>8 DEF PyInv
<1>3. CASE maker[c] # Module
  <2>1. UNCHANGED <<handle, children, database>>
    BY <1>3 DEF AutocommitFails
  <2>2. Counted' = Counted
    BY <1>1, <2>1 DEF PyInv, PyTypes, Counted
  <2>3. PyTypes' /\ PyPhases' /\ Outlived'
    BY <1>1, <2>1 DEF PyInv, PyTypes, PyPhases, Outlived, Making, Closing
  <2>4. Makers'
    BY <1>1, <1>3, <2>1, SMT DEF Sane, PyInv, PyTypes, PyPhases, Makers, Making, Nobody, Module
  <2> QED
    BY <2>1, <2>2, <2>3, <2>4 DEF PyInv
<1> QED
  BY <1>2, <1>3

\* Opening and closing cursors and stuttering change nothing of the invariant.
LEMMA LeavesHandles ==
  ASSUME PyInv, UNCHANGED <<database, children, count, handle, pc, maker>>
  PROVE  PyInv'
BY DEF PyInv, PyTypes, Counted, PyPhases, Makers, Outlived

\* A thread in Connection.close moves on.
LEMMA ClosesConnection ==
  ASSUME Sane, PyInv, NEW c \in PyConnections,
         Close(c) \/ ReleaseConnection(c) \/ CloseChild(c) \/ Dec(c)
  PROVE  PyInv'
<1>1. children' = Cardinality(Counted')
  <2>1. CASE CloseChild(c)
    <3>1. Counted' = Counted \ {c} /\ c \in Counted
      BY <2>1 DEF PyInv, PyTypes, PyPhases, CloseChild, At, Counted, Making, Closing
    <3> QED
      BY <2>1, <3>1, Recount DEF PyInv, CloseChild
  <2>2. CASE Close(c) \/ ReleaseConnection(c) \/ Dec(c)
    <3>1. Counted' = Counted
      BY <2>2 DEF PyInv, PyTypes, PyPhases, Close, Idle, ReleaseConnection, Dec, At, Counted,
                  Making, Closing
    <3> QED
      BY <2>2, <3>1 DEF PyInv, Close, ReleaseConnection, Dec
  <2> QED
    BY <2>1, <2>2
<1>2. /\ pc[c] \in {"idle", "closed", "release", "closeChild", "dec"}
      /\ pc[c] = "idle" => \A d \in PyConnections : maker[d] # c
  BY DEF Close, Idle, ReleaseConnection, CloseChild, Dec, At
<1>3. maker' = maker /\ database' = database /\ children' \in Int /\ count' \in Int
  <2>1. UNCHANGED <<maker, database>>
    BY DEF Close, ReleaseConnection, CloseChild, Dec
  <2>2. children' \in {children, children - 1} /\ count' \in {count, count - 1}
    BY DEF Close, ReleaseConnection, CloseChild, Dec
  <2> QED
    BY <2>1, <2>2, SMT DEF PyInv, PyTypes
<1>8. \/ handle' = handle
      \/ pc[c] = "release" /\ handle' = [handle EXCEPT ![c] = "released"]
  BY DEF Close, ReleaseConnection, CloseChild, Dec, At
<1>9. PICK there \in {"release", "closeChild", "dec", "check", "closed"} :
        /\ pc' = [pc EXCEPT ![c] = there]
        /\ there # "release" => handle'[c] # "live"
  BY DEF PyInv, PyTypes, PyPhases, Closing, Close, Idle, ReleaseConnection, CloseChild, Dec, At
<1>4. PyTypes'
  BY <1>3, <1>8, <1>9 DEF PyInv, PyTypes, Closing
<1>5. PyPhases'
  BY <1>2, <1>3, <1>8, <1>9, SMT DEF PyInv, PyTypes, PyPhases, Making, Closing
<1>6. Makers'
  BY <1>2, <1>3, <1>9, SMT DEF PyInv, PyTypes, Makers
<1>7. Outlived'
  BY <1>2, <1>3, <1>8, <1>9 DEF PyInv, PyTypes, Outlived
<1> QED
  BY <1>1, <1>4, <1>5, <1>6, <1>7 DEF PyInv

\* AdbcDatabase.close: without children, no connection is live, for one in the
\* making has a maker, and this one is counted.
LEMMA ClosesDatabase ==
  ASSUME Sane, PyInv, NEW c \in PyConnections,
         CheckOpenChildren(c) \/ ReleaseDatabase(c)
  PROVE  PyInv'
<1>1. UNCHANGED <<children, count, handle, maker>>
  BY DEF CheckOpenChildren, ReleaseDatabase
<1>2. PICK there \in {"releaseDatabase", "closed"} : pc' = [pc EXCEPT ![c] = there]
  BY DEF CheckOpenChildren, ReleaseDatabase, At
<1>3. pc[c] \in {"check", "releaseDatabase"} /\ database' \in {database, "released"}
  BY DEF CheckOpenChildren, ReleaseDatabase, At
<1>4. Counted' = Counted
  BY <1>1, <1>2, <1>3 DEF PyInv, PyTypes, Counted
<1>5. PyTypes' /\ PyPhases'
  BY <1>1, <1>2, <1>3 DEF PyInv, PyTypes, PyPhases, Making, Closing
<1>6. Makers'
  BY <1>1, <1>2, <1>3, SMT DEF PyInv, PyTypes, Makers
<1>7. Outlived'
  <2>1. CASE ReleaseDatabase(c)
    BY <1>1, <1>2, <1>3, <2>1 DEF PyInv, PyTypes, Outlived, ReleaseDatabase, At
  <2>2. CASE CheckOpenChildren(c) /\ children # 0
    BY <1>1, <2>2 DEF PyInv, PyTypes, Outlived, CheckOpenChildren, At
  <2>3. CASE CheckOpenChildren(c) /\ children = 0
    <3>1. Counted = {}
      BY <2>3, CountedIsFinite, FS_EmptySet DEF PyInv
    <3>2. \A d \in PyConnections : handle[d] # "live"
      <4> SUFFICES ASSUME NEW d \in PyConnections, handle[d] = "live" PROVE FALSE
        OBVIOUS
      <4>1. pc[d] = "made"
        BY <3>1 DEF Counted
      <4>2. maker[d] # Nobody /\ d # c
        BY <1>3, <4>1 DEF PyInv, PyPhases, Making
      <4>3. CASE maker[d] = Module
        BY <1>3, <4>2, <4>3 DEF PyInv, Makers
      <4>4. CASE maker[d] \in PyConnections
        <5>1. pc[maker[d]] = "idle"
          BY <4>4 DEF PyInv, Makers
        <5> QED
          BY <3>1, <4>4, <5>1 DEF PyInv, PyPhases, Counted
      <4> QED
        BY <4>2, <4>3, <4>4 DEF PyInv, PyTypes
    <3> QED
      BY <1>1, <1>2, <1>3, <2>3, <3>2 DEF PyInv, PyTypes, Outlived, CheckOpenChildren
  <2> QED
    BY <2>1, <2>2, <2>3
<1> QED
  BY <1>1, <1>4, <1>5, <1>6, <1>7 DEF PyInv

\* Everything is closed and forgotten.
LEMMA StartsAgain == Sane /\ PyInv /\ Forget => PyInv'
<1> SUFFICES ASSUME Sane, PyInv, Forget PROVE PyInv'
  OBVIOUS
<1>1. Counted' = {}
  BY DEF Forget, Counted
<1>2. \A c \in PyConnections : maker[c] = Nobody
  BY DEF PyInv, PyPhases, Forget, Making
<1>3. Cardinality(Counted') = 0
  BY <1>1, FS_EmptySet
<1>4. PyTypes'
  <2>1. database' \in {"none", "open", "released"} /\ children' \in Int /\ count' \in Int
    BY SMT DEF Forget
  <2>2. handle' \in [PyConnections -> {"none", "live", "released"}]
    BY DEF Forget
  <2>3. pc' \in [PyConnections -> {"none", "idle", "release", "lost"} \cup Making \cup Closing]
    BY DEF Forget
  <2>4. maker' \in [PyConnections -> PyConnections \cup {Nobody, Module}]
    BY DEF Forget, PyInv, PyTypes
  <2> QED
    BY <2>1, <2>2, <2>3, <2>4 DEF PyTypes, Nobody, Module, Making, Closing
<1>6. PyPhases'
  BY <1>2 DEF PyPhases, Forget, Making, Closing, Nobody
<1>5. Makers' /\ Outlived'
  BY <1>2 DEF Sane, Makers, Outlived, Forget, Nobody, Module
<1> QED
  BY <1>3, <1>4, <1>5, <1>6 DEF PyInv, Forget

\* Every step keeps the invariant.
LEMMA StepInvariant == Sane /\ PyInv /\ [PyNext]_pyVars => PyInv'
<1> SUFFICES ASSUME Sane, PyInv, [PyNext]_pyVars PROVE PyInv'
  OBVIOUS
<1>1. ASSUME NEW c \in PyConnections, PyStep(c) PROVE PyInv'
  <2>1. CASE \E x \in Cursors : OpenCursor(c, x)
    BY <2>1, LeavesHandles DEF OpenCursor
  <2> QED
    BY <1>1, <2>1, MakesConnection, CountsConnection, LosesConnection, ClosesConnection,
       ClosesDatabase DEF PyStep
<1>2. CASE \E x \in Cursors : CloseCursor(x)
  BY <1>2, LeavesHandles DEF CloseCursor
<1>3. CASE UNCHANGED pyVars
  BY <1>3, LeavesHandles DEF pyVars
<1> QED
  BY <1>1, <1>2, <1>3, StartsAgain DEF PyNext

\* The database of the Python bindings is released only after every connection
\* to it, for any finite set of connections and any number of closes.
THEOREM DatabaseIsSafe == Sane => (PySpec => []DatabaseOutlives)
<1> SUFFICES ASSUME Sane PROVE PySpec => []DatabaseOutlives
  OBVIOUS
<1>1. PyInit => PyInv
  BY InitInvariant
<1>2. PyInv /\ [PyNext]_pyVars => PyInv'
  BY StepInvariant
<1>3. PyInv => DatabaseOutlives
  BY DEF PyInv, Outlived, DatabaseOutlives
<1> QED
  BY <1>1, <1>2, <1>3, PTL DEF PySpec

-----------------------------------------------------------------------------
(* The connection that is closed last releases the database.               *)

\* No connection was lost or closed twice.
Regular == \A c \in PyConnections : pc[c] # "lost" /\ closes[c] <= 1

\* The connections that _SharedDatabase counts.
Sharing ==
  {c \in PyConnections : pc[c] \in {"shared", "idle", "release", "closeChild", "dec"}}

\* The threads that close the database.
Ending == {c \in PyConnections : pc[c] \in {"check", "releaseDatabase"}}

Closes ==
  /\ closes \in [PyConnections -> Nat]
  /\ \A c \in PyConnections : pc[c] \in Closing \cup {"release"} => closes[c] > 0

\* As long as nothing was lost, the count of dbapi.py is right; who closes the
\* database is alone, and an open database has someone left to close it.
LastInv ==
  /\ Closes
  /\ Regular =>
       /\ count = Cardinality(Sharing)
       /\ Ending # {} => Sharing = {}
       /\ database = "open" => \E c \in PyConnections : pc[c] \notin {"none", "closed"}

\* One more connection shares the database, or one less.
LEMMA RecountSharing ==
  ASSUME Sane, NEW S, NEW c, count = Cardinality(Sharing)
  PROVE  /\ S = Sharing \cup {c} /\ c \notin Sharing => Cardinality(S) = count + 1
         /\ S = Sharing \ {c} /\ c \in Sharing => Cardinality(S) = count - 1
         /\ count = 0 <=> Sharing = {}
<1>1. IsFiniteSet(Sharing)
  BY FS_Subset DEF Sane, Sharing
<1> QED
  BY <1>1, FS_AddElement, FS_RemoveElement, FS_EmptySet, SMT

\* Who closes the database finds no children: a connection in the making
\* would have a maker, and this one would share the database.
LEMMA NoChildren ==
  ASSUME Sane, PyInv, Regular, Sharing = {}, Ending # {}
  PROVE  children = 0
<1>1. ASSUME NEW d \in PyConnections, d \in Counted PROVE FALSE
  <2>1. pc[d] \notin {"shared", "idle", "release", "closeChild", "dec", "lost"}
    BY DEF Sharing, Regular
  <2>2. handle[d] = "live" /\ pc[d] = "counted"
    BY <1>1, <2>1 DEF PyInv, PyTypes, PyPhases, Counted, Making, Closing
  <2>3. maker[d] # Nobody
    BY <2>2 DEF PyInv, PyPhases, Making
  <2>4. maker[d] # Module
    <3>1. PICK e \in PyConnections : pc[e] \in {"check", "releaseDatabase"}
      BY DEF Ending
    <3> QED
      BY <2>2, <3>1 DEF PyInv, Makers
  <2>5. maker[d] \in PyConnections
    BY <2>3, <2>4 DEF PyInv, PyTypes
  <2>6. pc[maker[d]] = "idle"
    BY <2>5 DEF PyInv, Makers
  <2> QED
    BY <2>5, <2>6 DEF Sharing
<1>2. Counted = {}
  BY <1>1 DEF Counted
<1> QED
  BY <1>2, FS_EmptySet DEF PyInv

\* It holds before anything is connected, and after everything is forgotten.
LEMMA LastInit == Sane /\ PyInit => LastInv
<1> SUFFICES ASSUME Sane, PyInit PROVE LastInv
  OBVIOUS
<1>1. Sharing = {} /\ Ending = {}
  BY DEF PyInit, Sharing, Ending
<1>2. Cardinality(Sharing) = 0
  BY <1>1, FS_EmptySet
<1> QED
  BY <1>1, <1>2 DEF PyInit, LastInv, Closes, Closing

LEMMA LastForgets == Sane /\ Forget => LastInv'
<1> SUFFICES ASSUME Sane, Forget PROVE LastInv'
  OBVIOUS
<1>1. Sharing' = {} /\ Ending' = {}
  BY DEF Forget, Sharing, Ending
<1>2. Cardinality(Sharing') = 0
  BY <1>1, FS_EmptySet
<1>3. Closes'
  BY DEF Forget, Closes, Closing
<1> QED
  BY <1>1, <1>2, <1>3 DEF Forget, LastInv

\* A connection is made or shares the database: then nobody closes it, and it
\* has someone to close it.
LEMMA LastMakes ==
  ASSUME Sane, PyInv, PyInv', LastInv, NEW c \in PyConnections,
         \/ Connect(c) \/ (\E d \in PyConnections : Clone(d, c))
         \/ OpenChild(c) \/ Share(c) \/ AutocommitOff(c)
  PROVE  LastInv'
<1>1. PICK there \in {"made", "counted", "shared", "idle"} : pc' = [pc EXCEPT ![c] = there]
  BY DEF Connect, Clone, OpenChild, Share, AutocommitOff, At
<1>2. pc[c] \in {"none", "made", "counted", "shared"} /\ closes' = closes
  BY DEF Connect, Clone, OpenChild, Share, AutocommitOff, At
<1>3. Closes' /\ (Regular' => Regular)
  BY <1>1, <1>2 DEF PyInv, PyTypes, LastInv, Closes, Regular, Closing
<1>4. \E d \in PyConnections : pc'[d] \notin {"none", "closed"}
  BY <1>1 DEF PyInv, PyTypes
<1>5. Ending' = Ending
  BY <1>1, <1>2 DEF PyInv, PyTypes, Ending
<1> SUFFICES ASSUME Regular'
             PROVE  count' = Cardinality(Sharing') /\ (Ending' # {} => Sharing' = {})
  BY <1>3, <1>4 DEF LastInv
<1>6. count = Cardinality(Sharing) /\ (Ending # {} => Sharing = {})
  BY <1>3 DEF LastInv
<1>7. CASE Share(c)
  <2>1. pc[c] = "counted" /\ pc' = [pc EXCEPT ![c] = "shared"]
        /\ count' = IF maker[c] = Module THEN 1 ELSE count + 1
    BY <1>7 DEF Share, At
  <2>2. Sharing' = Sharing \cup {c} /\ c \notin Sharing
    BY <2>1 DEF PyInv, PyTypes, Sharing
  <2>3. maker[c] = Module => Sharing = {}
    BY <2>1 DEF PyInv, Makers, Sharing
  <2>4. count' = Cardinality(Sharing')
    BY <1>6, <2>1, <2>2, <2>3, RecountSharing, SMT
  <2>5. Ending = {}
    <3> SUFFICES ASSUME NEW e \in Ending PROVE FALSE
      OBVIOUS
    <3>1. e \in PyConnections /\ pc[e] \in {"check", "releaseDatabase"}
      BY DEF Ending
    <3>2. maker[c] # Nobody /\ maker[c] # Module
      BY <2>1, <3>1 DEF PyInv, PyPhases, Makers, Making
    <3>3. maker[c] \in PyConnections
      BY <3>2 DEF PyInv, PyTypes
    <3>4. pc[maker[c]] = "idle"
      BY <3>3 DEF PyInv, Makers
    <3>5. maker[c] \in Sharing
      BY <3>3, <3>4 DEF Sharing
    <3> QED
      BY <1>6, <3>5
  <2> QED
    BY <1>5, <2>4, <2>5
<1>8. CASE ~Share(c)
  <2>1. count' = count
    BY <1>8 DEF Connect, Clone, OpenChild, AutocommitOff
  <2>2. Sharing' = Sharing
    <3>1. \/ pc[c] \in {"none", "made"} /\ there \in {"made", "counted"}
          \/ pc[c] = "shared" /\ there = "idle"
      BY <1>1, <1>2, <1>8 DEF Connect, Clone, OpenChild, AutocommitOff, At, PyInv, PyTypes
    <3> QED
      BY <1>1, <3>1 DEF PyInv, PyTypes, Sharing
  <2> QED
    BY <1>5, <1>6, <2>1, <2>2
<1> QED
  BY <1>7, <1>8

\* A connection is lost: from then on nothing is promised.
LEMMA LastLoses ==
  ASSUME PyInv, LastInv, NEW c \in PyConnections, AutocommitFails(c)
  PROVE  LastInv'
<1>1. pc' = [pc EXCEPT ![c] = "lost"] /\ closes' = closes
  BY DEF AutocommitFails, At
<1>2. ~Regular'
  BY <1>1 DEF PyInv, PyTypes, Regular
<1>3. Closes'
  BY <1>1 DEF PyInv, PyTypes, LastInv, Closes, Closing
<1> QED
  BY <1>2, <1>3 DEF LastInv

\* A call of Connection.close, and its steps up to the count: a connection that
\* was closed before is not regular.
LEMMA LastCloses ==
  ASSUME PyInv, LastInv, NEW c \in PyConnections,
         Close(c) \/ ReleaseConnection(c) \/ CloseChild(c)
  PROVE  LastInv'
<1>1. PICK there \in {"release", "closeChild", "dec"} : pc' = [pc EXCEPT ![c] = there]
  BY DEF Close, ReleaseConnection, CloseChild, At
<1>2. /\ pc[c] \in {"idle", "closed", "release", "closeChild"}
      /\ \/ closes' = closes /\ pc[c] \in {"release", "closeChild"}
         \/ closes' = [closes EXCEPT ![c] = @ + 1]
      /\ count' = count
  BY DEF Close, Idle, ReleaseConnection, CloseChild, At
<1>8. /\ closes' \in [PyConnections -> Nat] /\ closes'[c] > 0
      /\ closes[c] \in Nat /\ closes'[c] >= closes[c]
      /\ pc[c] = "closed" => closes'[c] > 1
      /\ \A d \in PyConnections \ {c} : closes'[d] = closes[d]
  <2>1. /\ closes \in [PyConnections -> Nat]
        /\ pc[c] \in {"release", "closeChild", "closed"} => closes[c] > 0
    BY DEF LastInv, Closes, Closing
  <2>2. CASE closes' = closes /\ pc[c] \in {"release", "closeChild"}
    BY <2>1, <2>2, SMT
  <2>3. CASE closes' = [closes EXCEPT ![c] = @ + 1]
    <3>1. /\ closes' \in [PyConnections -> Nat] /\ closes'[c] = closes[c] + 1
          /\ \A d \in PyConnections \ {c} : closes'[d] = closes[d]
      BY <2>1, <2>3, SMT
    <3> QED
      BY <2>1, <3>1, SMT
  <2> QED
    BY <1>2, <2>2, <2>3
<1>9. pc'[c] = there /\ \A d \in PyConnections \ {c} : pc'[d] = pc[d]
  BY <1>1 DEF PyInv, PyTypes
<1>3. Closes'
  BY <1>8, <1>9 DEF LastInv, Closes
<1>4. Regular' => Regular /\ pc[c] # "closed"
  BY <1>2, <1>8, <1>9, SMT DEF Regular
<1>5. \E d \in PyConnections : pc'[d] \notin {"none", "closed"}
  BY <1>1 DEF PyInv, PyTypes
<1>6. pc[c] # "closed" => Sharing' = Sharing
  BY <1>1, <1>2 DEF PyInv, PyTypes, Sharing
<1>7. Ending' = Ending
  BY <1>1, <1>2 DEF PyInv, PyTypes, Ending
<1> QED
  BY <1>2, <1>3, <1>4, <1>5, <1>6, <1>7 DEF LastInv

\* _SharedDatabase._dec: the last one goes on to close the database.
LEMMA LastCounts ==
  ASSUME Sane, PyInv, LastInv, NEW c \in PyConnections, Dec(c)
  PROVE  LastInv'
<1>1. /\ pc[c] = "dec" /\ closes' = closes /\ database' = database /\ count' = count - 1
      /\ pc' = [pc EXCEPT ![c] = IF count = 1 THEN "check" ELSE "closed"]
  BY DEF Dec, At
<1>2. Closes' /\ (Regular' => Regular)
  BY <1>1 DEF PyInv, PyTypes, LastInv, Closes, Regular, Closing
<1> SUFFICES ASSUME Regular'
             PROVE  /\ count' = Cardinality(Sharing')
                    /\ Ending' # {} => Sharing' = {}
                    /\ \E d \in PyConnections : pc'[d] \notin {"none", "closed"}
  BY <1>2 DEF LastInv
<1>3. count = Cardinality(Sharing) /\ (Ending # {} => Sharing = {})
  BY <1>2 DEF LastInv
<1>4. c \in Sharing /\ Sharing' = Sharing \ {c}
  BY <1>1 DEF PyInv, PyTypes, Sharing
<1>5. count' = Cardinality(Sharing') /\ Ending = {}
  BY <1>1, <1>3, <1>4, RecountSharing
<1>6. CASE count = 1
  <2>1. IsFiniteSet(Sharing')
    BY <1>4, FS_Subset DEF Sane, Sharing
  <2>2. Sharing' = {}
    BY <1>1, <1>5, <1>6, <2>1, FS_EmptySet, SMT
  <2>3. pc'[c] = "check"
    BY <1>1, <1>6 DEF PyInv, PyTypes
  <2> QED
    BY <1>5, <2>2, <2>3
<1>7. CASE count # 1
  <2>1. Ending' = {}
    BY <1>1, <1>5, <1>7 DEF PyInv, PyTypes, Ending
  <2>2. Sharing' # {}
    <3> SUFFICES ASSUME Sharing' = {} PROVE FALSE
      OBVIOUS
    <3>1. count' = 0
      BY <1>5, FS_EmptySet
    <3> QED
      BY <1>1, <1>7, <3>1, SMT DEF PyInv, PyTypes
  <2>3. PICK d \in PyConnections : d \in Sharing'
    BY <2>2 DEF Sharing
  <2>4. pc'[d] \notin {"none", "closed"}
    BY <2>3 DEF Sharing
  <2> QED
    BY <1>5, <2>1, <2>4
<1> QED
  BY <1>6, <1>7

\* AdbcDatabase.close finds no children and releases the handle.
LEMMA LastReleases ==
  ASSUME Sane, PyInv, LastInv, NEW c \in PyConnections,
         CheckOpenChildren(c) \/ ReleaseDatabase(c)
  PROVE  LastInv'
<1>1. PICK there \in {"releaseDatabase", "closed"} : pc' = [pc EXCEPT ![c] = there]
  BY DEF CheckOpenChildren, ReleaseDatabase, At
<1>2. pc[c] \in {"check", "releaseDatabase"} /\ closes' = closes /\ count' = count
  BY DEF CheckOpenChildren, ReleaseDatabase, At
<1>3. Closes' /\ (Regular' => Regular)
  BY <1>1, <1>2 DEF PyInv, PyTypes, LastInv, Closes, Regular, Closing
<1> SUFFICES ASSUME Regular'
             PROVE  /\ count' = Cardinality(Sharing') /\ Sharing' = {}
                    /\ database' = "open" =>
                         \E d \in PyConnections : pc'[d] \notin {"none", "closed"}
  BY <1>3 DEF LastInv
<1>4. c \in Ending /\ Sharing' = Sharing
  BY <1>1, <1>2 DEF PyInv, PyTypes, Sharing, Ending
<1>5. count = Cardinality(Sharing) /\ Sharing = {}
  BY <1>3, <1>4 DEF LastInv
<1>6. CASE ReleaseDatabase(c)
  BY <1>2, <1>4, <1>5, <1>6 DEF ReleaseDatabase
<1>7. CASE CheckOpenChildren(c)
  <2>1. children = 0
    BY <1>3, <1>4, <1>5, NoChildren
  <2>2. pc'[c] = "releaseDatabase"
    BY <1>7, <2>1 DEF CheckOpenChildren, At, PyInv, PyTypes
  <2> QED
    BY <1>2, <1>4, <1>5, <2>2
<1> QED
  BY <1>6, <1>7

\* Every step keeps the invariant.
LEMMA LastStep == Sane /\ PyInv /\ PyInv' /\ LastInv /\ [PyNext]_pyVars => LastInv'
<1> SUFFICES ASSUME Sane, PyInv, PyInv', LastInv, [PyNext]_pyVars PROVE LastInv'
  OBVIOUS
<1>1. ASSUME UNCHANGED <<database, count, pc, closes>> PROVE LastInv'
  BY <1>1 DEF LastInv, Closes, Regular, Sharing, Ending
<1>2. ASSUME NEW c \in PyConnections, PyStep(c) PROVE LastInv'
  <2>1. CASE \E x \in Cursors : OpenCursor(c, x)
    BY <1>1, <2>1 DEF OpenCursor
  <2> QED
    BY <1>2, <2>1, LastMakes, LastLoses, LastCloses, LastCounts, LastReleases DEF PyStep
<1>3. CASE \E x \in Cursors : CloseCursor(x)
  BY <1>1, <1>3 DEF CloseCursor
<1>4. CASE UNCHANGED pyVars
  BY <1>1, <1>4 DEF pyVars
<1> QED
  BY <1>2, <1>3, <1>4, LastForgets DEF PyNext

\* Once every connection was closed, each once, and none was lost, the database
\* is released, in whatever order threads clone and close: for any finite set
\* of connections.
THEOREM LastCloseIsEnough == Sane => (PySpec => []LastCloseReleases)
<1> SUFFICES ASSUME Sane PROVE PySpec => []LastCloseReleases
  OBVIOUS
<1>1. PyInit => PyInv /\ LastInv
  BY InitInvariant, LastInit
<1>2. PyInv /\ LastInv /\ [PyNext]_pyVars => PyInv' /\ LastInv'
  BY StepInvariant, LastStep
<1>3. PyInv /\ LastInv => LastCloseReleases
  BY DEF PyInv, PyTypes, LastInv, Regular, LastCloseReleases
<1> QED
  BY <1>1, <1>2, <1>3, PTL DEF PySpec
=============================================================================
