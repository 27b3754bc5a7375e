------------------------------ MODULE MCSqlite ------------------------------
(***************************************************************************)
(* Instances of the SQLite driver for TLC.  A behaviour is one of a        *)
(* scenario, chosen at the start:                                          *)
(*   "statement"  a statement and its streams;                             *)
(*   "inference"  the types of the columns of a stream;                    *)
(*   "catalog"    the catalog functions;                                   *)
(*   "database"   database and connection handles;                         *)
(*   "contract"   connections of one file, whose options may be set before *)
(*                ConnectionInit; SQLite does not roll back by itself;     *)
(*   "returns"    connections of callers that end their reads and          *)
(*                transactions.                                            *)
(***************************************************************************)
EXTENDS SqliteStatement, SqliteCatalog, SqliteDatabase, SqliteConnection

CONSTANTS s1, s2, q1, q2, p1, p2, p3, p4, d1, d2, c1, c2, x1, x2, r1, r2, r3,
          Scenarios, ReturnDeferred

VARIABLE scenario

-----------------------------------------------------------------------------
\* q1 has no parameter and returns two rows, q2 returns one for each parameter.
OneRowEach == q1 :> 2 @@ q2 :> 1

\* q2 returns two rows for each parameter.
TwoRowsEach == q1 :> 2 @@ q2 :> 2

\* p3 cannot be bound; p4 is a double, which is bound as p2.
Binds == {<<>>, <<p1, p4>>, <<p4, p3>>}
PlainBinds == {<<p1>>}
MCNarrows == p4 :> p2

\* Tables: with two columns, none, a view, an index, one with both keys.
AColumn(name, cid, notnull) ==
  [name |-> name, cid |-> cid, type |-> "INT", notnull |-> notnull, dflt_value |-> Null]
ATable(name, type, columns) ==
  [name |-> name, type |-> type, columns |-> columns, pk |-> <<>>, fk |-> <<>>]
Plain == ATable("a", "table", <<AColumn("x", 0, TRUE), AColumn("y", 1, FALSE)>>)
View == ATable("v", "view", <<AColumn("y", 0, FALSE)>>)
Index == ATable("i", "index", <<>>)
WithKeys ==
  [ATable("k", "table", <<AColumn("x", 0, TRUE)>>) EXCEPT
     !.pk = <<"x">>, !.fk = <<[id |-> 0], [id |-> 0], [id |-> 1]>>]
MCDatabases == {<<>>, <<Plain, Index, View>>, <<View, Plain, View>>}
KeyedDatabases == {<<>>, <<Plain, WithKeys>>}
MCWanted ==
  [depth : {"catalogs", "schemas", "tables", "columns"}, catalog : {Null, "main", "temp"},
   schema : {Null, "s"}, table : {Null, "a", "%"}, types : {Null, {"view"}, {}},
   column : {Null, "y"}]
MCCodes == {Null, <<>>, <<"DRIVER_NAME", "UNKNOWN", "VENDOR_NAME", "DRIVER_NAME">>}
MCTableRows == UNION {[1..n -> Values] : n \in 0..3}

-----------------------------------------------------------------------------
\* The callers of "returns".
Patient == INSTANCE SqliteConnection
             WITH Rows <- {r1, r2}, Deferred <- ReturnDeferred,
                  EarlyOptions <- FALSE, AutoRollbacks <- TRUE

mcVars == <<vars, inferVars, catalogVars, databaseVars, fileVars, scenario>>

MCInit ==
  /\ Init /\ InferInit /\ CatalogInit /\ DatabasesInit /\ FileInit
  /\ scenario \in Scenarios
  /\ scenario # "statement" => ~exists

MCNext ==
  /\ UNCHANGED scenario
  /\ \/ /\ scenario = "statement" /\ Next
        /\ UNCHANGED <<inferVars, catalogVars, databaseVars, fileVars>>
     \/ /\ scenario = "inference" /\ InferNext
        /\ UNCHANGED <<vars, catalogVars, databaseVars, fileVars>>
     \/ /\ scenario = "catalog" /\ CatalogNext
        /\ UNCHANGED <<vars, inferVars, databaseVars, fileVars>>
     \/ /\ scenario = "database" /\ DatabasesNext
        /\ UNCHANGED <<vars, inferVars, catalogVars, fileVars>>
     \/ /\ scenario = "contract" /\ FileNext
        /\ UNCHANGED <<vars, inferVars, catalogVars, databaseVars>>
     \/ /\ scenario = "returns" /\ Patient!FileNext
        /\ UNCHANGED <<vars, inferVars, catalogVars, databaseVars>>

MCSpec == MCInit /\ [][MCNext]_mcVars /\ Patient!Fairness

-----------------------------------------------------------------------------
\* As FlagAgrees of SqliteConnection, unless SQLite rolls back by itself.
FlagKept == scenario = "contract" => FlagAgrees

\* As TransactionContract; the other scenarios leave the contract alone.
ContractHere ==
  INSTANCE Transactions
    WITH manual  <- {c \in Connections : scenario = "contract" /\ active[c]},
         pending <- [c \in Connections |-> IF scenario = "contract" THEN wrote[c] ELSE {}],
         durable <- IF scenario = "contract" THEN file ELSE {}
ContractKept == ContractHere!Spec

\* Every SetOption, Commit and Rollback returns, for callers that end their
\* reads and transactions and set no option before ConnectionInit.
CallsReturn ==
  \A c \in Connections :
    scenario = "returns" /\ calling[c] # NotCalling ~> calling[c] = NotCalling
=============================================================================
