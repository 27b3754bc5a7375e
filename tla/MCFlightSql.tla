---------------------------- MODULE MCFlightSql ----------------------------
(***************************************************************************)
(* Instances of the Flight SQL driver for TLC.  A behaviour is one of a    *)
(* scenario, chosen at the start:                                          *)
(*   "reader"    the reader of one result;                                 *)
(*   "queries"   one connection, any fault, two queries: the constants of  *)
(*               the configuration;                                        *)
(*   "reports"   one connection, any fault, three transactions;            *)
(*   "contract"  two connections, and no fault that makes the driver lose  *)
(*               track of the server's objects.                            *)
(***************************************************************************)
EXTENDS RecordReader, FlightSqlSession

CONSTANTS c1, c2, q1, Scenarios

VARIABLE scenario

-----------------------------------------------------------------------------
\* Every FlightInfo the reader handles: all but the ones without a schema and
\* with more than one endpoint.
HandledInfos == {i \in InfoType : i.schema # "none" \/ i.n <= 1}

\* Several endpoints and no schema in the FlightInfo.
SchemalessInfos == {[n |-> 2, schema |-> "none"]}

\* With three endpoints the caller keeps one reference and its context.
Within == info.n = 3 => refCount' <= 1 /\ ~parent'

-----------------------------------------------------------------------------
AnyFault ==
  {"begin", "commit", "rollback", "prepare", "close", "execute"} \X {"refused", "lost"}

\* A transaction or a prepared statement whose handle never arrives, a
\* prepared statement that is not closed, a connection without its next
\* transaction: the driver loses track of them.
TraceableFaults ==
  ({"commit", "rollback", "execute"} \X {"refused", "lost"})
    \cup {<<"prepare", "refused">>, <<"close", "lost">>}

Single ==
  INSTANCE FlightSqlSession
    WITH Queries <- {q1}, Params <- {}, Rows <- 1..2, Txns <- 1..3, Handles <- {1}

Pair ==
  INSTANCE FlightSqlSession
    WITH Connections <- {c1, c2}, Queries <- {q1}, Params <- {}, Rows <- 1..2, Txns <- 1..3,
         Handles <- {1}, Faults <- TraceableFaults, Habits <- {}

\* Which of the unused transactions, handles and rows a step takes makes no
\* difference: it takes the first.
TakesFirst ==
  /\ \A t, u \in DOMAIN txns : t < u /\ txns'[t] = "unused" => txns'[u] = "unused"
  /\ \A h, i \in DOMAIN handles :
       h < i /\ handles'[h].state = "unused" => handles'[i].state = "unused"
  /\ LET fresh == (1..2) \ (durable \cup undone \cup UNION {staged[t] : t \in DOMAIN staged})
     IN fresh = 1..2 => 2 \notin durable' \cup UNION {staged'[t] : t \in DOMAIN staged}

-----------------------------------------------------------------------------
\* The reader has one FlightInfo where it is not used.
MCInit ==
  /\ Init /\ scenario \in Scenarios
  /\ scenario = "reader" \/ info = [n |-> 1, schema |-> "valid"]
  /\ CASE scenario = "reports" -> Single!SessionInit
       [] scenario = "contract" -> Pair!SessionInit
       [] OTHER -> SessionInit

MCNext ==
  /\ UNCHANGED scenario
  /\ \/ scenario = "reader" /\ Next /\ Within /\ UNCHANGED sessionVars
     \/ scenario = "queries" /\ SessionNext /\ TakesFirst /\ UNCHANGED vars
     \/ scenario = "reports" /\ Single!SessionNext /\ TakesFirst /\ UNCHANGED vars
     \/ scenario = "contract" /\ Pair!SessionNext /\ TakesFirst /\ UNCHANGED vars

MCSpec == MCInit /\ [][MCNext]_<<vars, sessionVars, scenario>> /\ SchedulerFairness

-----------------------------------------------------------------------------
\* NothingIsLeft of FlightSqlSession, for the faults that allow it.
NothingIsLost == scenario = "contract" => Pair!NothingIsLeft

\* The contract of FlightSqlSession; the other scenarios leave it alone.
PairContract ==
  INSTANCE Transactions
    WITH Connections <- {c1, c2}, Rows <- 1..2,
         manual  <- {c \in {c1, c2} : scenario = "contract" /\ mode[c] = "manual"},
         pending <- [c \in {c1, c2} |-> IF scenario = "contract" THEN Pair!StagedIn(cn[c].txn) ELSE {}],
         durable <- IF scenario = "contract" THEN durable ELSE {}
ContractIsKept == PairContract!Spec
=============================================================================
