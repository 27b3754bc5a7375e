-------------------------- MODULE MCDriverManager --------------------------
(***************************************************************************)
(* Instances of DriverManager, RBindings, GLibBindings and PyHandles for   *)
(* TLC.  A behaviour is one of a scenario, chosen at the start:            *)
(*   "handles"  a program calls the manager, any driver function may fail; *)
(*   "memory"   the same, without the failures that lose an object;        *)
(*   "R"        an R program, and the garbage collector;                   *)
(*   "glib"     a program that counts references;                          *)
(*   "python"   threads with a connection each to one database.            *)
(***************************************************************************)
EXTENDS DriverManager, RBindings, GLibBindings, PyHandles, FiniteSets, TLC

CONSTANTS c1, c2, c3, s1, s2, k1, v1, v2, Scenarios, GLibFailures

AllFailures == Callbacks

\* No failure that makes the manager lose an object.
TidyFailures == Callbacks \ {"DatabaseNew", "DatabaseRelease", "ConnectionRelease"}

\* What the R package meets: its functions report the other failures with an
\* AdbcError that they have not initialized.
RFailures == {"load", "DatabaseSetOption", "ConnectionNew", "ConnectionSetOption", "ConnectionInit"}

\* A complete driver, one with the required functions only, and one that lacks
\* a required function.
UsualTables == {Functions, Required, Functions \ {"StatementNew"}}

VARIABLE scenario

Memory == INSTANCE DriverManager WITH Failures <- TidyFailures
R      == INSTANCE RBindings WITH Failures <- RFailures
GLib   == INSTANCE GLibBindings
            WITH Failures <- GLibFailures, Values <- {v1, v2}, Tables <- {Functions}

mcVars == <<vars, rVars, gVars, pyVars, scenario>>

MCInit ==
  /\ scenario \in Scenarios
  /\ Init /\ R!RStart /\ GLib!GStart /\ PyInit

\* Every failure is tried with one statement at a time, and R with one
\* connection.  A program that has gone wrong stays so.
Within ==
  CASE scenario = "handles" -> Cardinality({s \in Statements : st'[s].phase # "none"}) <= 1
    [] scenario = "R" -> Cardinality(made' \cap Connections) <= 1
    [] OTHER -> TRUE

MCNext ==
  /\ UNCHANGED scenario
  /\ \/ scenario = "handles" /\ Next /\ UNCHANGED <<rVars, gVars, pyVars>>
     \/ scenario = "memory" /\ Memory!Next /\ UNCHANGED <<rVars, gVars, pyVars>>
     \/ scenario = "R" /\ R!RNext /\ UNCHANGED <<gVars, pyVars>>
     \/ scenario = "glib" /\ GLib!GNext /\ UNCHANGED <<rVars, pyVars>>
     \/ scenario = "python" /\ PyNext /\ UNCHANGED <<vars, rVars, gVars>>
     \/ fault # NoCall /\ UNCHANGED <<vars, rVars, gVars, pyVars>>
  /\ Within

MCSpec == MCInit /\ [][MCNext]_mcVars

\* Nothing is lost and nothing is freed too early: what is allocated is what
\* the handles refer to, for the failures after which the manager knows of it.
NothingLost == scenario # "handles" => NoLeak

Symmetry == Permutations({c1, c2}) \cup Permutations({s1, s2})
=============================================================================
