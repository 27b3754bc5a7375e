---------------------------- MODULE DriverTable ----------------------------
(***************************************************************************)
(* The parameters of the models of the driver manager: the handles, the    *)
(* functions of struct AdbcDriver (src/adbc.h), and which of them a driver *)
(* implements and which may fail.                                          *)
(***************************************************************************)
EXTENDS Naturals

CONSTANTS
  Connections,   \* the AdbcConnection handles
  Statements,    \* the AdbcStatement handles
  Keys,          \* option keys other than "driver" and "entrypoint"
  Values,        \* option values
  Failures,      \* the driver functions that may fail
  Tables         \* the sets of functions a driver may implement

Required ==
  {"DatabaseNew", "DatabaseInit", "DatabaseRelease", "ConnectionNew",
   "ConnectionInit", "ConnectionRelease", "StatementExecuteQuery",
   "StatementNew", "StatementRelease"}

ConnectionCalls ==
  {"ConnectionCommit", "ConnectionGetInfo", "ConnectionGetObjects",
   "ConnectionGetTableSchema", "ConnectionGetTableTypes",
   "ConnectionReadPartition", "ConnectionRollback"}

StatementCalls ==
  {"StatementBind", "StatementBindStream", "StatementExecutePartitions",
   "StatementExecuteQuery", "StatementGetParameterSchema", "StatementPrepare",
   "StatementSetOption", "StatementSetSqlQuery", "StatementSetSubstraitPlan"}

\* The function pointers of struct AdbcDriver, but for release.
Functions ==
  Required \cup ConnectionCalls \cup StatementCalls
    \cup {"DatabaseSetOption", "ConnectionSetOption"}

Callbacks ==
  {"load", "DatabaseNew", "DatabaseSetOption",
   "DatabaseRelease", "ConnectionNew", "ConnectionSetOption",
   "ConnectionInit", "ConnectionRelease", "StatementNew", "StatementRelease"}

ASSUME ManagerAssumption ==
  /\ Failures \subseteq Callbacks
  /\ Tables \subseteq SUBSET Functions
=============================================================================
