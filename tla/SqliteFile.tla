----------------------------- MODULE SqliteFile -----------------------------
(***************************************************************************)
(* The parameters of SqliteConnection: who uses a database file, and how.  *)
(***************************************************************************)
EXTENDS Naturals

CONSTANTS
  Connections,
  Rows,            \* the rows that updates write
  Deferred,        \* rows that violate a constraint checked at COMMIT
  EarlyOptions,    \* whether callers set autocommit before ConnectionInit
  AutoRollbacks    \* whether an update may fail so that SQLite rolls back

ASSUME SqliteAssumption ==
  /\ Deferred \subseteq Rows
  /\ EarlyOptions \in BOOLEAN /\ AutoRollbacks \in BOOLEAN
=============================================================================
