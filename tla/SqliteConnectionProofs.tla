----------------------- MODULE SqliteConnectionProofs -----------------------
(***************************************************************************)
(* Proofs about SqliteConnection, for any number of connections and rows,  *)
(* and about SqliteDatabase, for any number of AdbcDatabase and            *)
(* AdbcConnection structs.                                                 *)
(*                                                                         *)
(* The flag active_transaction agrees with SQLite only between calls, so   *)
(* the inductive invariant says, for each call and each query of it, what  *)
(* the flag, SQLite and the rows in question are meanwhile.                *)
(***************************************************************************)
EXTENDS SqliteConnection, SqliteDatabase, TLAPS

\* A leaf that names no prover is for these, in this order.
USE Zenon, SMT, Z3

\* The flag and SQLite's transaction, in the middle of each call.  SQLite has
\* written rows only in a transaction, and nothing before the connection is
\* open.
Flags(c) ==
  /\ ~txn[c] => wrote[c] = {}
  /\ phase[c] = "none" => calling[c].op = "none"
  /\ phase[c] # "open" => ~txn[c] /\ ~active[c]
  /\ calling[c].op \in {"none", "enable", "disable"} => (active[c] <=> txn[c])
  /\ calling[c].op \in {"commit", "rollback"} => active[c] /\ phase[c] = "open"
  /\ calling[c].op \in {"commit", "rollback"} => (txn[c] <=> calling[c].query # "BEGIN")
  /\ calling[c].op = "enable" => active[c]
  /\ calling[c].op = "disable" => ~active[c]

FlagInv == FileTypeOK /\ \A c \in Connections : Flags(c)

\* The rows of the call in progress: not yet committed or rolled back, or
\* already, while Commit and Rollback begin the next transaction.
Asked(c) ==
  /\ calling[c] = NotCalling => asked[c] = {}
  /\ calling[c].op = "disable" \/ calling[c].query # "BEGIN" => asked[c] \subseteq wrote[c]
  /\ calling[c].op = "commit" /\ calling[c].query = "BEGIN" => asked[c] \subseteq file
  /\ calling[c].op = "rollback" /\ calling[c].query = "BEGIN" =>
       /\ asked[c] \cap file = {}
       /\ \A d \in Connections : asked[c] \cap wrote[d] = {}

\* Rows of a transaction are nowhere else.
Pending(c) ==
  /\ wrote[c] \cap (file \cup undone) = {}
  /\ \A d \in Connections : d # c => wrote[c] \cap wrote[d] = {}
  /\ ~txn[c] => wrote[c] = {}

ReportInv ==
  /\ FileTypeOK
  /\ ReportsAreTrue
  /\ \A c \in Connections : Asked(c) /\ Pending(c)

-----------------------------------------------------------------------------
(* Types.                                                                  *)

\* A step is one of the actions of some connection.
LEMMA NextCases ==
  ASSUME FileNext
  PROVE  \E c \in Connections :
           \/ ConnectionNew(c) \/ ConnectionInit(c) \/ ConnectionRelease(c)
           \/ \E enabled \in BOOLEAN : SetAutocommit(c, enabled)
           \/ Commit(c) \/ Rollback(c)
           \/ StepAgain(c) \/ StepError(c) \/ EnableDone(c) \/ DisableDone(c)
           \/ CommitDone(c) \/ RollbackDone(c) \/ BeginDone(c)
           \/ \E r \in Rows : Fresh(r) /\ UpdateInTransaction(c, r)
           \/ \E r \in Rows : Fresh(r) /\ UpdateAlone(c, r)
           \/ UpdateRollsBack(c) \/ ReadStart(c) \/ ReadEnd(c)
  BY DEF FileNext, Query

LEMMA CallTypes ==
  /\ NotCalling \in Calls
  /\ [op |-> "enable", query |-> "COMMIT"] \in Calls
  /\ [op |-> "disable", query |-> "BEGIN"] \in Calls
  /\ [op |-> "commit", query |-> "COMMIT"] \in Calls
  /\ [op |-> "commit", query |-> "BEGIN"] \in Calls
  /\ [op |-> "rollback", query |-> "ROLLBACK"] \in Calls
  /\ [op |-> "rollback", query |-> "BEGIN"] \in Calls
  BY DEF Calls

\* Every step of the driver and of SQLite keeps the types of their state.
LEMMA TypeStep ==
  ASSUME FileTypeOK, [FileNext]_fileVars
  PROVE  FileTypeOK'
<1>1. CASE UNCHANGED fileVars
  BY <1>1 DEF FileTypeOK, fileVars, engine, told
<1>2. CASE FileNext
  <2>1. PICK c \in Connections :
           \/ ConnectionNew(c) \/ ConnectionInit(c) \/ ConnectionRelease(c)
           \/ \E enabled \in BOOLEAN : SetAutocommit(c, enabled)
           \/ Commit(c) \/ Rollback(c)
           \/ StepAgain(c) \/ StepError(c) \/ EnableDone(c) \/ DisableDone(c)
           \/ CommitDone(c) \/ RollbackDone(c) \/ BeginDone(c)
           \/ \E r \in Rows : Fresh(r) /\ UpdateInTransaction(c, r)
           \/ \E r \in Rows : Fresh(r) /\ UpdateAlone(c, r)
           \/ UpdateRollsBack(c) \/ ReadStart(c) \/ ReadEnd(c)
    BY <1>2, NextCases
  <2>2. CASE ConnectionNew(c)
    BY <2>2, CallTypes DEF FileTypeOK, Locks, ConnectionNew, engine, told
  <2>3. CASE ConnectionInit(c)
    BY <2>3, CallTypes DEF FileTypeOK, Locks, ConnectionInit, engine, told
  <2>4. CASE ConnectionRelease(c)
    BY <2>4, CallTypes DEF FileTypeOK, Locks, ConnectionRelease, engine, told
  <2>5. CASE Commit(c)
    BY <2>5, CallTypes DEF FileTypeOK, Locks, Commit, Begins, engine, told
  <2>6. CASE Rollback(c)
    BY <2>6, CallTypes DEF FileTypeOK, Locks, Rollback, Begins, engine, told
  <2>7. CASE StepAgain(c)
    BY <2>7, CallTypes DEF FileTypeOK, Locks, StepAgain, engine, told
  <2>8. CASE StepError(c)
    BY <2>8, CallTypes DEF FileTypeOK, Locks, StepError, Returns, engine, told
  <2>9. CASE EnableDone(c)
    BY <2>9, CallTypes DEF FileTypeOK, Locks, EnableDone, Returns, EndTransaction, LockAfter, engine, told
  <2>10. CASE DisableDone(c)
    BY <2>10, CallTypes DEF FileTypeOK, Locks, DisableDone, Returns, BeginTransaction, engine, told
  <2>11. CASE CommitDone(c)
    BY <2>11, CallTypes DEF FileTypeOK, Locks, CommitDone, Begins, EndTransaction, LockAfter, engine, told
  <2>12. CASE RollbackDone(c)
    BY <2>12, CallTypes DEF FileTypeOK, Locks, RollbackDone, Begins, EndTransaction, LockAfter, engine, told
  <2>13. CASE BeginDone(c)
    BY <2>13, CallTypes DEF FileTypeOK, Locks, BeginDone, Returns, BeginTransaction, engine, told
  <2>14. CASE UpdateRollsBack(c)
    BY <2>14, CallTypes DEF FileTypeOK, Locks, UpdateRollsBack, EndTransaction, LockAfter, engine, told
  <2>15. CASE ReadStart(c)
    BY <2>15, CallTypes DEF FileTypeOK, Locks, ReadStart, engine, told
  <2>16. CASE ReadEnd(c)
    BY <2>16, CallTypes DEF FileTypeOK, Locks, ReadEnd, engine, told
  <2>17. CASE \E enabled \in BOOLEAN : SetAutocommit(c, enabled)
    BY <2>17, CallTypes, SMT DEF FileTypeOK, Locks, SetAutocommit, Begins, engine
  <2>18. CASE \E r \in Rows : Fresh(r) /\ UpdateInTransaction(c, r)
    BY <2>18, CallTypes, SMT DEF FileTypeOK, Locks, UpdateInTransaction, told
  <2>19. CASE \E r \in Rows : Fresh(r) /\ UpdateAlone(c, r)
    BY <2>19, CallTypes DEF FileTypeOK, Locks, UpdateAlone
  <2> QED
    BY <2>1, <2>2, <2>3, <2>4, <2>5, <2>6, <2>7, <2>8, <2>9, <2>10, <2>11, <2>12, <2>13, <2>14, <2>15, <2>16, <2>17, <2>18, <2>19
<1> QED
  BY <1>1, <1>2

-----------------------------------------------------------------------------
(* The flag.                                                               *)

\* Between calls the flag agrees with SQLite.
LEMMA FlagsAgree ==
  ASSUME FlagInv
  PROVE  FlagAgrees
  BY SMT DEF FlagInv, Flags, FlagAgrees, NotCalling

LEMMA NotMisuse ==
  ASSUME NEW c, Result(c) # "SQLITE_MISUSE"
  PROVE  phase[c] # "new"
  BY DEF Result

\* What a step does not change of a connection keeps its flag right.
LEMMA FlagsFrame ==
  ASSUME NEW d, Flags(d), txn'[d] = txn[d], wrote'[d] = wrote[d], phase'[d] = phase[d],
         active'[d] = active[d], calling'[d] = calling[d]
  PROVE  Flags(d)'
  BY DEF Flags

\* Every step keeps the flag right in the middle of each call, as long as
\* SQLite does not roll back by itself.
LEMMA FlagStep ==
  ASSUME FlagInv, [FileNext]_fileVars, ~AutoRollbacks
  PROVE  FlagInv'
<1> USE DEF FlagInv
<1>1. FileTypeOK'
  BY TypeStep
<1>2. ASSUME NEW d \in Connections
      PROVE  Flags(d)'
  <2>1. CASE UNCHANGED fileVars
    BY <2>1, FlagsFrame DEF fileVars, engine
  <2>2. CASE FileNext
    <3>1. PICK c \in Connections :
           \/ ConnectionNew(c) \/ ConnectionInit(c) \/ ConnectionRelease(c)
           \/ \E enabled \in BOOLEAN : SetAutocommit(c, enabled)
           \/ Commit(c) \/ Rollback(c)
           \/ StepAgain(c) \/ StepError(c) \/ EnableDone(c) \/ DisableDone(c)
           \/ CommitDone(c) \/ RollbackDone(c) \/ BeginDone(c)
           \/ \E r \in Rows : Fresh(r) /\ UpdateInTransaction(c, r)
           \/ \E r \in Rows : Fresh(r) /\ UpdateAlone(c, r)
           \/ UpdateRollsBack(c) \/ ReadStart(c) \/ ReadEnd(c)
      BY <2>2, NextCases
    <3>2. CASE ConnectionNew(c)
      BY <3>2, <1>2 DEF FileTypeOK, Flags, ConnectionNew, engine, told
    <3>3. CASE ConnectionInit(c)
      BY <3>3, <1>2 DEF FileTypeOK, Flags, ConnectionInit, engine, told
    <3>4. CASE ConnectionRelease(c)
      <4>1. CASE d # c
        BY <3>4, <4>1, <1>2, FlagsFrame DEF FileTypeOK, ConnectionRelease, told
      <4>2. CASE d = c
        <5>1. calling'[c].op = "none"
          BY <3>4, <4>2, <1>2, SMT DEF FileTypeOK, Flags, Calls, NotCalling, Result, ConnectionRelease, told
        <5>2. ~txn'[c] /\ ~active'[c]
          BY <3>4, <4>2, <1>2 DEF FileTypeOK, Calls, NotCalling, Result, ConnectionRelease, told
        <5>3. wrote'[c] = {}
          BY <3>4, <4>2, <1>2 DEF FileTypeOK, Calls, NotCalling, Result, ConnectionRelease, told
        <5> QED
          BY <4>2, <5>1, <5>2, <5>3 DEF Flags
      <4> QED
        BY <4>1, <4>2
    <3>5. CASE Commit(c)
      BY <3>5, <1>2, SMT DEF FileTypeOK, Flags, Commit, IdleOpen, Begins, NotCalling, engine, told
    <3>6. CASE Rollback(c)
      BY <3>6, <1>2, SMT DEF FileTypeOK, Flags, Rollback, IdleOpen, Begins, NotCalling, engine, told
    <3>7. CASE StepAgain(c)
      BY <3>7, <1>2 DEF FileTypeOK, Flags, StepAgain, engine, told
    <3>8. CASE StepError(c)
      <4>1. CASE d # c
        BY <3>8, <4>1, <1>2, FlagsFrame DEF FileTypeOK, StepError, Returns, engine
      <4>2. CASE d = c
        BY <3>8, <4>2, <1>2 DEF FileTypeOK, Flags, Calls, NotCalling, Result, StepError, Returns, engine
      <4> QED
        BY <4>1, <4>2
    <3>9. CASE EnableDone(c)
      BY <3>9, <1>2 DEF FileTypeOK, Flags, EnableDone, Returns, EndTransaction, LockAfter, Result, NotCalling, engine, told
    <3>10. CASE DisableDone(c)
      <4>1. CASE d # c
        BY <3>10, <4>1, <1>2, FlagsFrame DEF FileTypeOK, DisableDone, Returns, BeginTransaction
      <4>2. CASE d = c
        <5>1. phase[c] = "open"
          BY <3>10, <1>2, NotMisuse DEF FileTypeOK, Flags, DisableDone
        <5>2. calling'[c].op = "none" /\ wrote'[c] = wrote[c]
          BY <3>10, <4>2, <1>2 DEF FileTypeOK, Calls, NotCalling, Result, DisableDone, Returns, BeginTransaction
        <5>3. txn'[c] /\ active'[c]
          BY <3>10, <4>2, <1>2 DEF FileTypeOK, Calls, NotCalling, Result, DisableDone, Returns, BeginTransaction
        <5>4. phase'[c] = phase[c]
          BY <3>10, <4>2, <1>2 DEF FileTypeOK, Calls, NotCalling, Result, DisableDone, Returns, BeginTransaction
        <5>5. calling[c].op = "disable" /\ calling[c].query = "BEGIN"
          BY <3>10, <4>2, <1>2, SMT DEF FileTypeOK, Calls, NotCalling, Result, DisableDone, Returns, BeginTransaction
        <5> QED
          BY <4>2, <5>1, <5>2, <5>3, <5>4, <5>5 DEF Flags
      <4> QED
        BY <4>1, <4>2
    <3>11. CASE CommitDone(c)
      <4>1. CASE d # c
        BY <3>11, <4>1, <1>2, FlagsFrame DEF FileTypeOK, CommitDone, Begins, EndTransaction, told
      <4>2. CASE d = c
        <5>1. active[c] /\ phase[c] = "open"
          BY <3>11, <4>2, <1>2, SMT DEF FileTypeOK, Flags, Calls, NotCalling, Result, CommitDone, Begins, EndTransaction, told
        <5>2. calling'[c].op = "commit" /\ calling'[c].query = "BEGIN"
          BY <3>11, <4>2, <1>2 DEF FileTypeOK, Calls, NotCalling, Result, CommitDone, Begins, EndTransaction, told
        <5>3. active'[c] = active[c] /\ phase'[c] = phase[c]
          BY <3>11, <4>2, <1>2 DEF FileTypeOK, Calls, NotCalling, Result, CommitDone, Begins, EndTransaction, told
        <5>4. ~txn'[c]
          BY <3>11, <4>2, <1>2 DEF FileTypeOK, Calls, NotCalling, Result, CommitDone, Begins, EndTransaction, told
        <5>5. wrote'[c] = {}
          BY <3>11, <4>2, <1>2 DEF FileTypeOK, Calls, NotCalling, Result, CommitDone, Begins, EndTransaction, told
        <5> QED
          BY <4>2, <5>1, <5>2, <5>3, <5>4, <5>5 DEF Flags
      <4> QED
        BY <4>1, <4>2
    <3>12. CASE RollbackDone(c)
      <4>1. CASE d # c
        BY <3>12, <4>1, <1>2, FlagsFrame DEF FileTypeOK, RollbackDone, Begins, EndTransaction, told
      <4>2. CASE d = c
        <5>1. active[c] /\ phase[c] = "open"
          BY <3>12, <4>2, <1>2, SMT DEF FileTypeOK, Flags, Calls, NotCalling, Result, RollbackDone, Begins, EndTransaction, told
        <5>2. calling'[c].op = "rollback" /\ calling'[c].query = "BEGIN"
          BY <3>12, <4>2, <1>2 DEF FileTypeOK, Calls, NotCalling, Result, RollbackDone, Begins, EndTransaction, told
        <5>3. active'[c] = active[c] /\ phase'[c] = phase[c]
          BY <3>12, <4>2, <1>2 DEF FileTypeOK, Calls, NotCalling, Result, RollbackDone, Begins, EndTransaction, told
        <5>4. ~txn'[c]
          BY <3>12, <4>2, <1>2 DEF FileTypeOK, Calls, NotCalling, Result, RollbackDone, Begins, EndTransaction, told
        <5>5. wrote'[c] = {}
          BY <3>12, <4>2, <1>2 DEF FileTypeOK, Calls, NotCalling, Result, RollbackDone, Begins, EndTransaction, told
        <5> QED
          BY <4>2, <5>1, <5>2, <5>3, <5>4, <5>5 DEF Flags
      <4> QED
        BY <4>1, <4>2
    <3>13. CASE BeginDone(c)
      BY <3>13, <1>2 DEF FileTypeOK, Flags, BeginDone, Returns, BeginTransaction, Result, NotCalling, engine, told
    <3>14. CASE UpdateRollsBack(c)
      BY <3>14 DEF UpdateRollsBack
    <3>15. CASE ReadStart(c)
      BY <3>15, <1>2 DEF FileTypeOK, Flags, ReadStart, IdleOpen, engine, told
    <3>16. CASE ReadEnd(c)
      BY <3>16, <1>2 DEF FileTypeOK, Flags, ReadEnd, IdleOpen, engine, told
    <3>17. CASE \E enabled \in BOOLEAN : SetAutocommit(c, enabled)
      BY <3>17, <1>2, SMT DEF FileTypeOK, Flags, SetAutocommit, Begins, engine, NotCalling, Calls
    <3>18. CASE \E r \in Rows : Fresh(r) /\ UpdateInTransaction(c, r)
      BY <3>18, <1>2, SMT DEF FileTypeOK, Flags, UpdateInTransaction, IdleOpen, NotCalling
    <3>19. CASE \E r \in Rows : Fresh(r) /\ UpdateAlone(c, r)
      BY <3>19, <1>2 DEF FileTypeOK, Flags, UpdateAlone, IdleOpen, NotCalling
    <3> QED
      BY <3>1, <3>2, <3>3, <3>4, <3>5, <3>6, <3>7, <3>8, <3>9, <3>10, <3>11, <3>12, <3>13, <3>14, <3>15, <3>16, <3>17, <3>18, <3>19
  <2> QED
    BY <2>1, <2>2
<1> QED
  BY <1>1, <1>2
LEMMA FlagInit ==
  ASSUME FileInit
  PROVE  FlagInv
<1>1. FileTypeOK
  BY CallTypes DEF FileInit, FileTypeOK, Locks
<1>2. \A c \in Connections : Flags(c)
  BY DEF FileInit, Flags, NotCalling
<1> QED
  BY <1>1, <1>2 DEF FlagInv

\* The state of the connections keeps its types.
THEOREM TypeCorrect == FileSpec => []FileTypeOK
<1>1. FileInit => FileTypeOK
  BY FlagInit DEF FlagInv
<1>2. FileTypeOK /\ [FileNext]_fileVars => FileTypeOK'
  BY TypeStep
<1> QED
  BY <1>1, <1>2, PTL DEF FileSpec

THEOREM FlagInvariance ==
  ASSUME ~AutoRollbacks
  PROVE  FileSpec => []FlagInv
<1>1. FileInit => FlagInv
  BY FlagInit
<1>2. FlagInv /\ [FileNext]_fileVars => FlagInv'
  BY FlagStep
<1> QED
  BY <1>1, <1>2, PTL DEF FileSpec

\* For any number of connections: whenever no call is in progress,
\* active_transaction says whether SQLite is in a transaction, as long as
\* SQLite does not roll back by itself.
THEOREM FlagCorrect ==
  ASSUME ~AutoRollbacks
  PROVE  FileSpec => []FlagAgrees
<1>1. FlagInv => FlagAgrees
  BY FlagsAgree
<1> QED
  BY <1>1, FlagInvariance, PTL

-----------------------------------------------------------------------------
(* The contract.                                                           *)

\* What a step leaves of the flags, the rows written and the file, the
\* contract does not see.
LEMMA ContractStutters ==
  ASSUME active' = active, wrote' = wrote, file' = file
  PROVE  UNCHANGED <<{c \in Connections : active[c]}, wrote, file>>
  OBVIOUS

\* Every step is a step of the contract.
LEMMA ContractStep ==
  ASSUME FlagInv, [FileNext]_fileVars, ~AutoRollbacks
  PROVE  Contract!Next \/ UNCHANGED <<{c \in Connections : active[c]}, wrote, file>>
<1> USE DEF FlagInv
<1>1. CASE UNCHANGED fileVars
  BY SMTT(30), <1>1, ContractStutters DEF fileVars, engine
<1>2. CASE FileNext
  <2>1. PICK c \in Connections :
           \/ ConnectionNew(c) \/ ConnectionInit(c) \/ ConnectionRelease(c)
           \/ \E enabled \in BOOLEAN : SetAutocommit(c, enabled)
           \/ Commit(c) \/ Rollback(c)
           \/ StepAgain(c) \/ StepError(c) \/ EnableDone(c) \/ DisableDone(c)
           \/ CommitDone(c) \/ RollbackDone(c) \/ BeginDone(c)
           \/ \E r \in Rows : Fresh(r) /\ UpdateInTransaction(c, r)
           \/ \E r \in Rows : Fresh(r) /\ UpdateAlone(c, r)
           \/ UpdateRollsBack(c) \/ ReadStart(c) \/ ReadEnd(c)
    BY <1>2, NextCases
  <2>2. CASE ConnectionNew(c)
    <3>1. ~active[c]
      BY <2>2 DEF ConnectionNew, Flags
    <3>2. active' = active
      BY <2>2, <3>1 DEF ConnectionNew, FileTypeOK
    <3> QED
      BY <2>2, <3>2, ContractStutters DEF ConnectionNew, engine
  <2>3. CASE ConnectionInit(c) \/ StepError(c) \/ Commit(c) \/ Rollback(c) \/ StepAgain(c)
    BY <2>3, ContractStutters
    DEF ConnectionInit, StepError, Commit, Rollback, StepAgain, engine
  <2>4. CASE BeginDone(c) \/ ReadStart(c) \/ ReadEnd(c)
    BY <2>4, ContractStutters DEF BeginDone, BeginTransaction, ReadStart, ReadEnd, engine
  <2>5. CASE \E enabled \in BOOLEAN : SetAutocommit(c, enabled)
    BY <2>5, ContractStutters DEF SetAutocommit, engine
  <2>6. CASE ConnectionRelease(c)
    <3>1. CASE active[c]
      <4>1. Contract!Rollback(c)
        BY <2>6, <3>1 DEF ConnectionRelease, FileTypeOK, Contract!Rollback
      <4> QED
        BY <4>1 DEF Contract!Next
    <3>2. CASE ~active[c]
      <4>1. wrote[c] = {}
        BY <2>6, <3>2, SMT DEF ConnectionRelease, Flags, NotCalling
      <4>2. active' = active /\ wrote' = wrote
        BY <2>6, <3>2, <4>1 DEF ConnectionRelease, FileTypeOK
      <4> QED
        BY <2>6, <4>2, ContractStutters DEF ConnectionRelease
    <3> QED
      BY <3>1, <3>2
  <2>7. CASE EnableDone(c)
    <3>1. Contract!EnableAutocommit(c)
      BY <2>7 DEF EnableDone, EndTransaction, FileTypeOK, Contract!EnableAutocommit
    <3> QED
      BY <3>1 DEF Contract!Next
  <2>8. CASE DisableDone(c)
    <3>1. Contract!DisableAutocommit(c)
      BY <2>8 DEF DisableDone, BeginTransaction, FileTypeOK, Contract!DisableAutocommit
    <3> QED
      BY <3>1 DEF Contract!Next
  <2>9. CASE CommitDone(c)
    <3>1. active[c]
      BY <2>9, SMT DEF CommitDone, Flags
    <3>2. Contract!Commit(c)
      BY <2>9, <3>1 DEF CommitDone, EndTransaction, FileTypeOK, Contract!Commit
    <3> QED
      BY <3>2 DEF Contract!Next
  <2>10. CASE RollbackDone(c)
    <3>1. active[c]
      BY <2>10, SMT DEF RollbackDone, Flags
    <3>2. Contract!Rollback(c)
      BY <2>10, <3>1 DEF RollbackDone, EndTransaction, FileTypeOK, Contract!Rollback
    <3> QED
      BY <3>2 DEF Contract!Next
  <2>11. CASE \E r \in Rows : Fresh(r) /\ UpdateInTransaction(c, r)
    <3>1. PICK r \in Rows : UpdateInTransaction(c, r)
      BY <2>11
    <3>2. active[c]
      BY <3>1, SMT DEF UpdateInTransaction, IdleOpen, NotCalling, Flags
    <3>3. Contract!Update(c, {r})
      BY <3>1, <3>2 DEF UpdateInTransaction, FileTypeOK, Contract!Update
    <3> QED
      BY <3>3 DEF Contract!Next
  <2>12. CASE \E r \in Rows : Fresh(r) /\ UpdateAlone(c, r)
    <3>1. PICK r \in Rows : UpdateAlone(c, r)
      BY <2>12
    <3>2. ~active[c]
      BY <3>1, SMT DEF UpdateAlone, IdleOpen, NotCalling, Flags
    <3>3. Contract!Update(c, {r})
      BY <3>1, <3>2 DEF UpdateAlone, FileTypeOK, Contract!Update
    <3> QED
      BY <3>3 DEF Contract!Next
  <2>13. CASE UpdateRollsBack(c)
    BY <2>13 DEF UpdateRollsBack
  <2> QED
    BY <2>1, <2>2, <2>3, <2>4, <2>5, <2>6, <2>7, <2>8, <2>9, <2>10, <2>11, <2>12, <2>13
<1> QED
  BY <1>1, <1>2

\* The driver implements ADBC's transactions for any number of connections and
\* rows, as long as SQLite does not roll back by itself.
THEOREM ImplementsContract ==
  ASSUME ~AutoRollbacks
  PROVE  FileSpec => TransactionContract
<1>1. FileInit => Contract!Init
  BY DEF FileInit, Contract!Init
<1>2. FlagInv /\ [FileNext]_fileVars
        => Contract!Next \/ UNCHANGED <<{c \in Connections : active[c]}, wrote, file>>
  BY ContractStep
<1> QED
  BY <1>1, <1>2, FlagInvariance, PTL DEF FileSpec, TransactionContract, Contract!Spec
-----------------------------------------------------------------------------
(* What the callers were told.                                             *)

\* Every step keeps the reports true, also when SQLite rolls back by itself:
\* the rows of a call in progress are those that it will report.
LEMMA ReportStep ==
  ASSUME ReportInv, [FileNext]_fileVars
  PROVE  ReportInv'
<1> USE DEF ReportInv
<1>1. FileTypeOK'
  BY SMTT(30), TypeStep
<1>2. CASE UNCHANGED fileVars
  BY <1>1, <1>2 DEF fileVars, engine, told, ReportsAreTrue, Asked, Pending
<1>3. CASE FileNext
  <2>1. PICK c \in Connections :
           \/ ConnectionNew(c) \/ ConnectionInit(c) \/ ConnectionRelease(c)
           \/ \E enabled \in BOOLEAN : SetAutocommit(c, enabled)
           \/ Commit(c) \/ Rollback(c)
           \/ StepAgain(c) \/ StepError(c) \/ EnableDone(c) \/ DisableDone(c)
           \/ CommitDone(c) \/ RollbackDone(c) \/ BeginDone(c)
           \/ \E r \in Rows : Fresh(r) /\ UpdateInTransaction(c, r)
           \/ \E r \in Rows : Fresh(r) /\ UpdateAlone(c, r)
           \/ UpdateRollsBack(c) \/ ReadStart(c) \/ ReadEnd(c)
    BY <1>3, NextCases
  <2>2. CASE ConnectionNew(c)
    <3>1. ReportsAreTrue'
      BY <2>2 DEF ReportsAreTrue, Asked, Pending, Calls, FileTypeOK, ConnectionNew, engine, told
    <3>2. ASSUME NEW d \in Connections
          PROVE  Asked(d)'
      BY <2>2 DEF Asked, Pending, Calls, FileTypeOK, ConnectionNew, engine, told
    <3>3. ASSUME NEW d \in Connections
          PROVE  Pending(d)'
      BY <2>2 DEF Asked, Pending, Calls, FileTypeOK, ConnectionNew, engine, told
    <3> QED
      BY <1>1, <3>1, <3>2, <3>3
  <2>3. CASE ConnectionInit(c)
    <3>1. ReportsAreTrue'
      BY <2>3 DEF ReportsAreTrue, Asked, Pending, Calls, FileTypeOK, ConnectionInit, engine, told
    <3>2. ASSUME NEW d \in Connections
          PROVE  Asked(d)'
      BY <2>3 DEF Asked, Pending, Calls, FileTypeOK, ConnectionInit, engine, told
    <3>3. ASSUME NEW d \in Connections
          PROVE  Pending(d)'
      BY <2>3 DEF Asked, Pending, Calls, FileTypeOK, ConnectionInit, engine, told
    <3> QED
      BY <1>1, <3>1, <3>2, <3>3
  <2>4. CASE ConnectionRelease(c)
    <3>1. ReportsAreTrue'
      BY <2>4 DEF ReportsAreTrue, Asked, Pending, Calls, FileTypeOK, ConnectionRelease, engine, told
    <3>2. ASSUME NEW d \in Connections
          PROVE  Asked(d)'
      BY <2>4, SMT DEF Asked, Pending, Calls, FileTypeOK, ConnectionRelease, engine, told
    <3>3. ASSUME NEW d \in Connections
          PROVE  Pending(d)'
      BY <2>4, SMT DEF Asked, Pending, Calls, FileTypeOK, ConnectionRelease, engine, told
    <3> QED
      BY <1>1, <3>1, <3>2, <3>3
  <2>5. CASE Commit(c)
    <3>1. ReportsAreTrue'
      BY <2>5 DEF ReportsAreTrue, Asked, Pending, Calls, FileTypeOK, Commit, IdleOpen, Begins, NotCalling, engine, told
    <3>2. ASSUME NEW d \in Connections
          PROVE  Asked(d)'
      BY <2>5, SMT DEF Asked, Pending, Calls, FileTypeOK, Commit, IdleOpen, Begins, NotCalling, engine, told
    <3>3. ASSUME NEW d \in Connections
          PROVE  Pending(d)'
      BY <2>5 DEF Asked, Pending, Calls, FileTypeOK, Commit, IdleOpen, Begins, NotCalling, engine, told
    <3> QED
      BY <1>1, <3>1, <3>2, <3>3
  <2>6. CASE Rollback(c)
    <3>1. ReportsAreTrue'
      BY <2>6 DEF ReportsAreTrue, Asked, Pending, Calls, FileTypeOK, Rollback, IdleOpen, Begins, NotCalling, engine, told
    <3>2. ASSUME NEW d \in Connections
          PROVE  Asked(d)'
      BY <2>6, SMT DEF Asked, Pending, Calls, FileTypeOK, Rollback, IdleOpen, Begins, NotCalling, engine, told
    <3>3. ASSUME NEW d \in Connections
          PROVE  Pending(d)'
      BY <2>6 DEF Asked, Pending, Calls, FileTypeOK, Rollback, IdleOpen, Begins, NotCalling, engine, told
    <3> QED
      BY <1>1, <3>1, <3>2, <3>3
  <2>7. CASE StepAgain(c)
    <3>1. ReportsAreTrue'
      BY <2>7 DEF ReportsAreTrue, Asked, Pending, Calls, FileTypeOK, StepAgain, engine, told
    <3>2. ASSUME NEW d \in Connections
          PROVE  Asked(d)'
      BY <2>7 DEF Asked, Pending, Calls, FileTypeOK, StepAgain, engine, told
    <3>3. ASSUME NEW d \in Connections
          PROVE  Pending(d)'
      BY <2>7 DEF Asked, Pending, Calls, FileTypeOK, StepAgain, engine, told
    <3> QED
      BY <1>1, <3>1, <3>2, <3>3
  <2>8. CASE StepError(c)
    <3>1. ReportsAreTrue'
      BY <2>8 DEF ReportsAreTrue, Asked, Pending, Calls, FileTypeOK, StepError, Returns, Result, NotCalling, engine, told
    <3>2. ASSUME NEW d \in Connections
          PROVE  Asked(d)'
      BY <2>8 DEF Asked, Pending, Calls, FileTypeOK, StepError, Returns, Result, NotCalling, engine, told
    <3>3. ASSUME NEW d \in Connections
          PROVE  Pending(d)'
      BY <2>8 DEF Asked, Pending, Calls, FileTypeOK, StepError, Returns, Result, NotCalling, engine, told
    <3> QED
      BY <1>1, <3>1, <3>2, <3>3
  <2>9. CASE EnableDone(c)
    <3>1. ReportsAreTrue'
      BY <2>9 DEF ReportsAreTrue, Asked, Pending, Calls, FileTypeOK, EnableDone, Returns, EndTransaction, Result, NotCalling, engine, told
    <3>2. ASSUME NEW d \in Connections
          PROVE  Asked(d)'
      BY <2>9, SMT DEF Asked, Pending, Calls, FileTypeOK, EnableDone, Returns, EndTransaction, Result, NotCalling, engine, told
    <3>3. ASSUME NEW d \in Connections
          PROVE  Pending(d)'
      BY <2>9, SMT DEF Asked, Pending, Calls, FileTypeOK, EnableDone, Returns, EndTransaction, Result, NotCalling, engine, told
    <3> QED
      BY <1>1, <3>1, <3>2, <3>3
  <2>10. CASE DisableDone(c)
    <3>1. ReportsAreTrue'
      BY <2>10 DEF ReportsAreTrue, Asked, Pending, Calls, FileTypeOK, DisableDone, Returns, BeginTransaction, Result, NotCalling, engine, told
    <3>2. ASSUME NEW d \in Connections
          PROVE  Asked(d)'
      BY <2>10 DEF Asked, Pending, Calls, FileTypeOK, DisableDone, Returns, BeginTransaction, Result, NotCalling, engine, told
    <3>3. ASSUME NEW d \in Connections
          PROVE  Pending(d)'
      BY <2>10 DEF Asked, Pending, Calls, FileTypeOK, DisableDone, Returns, BeginTransaction, Result, NotCalling, engine, told
    <3> QED
      BY <1>1, <3>1, <3>2, <3>3
  <2>11. CASE CommitDone(c)
    <3>1. ReportsAreTrue'
      BY <2>11 DEF ReportsAreTrue, Asked, Pending, Calls, FileTypeOK, CommitDone, Begins, EndTransaction, Result, NotCalling, engine, told
    <3>2. ASSUME NEW d \in Connections
          PROVE  Asked(d)'
      BY <2>11, SMT DEF Asked, Pending, Calls, FileTypeOK, CommitDone, Begins, EndTransaction, Result, NotCalling, engine, told
    <3>3. ASSUME NEW d \in Connections
          PROVE  Pending(d)'
      BY <2>11, SMT DEF Asked, Pending, Calls, FileTypeOK, CommitDone, Begins, EndTransaction, Result, NotCalling, engine, told
    <3> QED
      BY <1>1, <3>1, <3>2, <3>3
  <2>12. CASE RollbackDone(c)
    <3>1. ReportsAreTrue'
      BY <2>12 DEF ReportsAreTrue, Asked, Pending, Calls, FileTypeOK, RollbackDone, Begins, EndTransaction, Result, NotCalling, engine, told
    <3>2. ASSUME NEW d \in Connections
          PROVE  Asked(d)'
      BY <2>12, SMT DEF Asked, Pending, Calls, FileTypeOK, RollbackDone, Begins, EndTransaction, Result, NotCalling, engine, told
    <3>3. ASSUME NEW d \in Connections
          PROVE  Pending(d)'
      BY <2>12, SMT DEF Asked, Pending, Calls, FileTypeOK, RollbackDone, Begins, EndTransaction, Result, NotCalling, engine, told
    <3> QED
      BY <1>1, <3>1, <3>2, <3>3
  <2>13. CASE BeginDone(c)
    <3>1. ReportsAreTrue'
      BY <2>13 DEF ReportsAreTrue, Asked, Pending, Calls, FileTypeOK, BeginDone, Returns, BeginTransaction, Result, NotCalling, engine, told
    <3>2. ASSUME NEW d \in Connections
          PROVE  Asked(d)'
      BY <2>13 DEF Asked, Pending, Calls, FileTypeOK, BeginDone, Returns, BeginTransaction, Result, NotCalling, engine, told
    <3>3. ASSUME NEW d \in Connections
          PROVE  Pending(d)'
      BY <2>13 DEF Asked, Pending, Calls, FileTypeOK, BeginDone, Returns, BeginTransaction, Result, NotCalling, engine, told
    <3> QED
      BY <1>1, <3>1, <3>2, <3>3
  <2>14. CASE UpdateRollsBack(c)
    <3>1. ReportsAreTrue'
      BY <2>14 DEF ReportsAreTrue, Asked, Pending, Calls, FileTypeOK, UpdateRollsBack, IdleOpen, EndTransaction, NotCalling, engine, told
    <3>2. ASSUME NEW d \in Connections
          PROVE  Asked(d)'
      BY <2>14, SMT DEF Asked, Pending, Calls, FileTypeOK, UpdateRollsBack, IdleOpen, EndTransaction, NotCalling, engine, told
    <3>3. ASSUME NEW d \in Connections
          PROVE  Pending(d)'
      BY <2>14, SMT DEF Asked, Pending, Calls, FileTypeOK, UpdateRollsBack, IdleOpen, EndTransaction, NotCalling, engine, told
    <3> QED
      BY <1>1, <3>1, <3>2, <3>3
  <2>15. CASE ReadStart(c)
    <3>1. ReportsAreTrue'
      BY <2>15 DEF ReportsAreTrue, Asked, Pending, Calls, FileTypeOK, ReadStart, IdleOpen, engine, told
    <3>2. ASSUME NEW d \in Connections
          PROVE  Asked(d)'
      BY <2>15 DEF Asked, Pending, Calls, FileTypeOK, ReadStart, IdleOpen, engine, told
    <3>3. ASSUME NEW d \in Connections
          PROVE  Pending(d)'
      BY <2>15 DEF Asked, Pending, Calls, FileTypeOK, ReadStart, IdleOpen, engine, told
    <3> QED
      BY <1>1, <3>1, <3>2, <3>3
  <2>16. CASE ReadEnd(c)
    <3>1. ReportsAreTrue'
      BY <2>16 DEF ReportsAreTrue, Asked, Pending, Calls, FileTypeOK, ReadEnd, IdleOpen, engine, told
    <3>2. ASSUME NEW d \in Connections
          PROVE  Asked(d)'
      BY <2>16 DEF Asked, Pending, Calls, FileTypeOK, ReadEnd, IdleOpen, engine, told
    <3>3. ASSUME NEW d \in Connections
          PROVE  Pending(d)'
      BY <2>16 DEF Asked, Pending, Calls, FileTypeOK, ReadEnd, IdleOpen, engine, told
    <3> QED
      BY <1>1, <3>1, <3>2, <3>3
  <2>17. CASE \E enabled \in BOOLEAN : SetAutocommit(c, enabled)
    <3>1. ReportsAreTrue'
      BY <2>17 DEF ReportsAreTrue, Asked, Pending, Calls, FileTypeOK, SetAutocommit, Begins, NotCalling, engine
    <3>2. ASSUME NEW d \in Connections
          PROVE  Asked(d)'
      BY <2>17, SMT DEF Asked, Pending, Calls, FileTypeOK, SetAutocommit, Begins, NotCalling, engine
    <3>3. ASSUME NEW d \in Connections
          PROVE  Pending(d)'
      BY <2>17 DEF Asked, Pending, Calls, FileTypeOK, SetAutocommit, Begins, NotCalling, engine
    <3> QED
      BY <1>1, <3>1, <3>2, <3>3
  <2>18. CASE \E r \in Rows : Fresh(r) /\ UpdateInTransaction(c, r)
    <3>1. ReportsAreTrue'
      BY <2>18 DEF ReportsAreTrue, Asked, Pending, Calls, FileTypeOK, UpdateInTransaction, Fresh, IdleOpen, NotCalling, told
    <3>2. ASSUME NEW d \in Connections
          PROVE  Asked(d)'
      BY <2>18, SMT DEF Asked, Pending, Calls, FileTypeOK, UpdateInTransaction, Fresh, IdleOpen, NotCalling, told
    <3>3. ASSUME NEW d \in Connections
          PROVE  Pending(d)'
      BY <2>18, SMT DEF Asked, Pending, Calls, FileTypeOK, UpdateInTransaction, Fresh, IdleOpen, NotCalling, told
    <3> QED
      BY <1>1, <3>1, <3>2, <3>3
  <2>19. CASE \E r \in Rows : Fresh(r) /\ UpdateAlone(c, r)
    <3>1. ReportsAreTrue'
      BY <2>19, SMT DEF ReportsAreTrue, Asked, Pending, Calls, FileTypeOK, UpdateAlone, Fresh, IdleOpen, NotCalling
    <3>2. ASSUME NEW d \in Connections
          PROVE  Asked(d)'
      BY <2>19, SMT DEF Asked, Pending, Calls, FileTypeOK, UpdateAlone, Fresh, IdleOpen, NotCalling
    <3>3. ASSUME NEW d \in Connections
          PROVE  Pending(d)'
      BY <2>19, SMT DEF Asked, Pending, Calls, FileTypeOK, UpdateAlone, Fresh, IdleOpen, NotCalling
    <3> QED
      BY <1>1, <3>1, <3>2, <3>3
  <2> QED
    BY <2>1, <2>2, <2>3, <2>4, <2>5, <2>6, <2>7, <2>8, <2>9, <2>10, <2>11, <2>12, <2>13, <2>14, <2>15, <2>16, <2>17, <2>18, <2>19
<1> QED
  BY <1>2, <1>3
\* For any number of connections and rows, and whatever SQLite does by itself:
\* what a caller was told is committed is in the file, and what a caller was
\* told is rolled back is not.
THEOREM ReportsCorrect == FileSpec => []ReportsAreTrue
<1>1. FileInit => ReportInv
  <2> SUFFICES ASSUME FileInit
               PROVE  ReportInv
    OBVIOUS
  <2>1. FileTypeOK
    BY FlagInit DEF FlagInv
  <2> QED
    BY <2>1 DEF FileInit, ReportInv, ReportsAreTrue, Asked, Pending, NotCalling
<1>2. ReportInv /\ [FileNext]_fileVars => ReportInv'
  BY ReportStep
<1>3. ReportInv => ReportsAreTrue
  BY DEF ReportInv
<1> QED
  BY <1>1, <1>2, <1>3, PTL DEF FileSpec

-----------------------------------------------------------------------------
(* Databases.                                                              *)

\* The sqlite3* of an initialized database is open on the file of its
\* DatabaseInit, whatever its option says since.
KeptInv ==
  /\ dbs \in [Dbs -> [new : BOOLEAN, uri : Uris \cup {Memory}, db : Uris \cup {Memory, Closed}]]
  /\ conns \in [Conns -> [new : BOOLEAN, conn : Uris \cup {Memory, Closed}]]
  /\ store \in [Uris \cup {Memory} -> SUBSET Entries]
  /\ kept \in [Dbs -> [uri : Uris \cup {Memory, Closed}, entries : SUBSET Entries]]
  /\ \A d \in Dbs : kept[d].uri = dbs[d].db /\ (~dbs[d].new => dbs[d].db = Closed)
  /\ \A d \in Dbs : kept[d].uri = Closed => kept[d].entries = {}
  /\ MemoryOutlivesConnections

\* Releasing a handle forgets nothing that another handle has open.
LEMMA ForgetKeeps ==
  ASSUME NEW ds, NEW cs, store \in [Uris \cup {Memory} -> SUBSET Entries],
         NEW d \in Dbs, NEW u \in Uris \cup {Memory}, ds[d].db = u
  PROVE  /\ Forget(store, ds, cs)[u] = store[u]
         /\ Forget(store, ds, cs) \in [Uris \cup {Memory} -> SUBSET Entries]
BY DEF Forget

LEMMA ForgetType ==
  ASSUME NEW ds, NEW cs, store \in [Uris \cup {Memory} -> SUBSET Entries]
  PROVE  Forget(store, ds, cs) \in [Uris \cup {Memory} -> SUBSET Entries]
BY DEF Forget

LEMMA KeptInit == DatabasesInit => KeptInv
BY SMT DEF DatabasesInit, KeptInv, NoDb, NoConn, NotKept, MemoryOutlivesConnections

LEMMA KeptStep ==
  ASSUME KeptInv, [DatabasesNext]_databaseVars
  PROVE  KeptInv'
<1> USE UrisAssumption DEF KeptInv, MemoryOutlivesConnections, Closed
<1>1. ASSUME NEW d \in Dbs, DatabaseNew(d)
      PROVE  KeptInv'
  <2>1. dbs[d].db = dbs'[d].db /\ \A e \in Dbs \ {d} : dbs'[e] = dbs[e]
    BY <1>1 DEF DatabaseNew, NoDb
  <2> QED
    BY <1>1, <2>1 DEF DatabaseNew, NoDb
<1>2. ASSUME NEW d \in Dbs, NEW uri \in Uris, DatabaseSetOption(d, uri)
      PROVE  KeptInv'
  BY <1>2, SMT DEF DatabaseSetOption
<1>3. ASSUME NEW d \in Dbs, NEW fails \in BOOLEAN, DatabaseInit(d, fails)
      PROVE  KeptInv'
  <2>1. Opened(dbs[d].uri, fails) \in Uris \cup {Memory, Closed}
    BY DEF Opened
  <2> QED
    BY <1>3, <2>1, SMT DEF DatabaseInit
<1>4. ASSUME NEW d \in Dbs, DatabaseRelease(d)
      PROVE  KeptInv'
  <2>1. store' \in [Uris \cup {Memory} -> SUBSET Entries]
    BY <1>4, ForgetType DEF DatabaseRelease
  <2>2. \A e \in Dbs : kept'[e].uri # Closed => store'[kept'[e].uri] = store[kept[e].uri]
    <3> SUFFICES ASSUME NEW e \in Dbs, kept'[e].uri # Closed
                 PROVE  store'[kept'[e].uri] = store[kept[e].uri]
      OBVIOUS
    <3>1. e # d
      BY <1>4 DEF DatabaseRelease, NotKept
    <3>2. kept'[e] = kept[e] /\ dbs'[e] = dbs[e]
      BY <1>4, <3>1 DEF DatabaseRelease
    <3>3. dbs'[e].db = kept[e].uri /\ kept[e].uri \in Uris \cup {Memory}
      BY <3>2
    <3>4. store' = Forget(store, dbs', conns)
      BY <1>4 DEF DatabaseRelease
    <3>5. Forget(store, dbs', conns)[kept[e].uri] = store[kept[e].uri]
      <4>1. store \in [Uris \cup {Memory} -> SUBSET Entries]
        OBVIOUS
      <4> HIDE DEF KeptInv, MemoryOutlivesConnections, Closed
      <4> QED
        BY <3>3, <4>1, ForgetKeeps, SMT
    <3> QED
      BY <3>2, <3>4, <3>5
  <2> QED
    BY <1>4, <2>1, <2>2, ZenonT(30) DEF DatabaseRelease, NotKept, NoDb
<1>5. ASSUME NEW c \in Conns, ConnNew(c)
      PROVE  KeptInv'
  BY <1>5, ZenonT(30) DEF ConnNew
<1>6. ASSUME NEW c \in Conns, NEW d \in Dbs, NEW fails \in BOOLEAN, ConnInit(c, d, fails)
      PROVE  KeptInv'
  <2>1. Opened(dbs[d].uri, fails) \in Uris \cup {Memory, Closed}
    BY DEF Opened
  <2> QED
    BY <1>6, <2>1, SMT DEF ConnInit
<1>7. ASSUME NEW c \in Conns, ConnRelease(c)
      PROVE  KeptInv'
  <2>1. store' \in [Uris \cup {Memory} -> SUBSET Entries]
    BY <1>7, ForgetType DEF ConnRelease
  <2>2. \A e \in Dbs : kept[e].uri # Closed => store'[kept[e].uri] = store[kept[e].uri]
    <3> SUFFICES ASSUME NEW e \in Dbs, kept[e].uri # Closed
                 PROVE  store'[kept[e].uri] = store[kept[e].uri]
      OBVIOUS
    <3>1. dbs[e].db = kept[e].uri /\ kept[e].uri \in Uris \cup {Memory}
      OBVIOUS
    <3>2. store' = Forget(store, dbs, conns')
      BY <1>7 DEF ConnRelease
    <3>3. store \in [Uris \cup {Memory} -> SUBSET Entries]
      OBVIOUS
    <3> HIDE DEF KeptInv
    <3>4. Forget(store, dbs, conns')[kept[e].uri] = store[kept[e].uri]
      BY <3>1, <3>3, ForgetKeeps, SMT
    <3> QED
      BY <3>2, <3>4
  <2> QED
    BY <1>7, <2>1, <2>2 DEF ConnRelease, NoConn
<1>8. ASSUME NEW c \in Conns, NEW e \in Entries, ConnWrite(c, e)
      PROVE  KeptInv'
  <2>1. conns[c].conn \in Uris \cup {Memory}
    BY <1>8 DEF ConnWrite
  <2>2. store' \in [Uris \cup {Memory} -> SUBSET Entries]
    BY <1>8, <2>1 DEF ConnWrite
  <2>3. \A d \in Dbs : /\ kept'[d].uri = kept[d].uri
                       /\ kept'[d].entries = IF kept[d].uri # conns[c].conn THEN kept[d].entries
                                             ELSE kept[d].entries \cup {e}
    BY <1>8, SMT DEF ConnWrite
  <2>4. kept' \in [Dbs -> [uri : Uris \cup {Memory, Closed}, entries : SUBSET Entries]]
    <3>1. \A d \in Dbs : [kept[d] EXCEPT !.entries = @ \cup {e}]
                           \in [uri : Uris \cup {Memory, Closed}, entries : SUBSET Entries]
      BY SMT
    <3> QED
      BY <1>8, <3>1 DEF ConnWrite
  <2>5. MemoryOutlivesConnections'
    BY <1>8, <2>1, <2>3, SMT DEF ConnWrite
  <2> QED
    BY <1>8, <2>1, <2>2, <2>3, <2>4, <2>5, SMT DEF ConnWrite
<1>9. CASE UNCHANGED databaseVars
  <2>1. MemoryOutlivesConnections'
    BY <1>9 DEF databaseVars
  <2> QED
    BY <1>9, <2>1 DEF databaseVars
<1> HIDE DEF KeptInv
<1> QED
  BY <1>1, <1>2, <1>3, <1>4, <1>5, <1>6, <1>7, <1>8, <1>9 DEF DatabasesNext

\* An initialized database keeps what was written through its connections,
\* whichever of them, and of the other databases, are released, and whatever
\* its uri is set to after SqliteDatabaseInit.
THEOREM MemoryIsKept == DatabasesSpec => []MemoryOutlivesConnections
<1>1. KeptInv => MemoryOutlivesConnections
  BY DEF KeptInv
<1> QED
  BY <1>1, KeptInit, KeptStep, PTL DEF DatabasesSpec
=============================================================================
