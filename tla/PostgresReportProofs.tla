------------------------ MODULE PostgresReportProofs ------------------------
(***************************************************************************)
(* The PostgreSQL driver tells its callers the truth: what it reported as  *)
(* done is in the database, what it reported as undone is not.  For any    *)
(* number of connections, statements, rows and parameters.                 *)
(*                                                                         *)
(* The argument follows each row from the parameters it is bound in,       *)
(* through the call that executes it and the transaction that writes it,   *)
(* to the table and the reports.                                           *)
(***************************************************************************)
EXTENDS PostgresProofs

\* A leaf that names no prover is for these, in this order.
USE Zenon, SMT, Z3

-----------------------------------------------------------------------------
(* The invariant.                                                          *)

\* A row that a transaction has written is written nowhere else.
Sessions ==
  \A c \in Connections : \A r \in wrote[c] :
    /\ r \notin table /\ r \notin undone
    /\ \A d \in Connections : r \in wrote[d] => d = c

\* What a caller believes of its transaction: while the session lives, its rows
\* are in no other place, and if no statement has failed, they are pending.
Asks ==
  \A c \in Connections :
    /\ autocommit[c] => asked[c] = {}
    /\ conn[c] = "up" /\ ~hurt[c] => asked[c] \subseteq wrote[c]
    /\ conn[c] = "up" => \A r \in asked[c] :
         r \notin table /\ \A d \in Connections : r \in wrote[d] => d = c

Ledger == ReportsAreTrue /\ Sessions /\ Asks

\* Nobody has written the row, or knows of it.
Clear(r) ==
  /\ r \notin table /\ r \notin undone
  /\ \A d \in Connections : r \notin asked[d] /\ r \notin wrote[d]

\* At most the connection has written the row, and nobody knows of it.
OwnRow(c, r) ==
  /\ r # Table /\ r \notin undone
  /\ ~autocommit[c] => r \notin table
  /\ \A d \in Connections : r \notin asked[d] /\ (r \in wrote[d] => d = c)

\* What a call has written is in the table, or pending while the session lives.
HasWritten(s) ==
  LET c == stmt[s].connection
  IN /\ autocommit[c] => call[s].wrote \subseteq table
     /\ ~autocommit[c] /\ conn[c] = "up" => call[s].wrote \subseteq wrote[c]

\* Parameters that wait for their execution.
Held ==
  \A s \in Statements :
    /\ \A r \in RowsOf(stmt[s].bind) : r # Table /\ Clear(r)
    /\ \A t \in Statements : t # s => \A r \in Bound(s) : r \notin Bound(t)

\* Parameters that are being executed.
InCall ==
  \A s \in Statements : call[s] # None =>
    /\ stmt[s].bind = None /\ call[s].bind # None
    /\ call[s].wrote \subseteq RowsOf(call[s].bind) \cup {Table}
    /\ \A r \in RowsOf(call[s].bind) : OwnRow(stmt[s].connection, r)
    /\ HasWritten(s)
    /\ \A t \in Statements : call[t] # None /\ stmt[t].connection = stmt[s].connection => t = s

RowInv == Ledger /\ Held /\ InCall

LEMMA RowInit == Init => RowInv
<1> SUFFICES ASSUME Init PROVE RowInv
  OBVIOUS
<1>1. Ledger
  BY DEF Init, ConnInit, Ledger, ReportsAreTrue, Sessions, Asks
<1>2. \A s \in Statements : stmt[s].bind = None /\ call[s] = None
  BY DEF Init, NewStatement
<1>3. Held /\ InCall
  BY <1>2 DEF Held, InCall, Bound, RowsOf
<1> QED
  BY <1>1, <1>3 DEF RowInv

-----------------------------------------------------------------------------
(* Helpers.                                                                *)

LEMMA FreshIsClear ==
  ASSUME NEW r, Unused(r)
  PROVE  /\ r # Table /\ Clear(r)
         /\ \A s \in Statements : r \notin Bound(s)
BY DEF Unused, Fresh, Clear

\* A row that is executed is one of the parameters.
LEMMA ExecutedRow ==
  ASSUME NEW k \in CallType, InBatch(k), k.batch <= Len(k.bind.batches), k.bind # None
  PROVE  k.bind.batches[k.batch][k.row] \in RowsOf(k.bind)
<1>1. k.bind.batches \in Seq(Seq(Rows) \ {<<>>})
  BY BindingsAssumption DEF CallType
<1>2. k.batch \in 1..Len(k.bind.batches)
  BY <1>1, SMT DEF CallType
<1>3. k.bind.batches[k.batch] \in Seq(Rows)
  BY <1>1, <1>2, SMT
<1>4. k.row \in DOMAIN k.bind.batches[k.batch]
  BY <1>3, <1>2, SMT DEF CallType, InBatch
<1>5. k.bind.batches[k.batch][k.row] \in Range(k.bind.batches[k.batch])
  BY <1>4 DEF Range
<1> QED
  BY <1>2, <1>5 DEF RowsOf

\* Without chained transactions an update goes where the caller's mode says.
LEMMA WriteGoes ==
  ASSUME TxnInv, "chained" \notin Habits, NEW c \in Connections, NEW rows \in SUBSET Rows,
         Writes(c, rows)
  PROVE  /\ autocommit[c] => table' = table \cup rows /\ wrote' = wrote
         /\ ~autocommit[c] => table' = table /\ wrote' = [wrote EXCEPT ![c] = @ \cup rows]
<1>1. txn[c] = "open" <=> ~autocommit[c]
  BY SMT DEF TxnInv, Writes, MayWrite, Modes, Mode, ConnTypeOK
<1> QED
  BY <1>1 DEF Writes, Write

\* The rows that statements hold are theirs, if none takes new parameters and
\* the rows stay out of other hands.
LEMMA ParametersKept ==
  ASSUME Held, InCall,
         \A s \in Statements : RowsOf(stmt'[s].bind) \subseteq RowsOf(stmt[s].bind),
         \A s \in Statements : call'[s] # None =>
           /\ call[s] # None /\ call'[s].bind = call[s].bind
           /\ call'[s].wrote \subseteq RowsOf(call[s].bind) \cup {Table}
           /\ stmt'[s].connection = stmt[s].connection /\ stmt'[s].bind = None
           /\ \A r \in RowsOf(call[s].bind) : OwnRow(stmt[s].connection, r)'
           /\ HasWritten(s)',
         \A s \in Statements : \A r \in RowsOf(stmt[s].bind) : Clear(r)'
  PROVE  Held' /\ InCall'
<1>1. \A s \in Statements : \A r \in Bound(s)' : r \in Bound(s)
  BY DEF Bound
<1>2. Held'
  BY <1>1 DEF Held
<1>3. InCall'
  BY SMT DEF InCall
<1> QED
  BY <1>2, <1>3

-----------------------------------------------------------------------------
(* The life of a connection, and its transactions.                         *)

\* The connection's rows go to the table, or nowhere.
LEMMA LifeLedger ==
  ASSUME TxnInv, Ledger, NEW c \in Connections, LifeStep(c)
  PROVE  Ledger'
<1> USE DEF TxnInv, ConnTypeOK, Ledger, ReportsAreTrue, Sessions, Asks
<1>1. CASE ConnectionNew(c)
  <2>1. autocommit[c]
    BY <1>1 DEF ConnectionNew, Modes, Mode
  <2>2. autocommit' = autocommit
    BY <1>1, <2>1, SMT DEF ConnectionNew
  <2> QED
    BY <1>1, <2>2, SMT DEF ConnectionNew, session, caller
<1>2. CASE ConnectionInit(c)
  <2>1. autocommit[c]
    BY <1>2 DEF ConnectionInit, Modes, Mode
  <2> QED
    BY <1>2, <2>1, SMT DEF ConnectionInit, session, caller
<1>3. CASE ConnectionRelease(c)
  BY <1>3, SMT DEF ConnectionRelease, PQfinish
<1>4. CASE SessionLost(c)
  BY <1>4, SMT DEF SessionLost, caller
<1>5. CASE Rollback(c)
  <2>1. ReportsAreTrue'
    BY <1>5 DEF Rollback, EndTransaction, Vouch, driver
  <2>2. Sessions'
    BY <1>5, SMT DEF Rollback, EndTransaction, Vouch, driver
  <2>3. Asks'
    BY <1>5, SMT DEF Rollback, EndTransaction, Vouch, driver
  <2> QED
    BY <2>1, <2>2, <2>3
<1>6. CASE Commit(c)
  <2>1. ReportsAreTrue'
    BY <1>6 DEF Commit, EndTransaction, Vouch, driver
  <2>2. Sessions'
    BY <1>6, SMT DEF Commit, EndTransaction, Vouch, driver
  <2>3. Asks'
    BY <1>6, SMT DEF Commit, EndTransaction, Vouch, driver
  <2> QED
    BY <2>1, <2>2, <2>3
<1>7. CASE CommitAnswerLost(c)
  <2>1. ReportsAreTrue'
    BY <1>7 DEF CommitAnswerLost, EndTransaction
  <2>2. Sessions'
    BY <1>7, SMT DEF CommitAnswerLost, EndTransaction
  <2>3. Asks'
    BY <1>7, SMT DEF CommitAnswerLost, EndTransaction
  <2> QED
    BY <2>1, <2>2, <2>3
<1>8. CASE SetAutocommit(c, TRUE)
  <2>1. ReportsAreTrue'
    BY <1>8, SMT DEF SetAutocommit, EndTransaction, Vouch
  <2>2. Sessions'
    BY <1>8, SMT DEF SetAutocommit, EndTransaction, Vouch
  <2>3. Asks'
    BY <1>8, SMT DEF SetAutocommit, EndTransaction, Vouch
  <2> QED
    BY <2>1, <2>2, <2>3
<1>9. CASE SetAutocommit(c, FALSE)
  BY <1>9, SMT DEF SetAutocommit, BeginTransaction
<1> QED
  BY <1>1, <1>2, <1>3, <1>4, <1>5, <1>6, <1>7, <1>8, <1>9 DEF LifeStep

\* It only moves its own rows.
LEMMA LifeMoves ==
  ASSUME TxnInv, NEW c \in Connections, LifeStep(c)
  PROVE  /\ \A d \in Connections : asked'[d] \subseteq asked[d] /\ wrote'[d] \subseteq wrote[d]
         /\ undone' \subseteq undone \cup asked[c] /\ table' \subseteq table \cup wrote[c]
         /\ \A d \in Connections \ {c} : autocommit'[d] = autocommit[d]
<1> USE DEF TxnInv, ConnTypeOK
<1>1. CASE ConnectionNew(c) \/ ConnectionInit(c)
  BY <1>1 DEF ConnectionNew, ConnectionInit, session, caller
<1>2. CASE ConnectionRelease(c)
  BY <1>2, SMT DEF ConnectionRelease, PQfinish
<1>3. CASE SessionLost(c)
  BY <1>3 DEF SessionLost, caller
<1>4. CASE Rollback(c)
  BY <1>4 DEF Rollback, EndTransaction, Vouch, driver
<1>5. CASE Commit(c)
  BY <1>5 DEF Commit, EndTransaction, Vouch, driver
<1>6. CASE CommitAnswerLost(c)
  BY <1>6 DEF CommitAnswerLost, EndTransaction
<1>7. CASE SetAutocommit(c, TRUE)
  BY <1>7, SMT DEF SetAutocommit, EndTransaction, Vouch
<1>8. CASE SetAutocommit(c, FALSE)
  BY <1>8 DEF SetAutocommit, BeginTransaction
<1> QED
  BY <1>1, <1>2, <1>3, <1>4, <1>5, <1>6, <1>7, <1>8 DEF LifeStep

\* It touches no row that a statement holds.
LEMMA LifeRows ==
  ASSUME TxnInv, NEW c \in Connections, LifeStep(c), NEW r
  PROVE  /\ Clear(r) => Clear(r)'
         /\ \A e \in Connections : OwnRow(e, r) /\ (e # c \/ SessionLost(c)) => OwnRow(e, r)'
<1>1. Clear(r) => Clear(r)'
  BY LifeMoves DEF Clear
<1>2. ASSUME NEW e \in Connections, OwnRow(e, r), e # c \/ SessionLost(c)
      PROVE  OwnRow(e, r)'
  <2>1. CASE e # c
    <3>1. r \notin asked[c] /\ r \notin wrote[c]
      BY <1>2, <2>1 DEF OwnRow
    <3> QED
      BY <1>2, <2>1, <3>1, LifeMoves DEF OwnRow
  <2>2. CASE SessionLost(c)
    <3>1. UNCHANGED <<autocommit, table, undone>>
      BY <2>2 DEF SessionLost, caller
    <3> QED
      BY <1>2, <3>1, LifeMoves DEF OwnRow
  <2> QED
    BY <1>2, <2>1, <2>2
<1> QED
  BY <1>1, <1>2

\* Where another connection's rows are, they stay.
LEMMA LifeElsewhere ==
  ASSUME TxnInv, NEW c \in Connections, LifeStep(c), NEW e \in Connections, e # c
  PROVE  /\ autocommit'[e] = autocommit[e] /\ conn'[e] = conn[e] /\ wrote'[e] = wrote[e]
         /\ table \subseteq table'
<1> USE DEF TxnInv, ConnTypeOK
<1>1. CASE ConnectionNew(c) \/ ConnectionInit(c)
  BY <1>1 DEF ConnectionNew, ConnectionInit, session
<1>2. CASE ConnectionRelease(c) \/ SessionLost(c)
  BY <1>2 DEF ConnectionRelease, PQfinish, SessionLost
<1>3. CASE Commit(c) \/ Rollback(c) \/ CommitAnswerLost(c)
  BY <1>3 DEF Commit, Rollback, CommitAnswerLost, EndTransaction, driver
<1>4. CASE \E enabled \in BOOLEAN : SetAutocommit(c, enabled)
  BY <1>4, ZenonT(30) DEF SetAutocommit, EndTransaction, BeginTransaction
<1> QED
  BY <1>1, <1>2, <1>3, <1>4 DEF LifeStep

\* Steps of a connection that no call is using, and the loss of a session.
LEMMA LifeParameters ==
  ASSUME TxnInv, Held, InCall, NEW c \in Connections, LifeStep(c), UNCHANGED <<stmt, call>>,
         ~Busy(c) \/ SessionLost(c)
  PROVE  Held' /\ InCall'
<1>1. \A s \in Statements : \A r \in RowsOf(stmt[s].bind) : Clear(r)'
  BY LifeRows DEF Held
<1>2. ASSUME NEW s \in Statements, call[s] # None
      PROVE  /\ \A r \in RowsOf(call[s].bind) : OwnRow(stmt[s].connection, r)'
             /\ HasWritten(s)'
  <2> DEFINE e == stmt[s].connection
  <2>1. e \in Connections /\ (e # c \/ SessionLost(c))
    BY <1>2 DEF TxnInv, CallTypes, Busy, On
  <2>2. \A r \in RowsOf(call[s].bind) : OwnRow(e, r) /\ HasWritten(s)
    BY <1>2 DEF InCall
  <2>3. \A r \in RowsOf(call[s].bind) : OwnRow(e, r)'
    BY <2>1, <2>2, LifeRows
  <2>4. HasWritten(s)'
    <3>1. HasWritten(s)
      BY <1>2 DEF InCall
    <3>2. CASE e # c
      BY <2>1, <3>1, <3>2, LifeElsewhere, SMT DEF HasWritten
    <3>3. CASE e = c /\ SessionLost(c)
      BY <2>1, <3>1, <3>3 DEF HasWritten, SessionLost, TxnInv, ConnTypeOK
    <3> QED
      BY <2>1, <3>2, <3>3
  <2> QED
    BY <2>3, <2>4
<1> QED
  BY <1>1, <1>2, ParametersKept DEF InCall

-----------------------------------------------------------------------------
(* Updates and failures.                                                   *)

\* Rows that are clear are written, and some of them reported.
LEMMA UpdateLedger ==
  ASSUME TxnInv, Ledger, "chained" \notin Habits, NEW c \in Connections, NEW rows \in SUBSET Rows,
         Writes(c, rows), UNCHANGED driver, \A r \in rows : Clear(r),
         NEW known \in SUBSET rows, Failed(c) \/ Succeeded(c, known)
  PROVE  Ledger'
<1> USE WriteGoes DEF TxnInv, ConnTypeOK, Ledger, ReportsAreTrue, Sessions, Asks, Clear, driver
<1>1. CASE Failed(c) /\ autocommit[c]
  BY <1>1, SMT DEF Failed
<1>2. CASE Failed(c) /\ ~autocommit[c]
  BY <1>2, SMT DEF Failed
<1>3. CASE Succeeded(c, known) /\ autocommit[c]
  BY <1>3, SMT DEF Succeeded
<1>4. CASE Succeeded(c, known) /\ ~autocommit[c]
  <2>1. ReportsAreTrue' /\ Sessions'
    BY <1>4, SMT DEF Succeeded
  <2>2. Asks'
    BY <1>4, SMT DEF Succeeded
  <2> QED
    BY <2>1, <2>2
<1> QED
  BY <1>1, <1>2, <1>3, <1>4

\* A bound row is written, and not reported yet, or the call fails with it.
LEMMA RowLedger ==
  ASSUME TxnInv, Ledger, "chained" \notin Habits, NEW c \in Connections, NEW r \in Rows,
         Writes(c, {r}), UNCHANGED driver, UNCHANGED caller \/ Failed(c), OwnRow(c, r)
  PROVE  Ledger'
<1>3. \A d \in Connections \ {c} : hurt'[d] = hurt[d]
  BY DEF TxnInv, ConnTypeOK, Failed, caller
<1> USE WriteGoes DEF TxnInv, ConnTypeOK, Ledger, ReportsAreTrue, Sessions, Asks, OwnRow,
                      driver, caller, Failed
<1>1. CASE autocommit[c]
  <2>1. /\ table' = table \cup {r} /\ UNCHANGED <<wrote, asked, undone, acked, autocommit, conn>>
        /\ \A d \in Connections \ {c} : hurt'[d] = hurt[d]
    <3>1. {r} \in SUBSET Rows
      OBVIOUS
    <3>2. table' = table \cup {r} /\ wrote' = wrote
      BY <1>1, <3>1, WriteGoes
    <3> QED
      BY <1>3, <3>2
  <2>2. ReportsAreTrue' /\ Sessions'
    <3>1. \A d \in Connections : r \notin wrote[d]
      BY <1>1 DEF Modes, Mode
    <3> QED
      BY <2>1, <3>1, SMT
  <2>3. Asks'
    BY <2>1, SMT
  <2> QED
    BY <2>2, <2>3
<1>2. CASE ~autocommit[c]
  BY <1>2, SMT
<1> QED
  BY <1>1, <1>2

\* CREATE TABLE.
LEMMA CreateLedger ==
  ASSUME TxnInv, Ledger, "chained" \notin Habits, NEW c \in Connections, Table \in Rows,
         Writes(c, {Table}), UNCHANGED driver, Recreates,
         Table \notin table, \A d \in Connections : Table \notin wrote[d]
  PROVE  Ledger'
<1> USE WriteGoes DEF TxnInv, ConnTypeOK, Ledger, ReportsAreTrue, Sessions, Asks, Recreates,
                      driver, caller
<1>1. CASE autocommit[c]
  BY <1>1, SMT
<1>2. CASE ~autocommit[c]
  <2>1. ReportsAreTrue' /\ Sessions'
    BY <1>2, SMT
  <2>2. Asks'
    BY <1>2, SMT
  <2> QED
    BY <2>1, <2>2
<1> QED
  BY <1>1, <1>2

\* A failure loses the rows of the transaction, and the caller knows.
LEMMA FailureLedger ==
  ASSUME TxnInv, Ledger, NEW c \in Connections, UNCHANGED driver, Failed(c),
         UNCHANGED session \/ WriteFails(c)
  PROVE  Ledger'
<1> USE DEF TxnInv, ConnTypeOK, Ledger, ReportsAreTrue, Sessions, Asks, Failed, driver
<1>1. CASE UNCHANGED session
  BY <1>1, SMT DEF session
<1>2. CASE WriteFails(c)
  <2>1. ReportsAreTrue' /\ Sessions'
    BY <1>2, SMT DEF WriteFails
  <2>2. Asks'
    <3>1. /\ \A d \in Connections : wrote'[d] \subseteq wrote[d] /\ (d # c => wrote'[d] = wrote[d])
          /\ \A d \in Connections : hurt'[d] = IF d = c THEN ~autocommit[c] ELSE hurt[d]
          /\ UNCHANGED <<table, asked, autocommit, conn>>
      BY <1>2, SMT DEF WriteFails
    <3>2. \A d \in Connections : autocommit'[d] => asked'[d] = {}
      BY <3>1, SMT
    <3>3. ASSUME NEW d \in Connections, conn'[d] = "up"
          PROVE  /\ ~hurt'[d] => asked'[d] \subseteq wrote'[d]
                 /\ \A r \in asked'[d] :
                      r \notin table' /\ \A e \in Connections : r \in wrote'[e] => e = d
      <4>1. \A r \in asked'[d] :
              r \notin table' /\ \A e \in Connections : r \in wrote'[e] => e = d
        BY <3>1, <3>3
      <4>2. ~hurt'[d] => asked'[d] \subseteq wrote'[d]
        <5>1. CASE d = c
          BY <3>1, <5>1
        <5>2. CASE d # c
          BY <3>1, <3>3, <5>2
        <5> QED
          BY <5>1, <5>2
      <4> QED
        BY <4>1, <4>2
    <3> QED
      BY <3>2, <3>3
  <2> QED
    BY <2>1, <2>2
<1> QED
  BY <1>1, <1>2

\* A call's rows are reported.
LEMMA ReturnLedger ==
  ASSUME TxnInv, Ledger, InCall, NEW s \in Statements, call[s] # None,
         UNCHANGED <<driver, session>>, Succeeded(stmt[s].connection, call[s].wrote)
  PROVE  Ledger'
<1> DEFINE c == stmt[s].connection
<1>1. c \in Connections /\ HasWritten(s)
  BY DEF TxnInv, CallTypes, InCall
<1>2. CASE autocommit[c]
  BY <1>1, <1>2 DEF TxnInv, ConnTypeOK, Ledger, ReportsAreTrue, Sessions, Asks, Succeeded,
                    HasWritten, driver, session
<1>3. CASE ~autocommit[c]
  <2>1. /\ \A d \in Connections : asked'[d] = IF d = c THEN asked[d] \cup call[s].wrote ELSE asked[d]
        /\ UNCHANGED <<acked, undone, hurt, autocommit, conn, wrote, table>>
    BY <1>1, <1>3 DEF Succeeded, TxnInv, ConnTypeOK, driver, session
  <2>2. conn[c] = "up" => call[s].wrote \subseteq wrote[c]
    BY <1>1, <1>3 DEF HasWritten
  <2>3. ReportsAreTrue' /\ Sessions'
    BY <2>1 DEF Ledger, ReportsAreTrue, Sessions
  <2>4. ASSUME NEW d \in Connections
        PROVE  /\ autocommit'[d] => asked'[d] = {}
               /\ conn'[d] = "up" /\ ~hurt'[d] => asked'[d] \subseteq wrote'[d]
               /\ conn'[d] = "up" => \A r \in asked'[d] :
                    r \notin table' /\ \A e \in Connections : r \in wrote'[e] => e = d
    <3>1. CASE d # c
      BY <2>1, <3>1 DEF Ledger, Asks
    <3>2. CASE d = c
      <4>1. ~autocommit'[d] /\ asked'[d] = asked[c] \cup call[s].wrote /\ wrote' = wrote
        BY <1>3, <2>1, <3>2
      <4>2. conn'[d] = "up" /\ ~hurt'[d] => asked'[d] \subseteq wrote'[d]
        BY <1>1, <2>1, <2>2, <3>2, <4>1 DEF Ledger, Asks
      <4>3. ASSUME conn[c] = "up", NEW r \in asked'[d]
            PROVE  r \notin table /\ \A e \in Connections : r \in wrote[e] => e = c
        <5>1. CASE r \in asked[c]
          BY <1>1, <4>3, <5>1 DEF Ledger, Asks
        <5>2. CASE r \in wrote[c]
          BY <1>1, <5>2 DEF Ledger, Sessions
        <5> QED
          BY <2>2, <4>1, <4>3, <5>1, <5>2
      <4> QED
        BY <2>1, <3>2, <4>1, <4>2, <4>3
    <3> QED
      BY <3>1, <3>2
  <2> QED
    BY <2>3, <2>4 DEF Ledger, Asks
<1> QED
  BY <1>2, <1>3

-----------------------------------------------------------------------------
(* The parameters through updates and failures.                            *)

\* Another row than the one written stays clear, and stays its owner's.
LEMMA OtherRows ==
  ASSUME TxnInv, "chained" \notin Habits, NEW c \in Connections, NEW rows \in SUBSET Rows,
         Writes(c, rows), UNCHANGED driver, NEW known \in SUBSET rows,
         UNCHANGED caller \/ Failed(c) \/ Succeeded(c, known) \/ Recreates,
         NEW q, q \notin rows
  PROVE  /\ Clear(q) => Clear(q)'
         /\ \A e \in Connections : OwnRow(e, q) => OwnRow(e, q)'
<1>1. /\ \A d \in Connections : (q \in wrote'[d] <=> q \in wrote[d])
      /\ q \in table' <=> q \in table
  BY WriteGoes, SMT DEF TxnInv, ConnTypeOK
<1>2. /\ \A d \in Connections : q \in asked'[d] => q \in asked[d]
      /\ q \in undone' => q \in undone
  <2>1. CASE UNCHANGED caller
    BY <2>1 DEF caller
  <2>2. CASE Failed(c)
    BY <2>2 DEF Failed
  <2>3. CASE Succeeded(c, known)
    BY <2>3 DEF Succeeded, TxnInv, ConnTypeOK
  <2>4. CASE Recreates
    BY <2>4 DEF Recreates
  <2> QED
    BY <2>1, <2>2, <2>3, <2>4
<1>3. autocommit' = autocommit
  BY DEF driver
<1> QED
  BY <1>1, <1>2, <1>3 DEF Clear, OwnRow

\* What a call has written stays written when something is written.
LEMMA WrittenStays ==
  ASSUME TxnInv, "chained" \notin Habits, NEW c \in Connections, NEW rows \in SUBSET Rows,
         Writes(c, rows), UNCHANGED driver, NEW s \in Statements, call[s] # None, HasWritten(s),
         stmt'[s].connection = stmt[s].connection,
         call'[s].wrote \subseteq call[s].wrote \cup (IF stmt[s].connection = c THEN rows ELSE {})
  PROVE  HasWritten(s)'
<1>1. stmt[s].connection \in Connections
  BY DEF TxnInv, CallTypes
<1>2. /\ autocommit' = autocommit /\ conn' = conn
      /\ table \subseteq table' /\ \A d \in Connections : wrote[d] \subseteq wrote'[d]
      /\ autocommit[c] => rows \subseteq table'
      /\ ~autocommit[c] => rows \subseteq wrote'[c]
  BY WriteGoes, SMT DEF driver, TxnInv, ConnTypeOK
<1>3. CASE stmt[s].connection = c
  BY <1>1, <1>2, <1>3 DEF HasWritten
<1>4. CASE stmt[s].connection # c
  BY <1>1, <1>2, <1>4 DEF HasWritten
<1> QED
  BY <1>3, <1>4

\* An update, by a statement that holds no call.
LEMMA UpdateParameters ==
  ASSUME TxnInv, Held, InCall, "chained" \notin Habits, NEW c \in Connections,
         NEW rows \in SUBSET Rows, Writes(c, rows), UNCHANGED <<driver, stmt, call>>,
         \A r \in rows : Unused(r), NEW known \in SUBSET rows, Failed(c) \/ Succeeded(c, known)
  PROVE  Held' /\ InCall'
<1>1. ASSUME NEW s \in Statements, NEW q \in Bound(s)
      PROVE  q \notin rows
  BY <1>1, FreshIsClear
<1>2. \A s \in Statements : \A q \in RowsOf(stmt[s].bind) : Clear(q)'
  BY <1>1, OtherRows DEF Held, Bound
<1>3. ASSUME NEW s \in Statements, call[s] # None
      PROVE  /\ \A q \in RowsOf(call[s].bind) : OwnRow(stmt[s].connection, q)'
             /\ HasWritten(s)'
  <2>1. stmt[s].connection \in Connections
    BY <1>3 DEF TxnInv, CallTypes
  <2>2. ASSUME NEW q \in RowsOf(call[s].bind)
        PROVE  OwnRow(stmt[s].connection, q)'
    <3>1. q \notin rows /\ OwnRow(stmt[s].connection, q)
      BY <1>1, <1>3, <2>2 DEF InCall, Bound
    <3> QED
      BY <2>1, <3>1, OtherRows
  <2>3. HasWritten(s)'
    BY <1>3, WrittenStays DEF InCall
  <2> QED
    BY <2>2, <2>3
<1> QED
  BY <1>2, <1>3, ParametersKept DEF InCall

\* What fails ends the connection's call, if there is one.
LEMMA FailureParameters ==
  ASSUME TxnInv, Held, InCall, NEW c \in Connections, UNCHANGED <<driver, stmt>>, Failed(c),
         UNCHANGED session \/ WriteFails(c),
         \A s \in Statements : call'[s] # None => call'[s] = call[s] /\ stmt[s].connection # c
  PROVE  Held' /\ InCall'
<1>1. /\ \A d \in Connections : wrote'[d] \subseteq wrote[d] /\ (d # c => wrote'[d] = wrote[d])
      /\ UNCHANGED <<table, asked, undone, autocommit, conn>>
  BY DEF TxnInv, ConnTypeOK, WriteFails, session, Failed, driver
<1>2. \A s \in Statements : \A q \in RowsOf(stmt[s].bind) : Clear(q)'
  BY <1>1 DEF Held, Clear
<1>3. ASSUME NEW s \in Statements, call'[s] # None
      PROVE  /\ \A q \in RowsOf(call[s].bind) : OwnRow(stmt[s].connection, q)'
             /\ HasWritten(s)'
  <2>1. stmt[s].connection \in Connections /\ call[s] # None
    BY <1>3 DEF TxnInv, CallTypes
  <2>2. \A q \in RowsOf(call[s].bind) : OwnRow(stmt[s].connection, q)'
    BY <1>1, <2>1 DEF InCall, OwnRow
  <2>3. HasWritten(s)'
    BY <1>1, <1>3, <2>1 DEF InCall, HasWritten
  <2> QED
    BY <2>2, <2>3
<1> QED
  BY <1>2, <1>3, ParametersKept DEF InCall

\* A call returns: its rows become the caller's.
LEMMA ReturnParameters ==
  ASSUME TxnInv, Held, InCall, NEW s \in Statements, call[s] # None,
         UNCHANGED <<driver, session, stmt>>, call' = [call EXCEPT ![s] = None],
         Succeeded(stmt[s].connection, call[s].wrote)
  PROVE  Held' /\ InCall'
<1> DEFINE c == stmt[s].connection
<1>1. /\ \A d \in Connections : asked'[d] \subseteq asked[d] \cup call[s].wrote
      /\ UNCHANGED <<wrote, table, undone, autocommit, conn>>
  BY DEF TxnInv, ConnTypeOK, CallTypes, Succeeded, driver, session
<1>2. ASSUME NEW t \in Statements, NEW q \in Bound(t), t # s \/ q \in RowsOf(stmt[s].bind), q # Table
      PROVE  q \notin call[s].wrote
  <2>1. stmt[s].bind = None /\ RowsOf(stmt[s].bind) = {}
    BY DEF InCall, RowsOf
  <2>2. q \notin Bound(s)
    BY <1>2, <2>1 DEF Held
  <2> QED
    BY <1>2, <2>2 DEF InCall, Bound
<1>3. \A t \in Statements : \A q \in RowsOf(stmt[t].bind) : Clear(q)'
  BY <1>1, <1>2 DEF Held, Clear, Bound
<1>4. ASSUME NEW t \in Statements, call'[t] # None
      PROVE  /\ call'[t] = call[t] /\ call[t] # None
             /\ \A q \in RowsOf(call[t].bind) : OwnRow(stmt[t].connection, q)'
             /\ HasWritten(t)'
  <2>1. t # s /\ call'[t] = call[t] /\ call[t] # None
    BY <1>4 DEF TxnInv, CallTypes
  <2>2. ASSUME NEW q \in RowsOf(call[t].bind)
        PROVE  OwnRow(stmt[t].connection, q)'
    <3>1. OwnRow(stmt[t].connection, q) /\ q \in Bound(t)
      BY <2>1, <2>2 DEF InCall, Bound
    <3>2. q \notin call[s].wrote
      BY <1>2, <2>1, <3>1 DEF OwnRow
    <3> QED
      BY <1>1, <3>1, <3>2 DEF OwnRow
  <2>3. HasWritten(t)'
    BY <1>1, <2>1 DEF InCall, HasWritten
  <2> QED
    BY <2>1, <2>2, <2>3
<1> QED
  BY <1>3, <1>4, ParametersKept DEF InCall

\* A call writes one of its rows, and goes on or fails, or the table: no other
\* statement holds it.
LEMMA CallParameters ==
  ASSUME TxnInv, Held, InCall, "chained" \notin Habits, NEW s \in Statements, call[s] # None,
         NEW r \in Rows, Writes(stmt[s].connection, {r}), UNCHANGED <<driver, stmt>>,
         \/ r = Table /\ Recreates
         \/ r \in RowsOf(call[s].bind) /\ (UNCHANGED caller \/ Failed(stmt[s].connection)),
         call'[s] # None => /\ call'[s].bind = call[s].bind
                            /\ call'[s].wrote \subseteq call[s].wrote \cup {r},
         \A t \in Statements \ {s} : call'[t] = call[t]
  PROVE  Held' /\ InCall'
<1> DEFINE c == stmt[s].connection
<1>1. c \in Connections
  BY DEF TxnInv, CallTypes
<1>4. ASSUME NEW q, q # r
      PROVE  /\ Clear(q) => Clear(q)'
             /\ \A e \in Connections : OwnRow(e, q) => OwnRow(e, q)'
  <2>1. {r} \in SUBSET Rows /\ {} \in SUBSET {r} /\ q \notin {r}
    BY <1>4
  <2>2. UNCHANGED caller \/ Failed(c) \/ Recreates
    OBVIOUS
  <2> QED
    BY <1>1, <2>1, <2>2, OtherRows
<1>2. ASSUME NEW t \in Statements, NEW q \in RowsOf(stmt[t].bind)
      PROVE  Clear(q)'
  <2>1. Clear(q) /\ q # Table /\ stmt[s].bind = None
    BY <1>2 DEF Held, InCall
  <2>2. t # s
    BY <1>2, <2>1 DEF RowsOf
  <2>3. q # r
    BY <1>2, <2>1, <2>2 DEF Held, Bound
  <2> QED
    BY <1>4, <2>1, <2>3
<1>3. ASSUME NEW t \in Statements, call'[t] # None
      PROVE  /\ call[t] # None /\ call'[t].bind = call[t].bind
             /\ call'[t].wrote \subseteq RowsOf(call[t].bind) \cup {Table}
             /\ \A q \in RowsOf(call[t].bind) : OwnRow(stmt[t].connection, q)'
             /\ HasWritten(t)'
  <2>1. /\ call[t] # None /\ call'[t].bind = call[t].bind
        /\ call'[t].wrote \subseteq RowsOf(call[t].bind) \cup {Table}
    BY <1>3 DEF InCall
  <2>2. stmt[t].connection \in Connections
    BY <2>1 DEF TxnInv, CallTypes
  <2>3. ASSUME NEW q \in RowsOf(call[t].bind)
        PROVE  OwnRow(stmt[t].connection, q)'
    <3>1. OwnRow(stmt[t].connection, q)
      BY <2>1, <2>3 DEF InCall
    <3>2. CASE q # r
      BY <1>4, <2>2, <3>1, <3>2
    <3>3. CASE q = r
      <4>1. r # Table
        BY <3>1, <3>3 DEF OwnRow
      <4>2. t = s
        BY <2>1, <2>3, <3>3, <4>1 DEF Held, Bound
      <4>3. UNCHANGED <<undone, asked>>
        BY <4>1 DEF caller, Failed
      <4> QED
        <5>1. /\ UNCHANGED <<undone, asked, autocommit>>
              /\ \A d \in Connections \ {c} : wrote'[d] = wrote[d]
              /\ ~autocommit[c] => table' = table
          BY <1>1, <4>3, WriteGoes, SMT DEF TxnInv, ConnTypeOK, driver
        <5> QED
          BY <1>1, <3>1, <3>3, <4>2, <5>1 DEF OwnRow
    <3> QED
      BY <3>2, <3>3
  <2>4. HasWritten(t)'
    <3>1. HasWritten(t) /\ stmt'[t].connection = stmt[t].connection
      BY <2>1 DEF InCall
    <3>2. call'[t].wrote \subseteq call[t].wrote \cup (IF stmt[t].connection = c THEN {r} ELSE {})
      <4>1. CASE t = s
        BY <1>3, <4>1
      <4>2. CASE t # s
        BY <4>2
      <4> QED
        BY <4>1, <4>2
    <3>3. {r} \in SUBSET Rows
      OBVIOUS
    <3> QED
      BY <1>1, <2>1, <3>1, <3>2, <3>3, WrittenStays
  <2> QED
    BY <2>1, <2>3, <2>4
<1> QED
  BY <1>2, <1>3, ParametersKept DEF InCall

-----------------------------------------------------------------------------
(* The statements.                                                         *)

\* What statements see of the rows.
ledger == <<conn, autocommit, session, caller>>

\* Steps that leave the rows alone.
LEMMA QuietLedger ==
  ASSUME Ledger, UNCHANGED ledger
  PROVE  Ledger'
BY DEF Ledger, ReportsAreTrue, Sessions, Asks, ledger, session, caller

\* Steps that leave the rows and the parameters alone, or forget parameters.
LEMMA QuietParameters ==
  ASSUME Held, InCall, UNCHANGED ledger,
         \A s \in Statements : RowsOf(stmt'[s].bind) \subseteq RowsOf(stmt[s].bind),
         \A s \in Statements : call'[s] # None =>
           /\ call[s] # None /\ call'[s].bind = call[s].bind /\ call'[s].wrote = call[s].wrote
           /\ stmt'[s].connection = stmt[s].connection /\ stmt'[s].bind = stmt[s].bind
  PROVE  Held' /\ InCall'
<1>1. \A s \in Statements : \A q \in RowsOf(stmt[s].bind) : Clear(q)'
  BY DEF Held, Clear, ledger, session, caller
<1>2. ASSUME NEW s \in Statements, call'[s] # None
      PROVE  /\ \A q \in RowsOf(call[s].bind) : OwnRow(stmt[s].connection, q)'
             /\ HasWritten(s)' /\ stmt'[s].bind = None
  BY <1>2, SMT DEF InCall, OwnRow, HasWritten, ledger, session, caller
<1> QED
  BY <1>1, <1>2, ParametersKept DEF InCall

\* New parameters.
LEMMA BindParameters ==
  ASSUME TxnInv, Held, InCall, NEW s \in Statements, NEW b \in Bindings, Bind(s, b)
  PROVE  Held' /\ InCall'
<1>1. call' = call /\ call[s] = None /\ UNCHANGED ledger
  BY CallsAreFree DEF Bind, connVars, driver, ledger
<1>2. /\ \A t \in Statements : stmt'[t].connection = stmt[t].connection
      /\ \A t \in Statements : stmt'[t].bind = IF t = s THEN b ELSE stmt[t].bind
  BY DEF Bind, TxnInv, CallTypes, StatementType
<1>3. \A r \in RowsOf(b) :
        r # Table /\ Clear(r) /\ \A t \in Statements : t # s => r \notin Bound(t)
  BY FreshIsClear DEF Bind, Held, Bound
<1>4. Bound(s)' = RowsOf(b) /\ \A t \in Statements : t # s => Bound(t)' = Bound(t)
  BY <1>1, <1>2 DEF Bound
<1>5. \A r : Clear(r) => Clear(r)'
  BY <1>1 DEF Clear, ledger, session, caller
<1>6. Held'
  <2>1. \A t \in Statements : \A r \in RowsOf(stmt'[t].bind) : r # Table /\ Clear(r)'
    BY <1>2, <1>3, <1>5 DEF Held
  <2>2. \A t, u \in Statements : u # t => \A r \in Bound(t)' : r \notin Bound(u)'
    BY <1>3, <1>4, SMT DEF Held
  <2> QED
    BY <2>1, <2>2 DEF Held
<1>7. ASSUME NEW t \in Statements, call[t] # None
      PROVE  /\ \A r \in RowsOf(call[t].bind) : OwnRow(stmt[t].connection, r)'
             /\ HasWritten(t)' /\ t # s
  BY <1>1, <1>2, <1>7 DEF InCall, OwnRow, HasWritten, ledger, session, caller
<1>8. ASSUME NEW t \in Statements, call[t] # None
      PROVE  /\ stmt'[t].bind = None /\ call[t].bind # None
             /\ call[t].wrote \subseteq RowsOf(call[t].bind) \cup {Table}
             /\ \A u \in Statements : call[u] # None /\ stmt[u].connection = stmt[t].connection => u = t
  BY <1>2, <1>7, <1>8 DEF InCall
<1>9. (\A t \in Statements : stmt'[t].connection = stmt[t].connection) /\ call' = call
  BY <1>1, <1>2
<1>10. InCall'
  BY <1>7, <1>8, <1>9, SMT DEF InCall
<1> QED
  BY <1>6, <1>10

\* The parameters move into a call.
LEMMA BeginParameters ==
  ASSUME TxnInv, Held, InCall, NEW s \in Statements, BoundBegin(s)
  PROVE  Held' /\ InCall'
<1> DEFINE c == stmt[s].connection
           b == stmt[s].bind
<1>1. /\ UNCHANGED ledger /\ b # None /\ call[s] = None
      /\ \A t \in Statements : call[t] # None => stmt[t].connection # c
  BY DEF BoundBegin, Executes, Calls, Busy, On, connVars, driver, ledger
<1>2. /\ \A t \in Statements : stmt'[t].connection = stmt[t].connection
      /\ \A t \in Statements : stmt'[t].bind = IF t = s THEN None ELSE stmt[t].bind
  BY DEF BoundBegin, TxnInv, CallTypes, StatementType
<1>3. /\ call'[s].bind = b /\ call'[s].wrote = {}
      /\ \A t \in Statements : t # s => call'[t] = call[t]
  BY DEF BoundBegin, TxnInv, CallTypes
<1>4. \A t \in Statements : \A r \in Bound(t)' : r \in Bound(t)
  <2>1. RowsOf(None) = {}
    BY DEF RowsOf
  <2> QED
    BY <1>1, <1>2, <1>3, <2>1 DEF Bound
<1>5. \A r : Clear(r) => Clear(r)'
  BY <1>1 DEF Clear, ledger, session, caller
<1>6. Held'
  <2>1. \A t \in Statements : \A r \in RowsOf(stmt'[t].bind) : r # Table /\ Clear(r)'
    BY <1>2, <1>5 DEF Held, RowsOf
  <2>2. \A t, u \in Statements : u # t => \A r \in Bound(t)' : r \notin Bound(u)'
    BY <1>4 DEF Held
  <2> QED
    BY <2>1, <2>2 DEF Held
<1>7. \A r \in RowsOf(b) : OwnRow(c, r)'
  BY <1>5, <1>2 DEF Held, Clear, OwnRow
<1>8. ASSUME NEW t \in Statements, t # s, call[t] # None
      PROVE  /\ \A r \in RowsOf(call[t].bind) : OwnRow(stmt[t].connection, r)'
             /\ HasWritten(t)'
  BY <1>1, <1>2, <1>3, <1>8, ZenonT(30) DEF InCall, OwnRow, HasWritten, ledger, session, caller
<1>9. HasWritten(s)'
  BY <1>3 DEF HasWritten
<1>10. ASSUME NEW t \in Statements, call'[t] # None
       PROVE  /\ stmt'[t].bind = None /\ call'[t].bind # None
              /\ call'[t].wrote \subseteq RowsOf(call'[t].bind) \cup {Table}
              /\ \A r \in RowsOf(call'[t].bind) : OwnRow(stmt[t].connection, r)'
              /\ HasWritten(t)'
              /\ \A u \in Statements : call'[u] # None /\ stmt'[u].connection = stmt'[t].connection
                                         => u = t
  <2>1. CASE t = s
    <3>1. \A u \in Statements : call'[u] # None /\ stmt'[u].connection = stmt'[t].connection => u = t
      BY <1>1, <1>2, <1>3, <2>1
    <3> QED
      BY <1>1, <1>2, <1>3, <1>7, <1>9, <2>1, <3>1
  <2>2. CASE t # s
    <3>1. call'[t] = call[t] /\ call[t] # None /\ stmt'[t].bind = stmt[t].bind
      BY <1>2, <1>3, <1>10, <2>2
    <3>2. ASSUME NEW u \in Statements, call'[u] # None, stmt'[u].connection = stmt'[t].connection
          PROVE  u = t
      <4>1. stmt[u].connection = stmt[t].connection /\ stmt[t].connection # c
        BY <1>1, <1>2, <3>1, <3>2
      <4>2. u # s /\ call[u] # None
        BY <1>3, <3>2, <4>1
      <4> QED
        BY <3>1, <4>1, <4>2 DEF InCall
    <3> QED
      BY <1>8, <2>2, <3>1, <3>2 DEF InCall
  <2> QED
    BY <2>1, <2>2
<1>11. \A t \in Statements : stmt'[t].connection = stmt[t].connection
  BY <1>2
<1> HIDE DEF c, b
<1>12. InCall'
  BY <1>10, <1>11 DEF InCall
<1> QED
  BY <1>6, <1>12

-----------------------------------------------------------------------------
(* The invariant holds.                                                    *)

\* Steps of a statement outside of a call.
LEMMA StatementRows ==
  ASSUME TxnInv, RowInv, "chained" \notin Habits, NEW s \in Statements, StatementStep(s)
  PROVE  RowInv'
<1> DEFINE c == stmt[s].connection
<1> USE DEF RowInv
<1>1. ASSUME UNCHANGED <<connVars, call>>,
             \A t \in Statements : RowsOf(stmt'[t].bind) \subseteq RowsOf(stmt[t].bind),
             \A t \in Statements : call[t] # None =>
               stmt'[t].connection = stmt[t].connection /\ stmt'[t].bind = stmt[t].bind
      PROVE  RowInv'
  <2>1. UNCHANGED ledger
    BY <1>1 DEF connVars, driver, ledger
  <2> QED
    BY <1>1, <2>1, QuietLedger, QuietParameters
<1>2. CASE (\E d \in Connections : StatementNew(s, d)) \/ StatementRelease(s)
  <2>1. call[s] = None
    <3>1. CASE StatementRelease(s)
      BY <3>1, CallsAreFree DEF StatementRelease
    <3>2. CASE stmt[s].connection = None
      BY <3>2, ConnectionsAssumption, BindingsAssumption DEF TxnInv, CallTypes
    <3> QED
      BY <1>2, <3>1, <3>2 DEF StatementNew
  <2>2. UNCHANGED <<connVars, call>>
    BY <1>2 DEF StatementNew, StatementRelease
  <2>3. stmt'[s].bind = None /\ \A t \in Statements \ {s} : stmt'[t] = stmt[t]
    <3>1. PICK d \in Connections \cup {None} : stmt' = [stmt EXCEPT ![s] = NewStatement(d)]
      BY <1>2 DEF StatementNew, StatementRelease
    <3>2. stmt \in [Statements -> StatementType]
      BY DEF TxnInv, CallTypes
    <3>3. stmt'[s] = NewStatement(d) /\ \A t \in Statements \ {s} : stmt'[t] = stmt[t]
      BY <3>1, <3>2
    <3>4. NewStatement(d).bind = None
      BY DEF NewStatement
    <3> QED
      BY <3>3, <3>4
  <2> QED
    BY <1>1, <2>1, <2>2, <2>3 DEF RowsOf
<1>3. CASE \/ (\E q \in Queries \cup {"update"} : SetSqlQuery(s, q))
           \/ SetTarget(s) \/ Prepare(s) \/ (\E append \in BOOLEAN : SetMode(s, append))
  <2>1. UNCHANGED <<connVars, call>>
    BY <1>3 DEF SetSqlQuery, SetTarget, Prepare, SetMode
  <2>2. \A t \in Statements :
          stmt'[t].connection = stmt[t].connection /\ stmt'[t].bind = stmt[t].bind
    <3>1. CASE \E q \in Queries \cup {"update"} : SetSqlQuery(s, q)
      BY <3>1, SMT DEF SetSqlQuery, TxnInv, CallTypes, StatementType
    <3>2. CASE SetTarget(s) \/ Prepare(s)
      BY <3>2, SMT DEF SetTarget, Prepare, TxnInv, CallTypes, StatementType
    <3>3. CASE \E append \in BOOLEAN : SetMode(s, append)
      BY <3>3, SMT DEF SetMode, TxnInv, CallTypes, StatementType
    <3> QED
      BY <1>3, <3>1, <3>2, <3>3
  <2> QED
    BY <1>1, <2>1, <2>2
<1>4. CASE \E b \in Bindings : Bind(s, b)
  <2>1. UNCHANGED ledger
    BY <1>4 DEF Bind, connVars, driver, ledger
  <2> QED
    BY <1>4, <2>1, QuietLedger, BindParameters
<1>5. CASE BoundBegin(s)
  <2>1. UNCHANGED ledger
    BY <1>5 DEF BoundBegin, connVars, driver, ledger
  <2> QED
    BY <1>5, <2>1, QuietLedger, BeginParameters
<1>6. CASE \E stream \in BOOLEAN : ExecuteRefused(s, stream)
  BY <1>1, <1>6 DEF ExecuteRefused
<1>7. ASSUME NEW stream \in BOOLEAN, Sends(s, stream)
      PROVE  c \in Connections /\ \A t \in Statements : call[t] # None => stmt[t].connection # c
  BY <1>7 DEF Sends, Executes, Calls, Busy, On, TxnInv, CallTypes, StatementType
<1>8. ASSUME NEW stream \in BOOLEAN, Sends(s, stream), UNCHANGED <<driver, stmt, call>>, Failed(c),
             UNCHANGED session \/ WriteFails(c)
      PROVE  RowInv'
  BY <1>7, <1>8, FailureLedger, FailureParameters
<1>9. ASSUME NEW stream \in BOOLEAN, Sends(s, stream), UNCHANGED <<driver, stmt, call>>,
             NEW rows \in SUBSET Rows, \A r \in rows : Unused(r), Writes(c, rows),
             NEW known \in SUBSET rows, Failed(c) \/ Succeeded(c, known)
      PROVE  RowInv'
  <2>1. c \in Connections /\ \A r \in rows : Clear(r)
    BY <1>7, <1>9, FreshIsClear
  <2>2. Ledger'
    BY <1>9, <2>1, UpdateLedger
  <2>3. Held' /\ InCall'
    BY <1>9, <2>1, UpdateParameters
  <2> QED
    BY <2>2, <2>3
<1>10. CASE \E stream \in BOOLEAN : ExecuteFails(s, stream)
  BY <1>8, <1>10 DEF ExecuteFails
<1>11. ASSUME NEW stream \in BOOLEAN, Sends(s, stream), UNCHANGED <<driver, stmt, call>>,
              conn[c] = "up", txn[c] # "failed", NEW q, RunsUnseen(c, q), Failed(c)
       PROVE  RowInv'
  <2>1. CASE UNCHANGED session
    BY <1>8, <1>11, <2>1
  <2>2. CASE \E r \in Rows : MayWrite(c) /\ Unused(r) /\ Write(c, {r})
    <3>1. PICK r \in Rows : Unused(r) /\ Writes(c, {r})
      BY <1>11, <2>2 DEF Writes
    <3>2. {r} \in SUBSET Rows /\ {} \in SUBSET {r} /\ \A x \in {r} : Unused(x)
      BY <3>1
    <3> QED
      BY <1>9, <1>11, <3>1, <3>2
  <2> QED
    BY <1>11, <2>1, <2>2 DEF RunsUnseen
<1>12. CASE ExecuteUnknownType(s) \/ \E stream \in BOOLEAN : ExecuteMismatch(s, stream)
  BY <1>11, <1>12 DEF ExecuteUnknownType, ExecuteMismatch
<1>13. CASE ExecuteUpdate(s)
  <2>1. PICK r \in Rows : Unused(r) /\ Writes(c, {r}) /\ Succeeded(c, {r})
    BY <1>13 DEF ExecuteUpdate, Writes
  <2>2. {r} \in SUBSET Rows /\ {r} \in SUBSET {r} /\ \A x \in {r} : Unused(x)
    BY <2>1
  <2>3. Sends(s, FALSE) /\ UNCHANGED <<driver, stmt, call>>
    BY <1>13 DEF ExecuteUpdate
  <2> QED
    BY <1>9, <2>1, <2>2, <2>3
<1>14. CASE ExecuteQuery(s)
  <2>1. PICK complete \in BOOLEAN : RunsTwice(c, stmt[s].query, complete)
    BY <1>14 DEF ExecuteQuery
  <2>2. Sends(s, TRUE) /\ UNCHANGED <<driver, stmt, call>> /\ conn[c] = "up" /\ txn[c] # "failed"
    BY <1>14 DEF ExecuteQuery
  <2>3. CASE UNCHANGED <<session, caller>>
    BY <1>1, <2>2, <2>3 DEF connVars
  <2>4. CASE WriteFails(c) /\ Failed(c)
    BY <1>8, <2>2, <2>4
  <2>5. CASE \E r, again \in Rows : /\ MayWrite(c) /\ Unused(r) /\ Unused(again)
                                    /\ Write(c, {r, again}) /\ Succeeded(c, {r})
    <3>1. PICK r \in Rows, again \in Rows :
            Unused(r) /\ Unused(again) /\ Writes(c, {r, again}) /\ Succeeded(c, {r})
      BY <2>2, <2>5 DEF Writes
    <3>2. /\ {r, again} \in SUBSET Rows /\ {r} \in SUBSET {r, again}
          /\ \A x \in {r, again} : Unused(x)
      BY <3>1
    <3> QED
      BY <1>9, <2>2, <3>1, <3>2
  <2>6. CASE \E r \in Rows : MayWrite(c) /\ Unused(r) /\ Write(c, {r}) /\ Failed(c)
    <3>1. PICK r \in Rows : Unused(r) /\ Writes(c, {r}) /\ Failed(c)
      BY <2>2, <2>6 DEF Writes
    <3>2. {r} \in SUBSET Rows /\ {} \in SUBSET {r} /\ \A x \in {r} : Unused(x)
      BY <3>1
    <3> QED
      BY <1>9, <2>2, <3>1, <3>2
  <2> QED
    BY <2>1, <2>3, <2>4, <2>5, <2>6 DEF RunsTwice
<1> QED
  BY <1>2, <1>3, <1>4, <1>5, <1>6, <1>10, <1>12, <1>13, <1>14 DEF StatementStep

\* Steps of a call.
LEMMA CallRows ==
  ASSUME TxnInv, RowInv, "chained" \notin Habits, NEW s \in Statements, BoundStep(s)
  PROVE  RowInv'
<1> DEFINE c == stmt[s].connection
           k == call[s]
<1> USE DEF RowInv
<1>0. k # None
  BY DEF BoundStep, CreateBulkTable, PrepareRows, ExecuteRow, BoundMismatch, BoundReturns,
         BoundRefused, BoundFails, Proceeds
<1>1. k \in CallType /\ InBatch(k) /\ c \in Connections /\ MayWrite(c) /\ k.bind # None
  BY <1>0 DEF TxnInv, CallTypes, Turns, InCall
<1>2. CASE CreateBulkTable(s)
  <2>1. /\ Writes(c, {Table}) /\ Recreates /\ UNCHANGED <<driver, stmt>>
        /\ Table \in Rows /\ Table \notin table /\ \A d \in Connections : Table \notin wrote[d]
    BY <1>1, <1>2, BindingsAssumption DEF CreateBulkTable, Proceeds, Writes, Recreates
  <2>2. call' = [call EXCEPT ![s] = [k EXCEPT !.phase = "types", !.wrote = {Table}]]
    BY <1>1, <1>2 DEF CreateBulkTable, CallType, TxnInv, CallTypes
  <2>3. /\ call'[s].bind = k.bind /\ call'[s].wrote \subseteq k.wrote \cup {Table}
        /\ \A t \in Statements \ {s} : call'[t] = call[t]
    BY <1>1, <2>2 DEF CallType, TxnInv, CallTypes
  <2>4. Ledger'
    BY <1>1, <2>1, CreateLedger
  <2>5. Held' /\ InCall'
    BY <1>0, <2>1, <2>3, CallParameters
  <2> QED
    BY <2>4, <2>5
<1>3. CASE ExecuteRow(s)
  <2> DEFINE r == k.bind.batches[k.batch][k.row]
  <2>1. k.batch <= Len(k.bind.batches)
    BY <1>3 DEF ExecuteRow
  <2>2. r \in Rows /\ r \in RowsOf(k.bind)
    BY <1>1, <2>1, RowsOfBindings, ExecutedRow
  <2>3. Writes(c, {r}) /\ UNCHANGED <<driver, caller, stmt>>
    BY <1>1, <1>3 DEF ExecuteRow, Proceeds, Writes
  <2>4. call' = [call EXCEPT ![s] = [Advance(k) EXCEPT !.wrote = @ \cup {r}]]
    BY <1>3 DEF ExecuteRow
  <2> HIDE DEF r
  <2>5. Advance(k).bind = k.bind /\ Advance(k).wrote = k.wrote
    BY <1>1 DEF Advance, CallType
  <2>6. /\ [Advance(k) EXCEPT !.wrote = @ \cup {r}].bind = k.bind
        /\ [Advance(k) EXCEPT !.wrote = @ \cup {r}].wrote = k.wrote \cup {r}
    BY <1>1, <2>5 DEF Advance, CallType
  <2>7. /\ call'[s].bind = k.bind /\ call'[s].wrote \subseteq k.wrote \cup {r}
        /\ \A t \in Statements \ {s} : call'[t] = call[t]
    BY <2>4, <2>6 DEF TxnInv, CallTypes
  <2>8. OwnRow(c, r)
    BY <1>0, <2>2 DEF InCall
  <2>9. Ledger'
    BY <1>1, <2>2, <2>3, <2>8, RowLedger
  <2>10. Held' /\ InCall'
    BY <1>0, <2>2, <2>3, <2>7, CallParameters
  <2> QED
    BY <2>9, <2>10
<1>4. CASE PrepareRows(s)
  <2>1. /\ call'[s].bind = k.bind /\ call'[s].wrote = k.wrote
        /\ \A t \in Statements \ {s} : call'[t] = call[t]
    BY <1>1, <1>4 DEF PrepareRows, CallType, TxnInv, CallTypes
  <2>2. UNCHANGED stmt /\ UNCHANGED ledger
    BY <1>4 DEF PrepareRows, connVars, driver, ledger
  <2> QED
    BY <1>0, <2>1, <2>2, QuietLedger, QuietParameters
<1>5. CASE BoundReturns(s)
  BY <1>0, <1>5, ReturnLedger, ReturnParameters DEF BoundReturns
<1>6. CASE BoundRefused(s) \/ BoundFails(s) \/ (BoundMismatch(s) /\ UNCHANGED session)
  <2>1. UNCHANGED <<driver, stmt>> /\ Failed(c) /\ (UNCHANGED session \/ WriteFails(c))
    BY <1>6 DEF BoundRefused, BoundFails, BoundMismatch
  <2>2. call' = [call EXCEPT ![s] = None]
    BY <1>6 DEF BoundRefused, BoundFails, BoundMismatch
  <2>3. \A t \in Statements : call'[t] # None => call'[t] = call[t] /\ stmt[t].connection # c
    BY <1>0, <2>2 DEF InCall, TxnInv, CallTypes
  <2> QED
    BY <1>1, <2>1, <2>3, FailureLedger, FailureParameters
<1>7. CASE BoundMismatch(s) /\ Write(c, {k.bind.batches[k.batch][k.row]})
  <2> DEFINE r == k.bind.batches[k.batch][k.row]
  <2>1. k.batch <= Len(k.bind.batches)
    BY <1>7 DEF BoundMismatch
  <2>2. r \in Rows /\ r \in RowsOf(k.bind)
    BY <1>1, <2>1, RowsOfBindings, ExecutedRow
  <2>3. Writes(c, {r}) /\ UNCHANGED <<driver, stmt>> /\ Failed(c)
    BY <1>1, <1>7 DEF BoundMismatch, Proceeds, Writes
  <2>4. call' = [call EXCEPT ![s] = None]
    BY <1>7 DEF BoundMismatch
  <2>5. call'[s] = None /\ \A t \in Statements \ {s} : call'[t] = call[t]
    BY <2>4 DEF TxnInv, CallTypes
  <2> HIDE DEF r
  <2>6. OwnRow(c, r)
    BY <1>0, <2>2 DEF InCall
  <2>7. Ledger'
    BY <1>1, <2>2, <2>3, <2>6, RowLedger
  <2>8. Held' /\ InCall'
    BY <1>0, <2>2, <2>3, <2>5, CallParameters
  <2> QED
    BY <2>7, <2>8
<1>8. BoundMismatch(s) => UNCHANGED session \/ Write(c, {k.bind.batches[k.batch][k.row]})
  BY DEF BoundMismatch
<1> QED
  BY <1>2, <1>3, <1>4, <1>5, <1>6, <1>7, <1>8 DEF BoundStep

\* Every step keeps the invariant.
LEMMA RowStep ==
  ASSUME TxnInv, RowInv, "chained" \notin Habits, [Next]_vars
  PROVE  RowInv'
<1> USE DEF RowInv
<1>1. CASE UNCHANGED <<ledger, stmt, call>>
  BY <1>1, QuietLedger, QuietParameters
<1>2. CASE DatabaseStep
  BY <1>1, <1>2 DEF DatabaseStep, stmtVars, ledger, DatabaseNew, DatabaseSetOption, DatabaseInit,
                    DatabaseRelease
<1>3. ASSUME NEW c \in Connections, ConnectionStep(c)
      PROVE  RowInv'
  <2>1. LifeStep(c) /\ ~Busy(c) /\ UNCHANGED <<stmt, call>>
    BY <1>3 DEF ConnectionStep, LifeStep, MayUse
  <2> QED
    BY <2>1, LifeLedger, LifeParameters
<1>4. ASSUME NEW c \in Connections, SessionStep(c)
      PROVE  RowInv'
  <2>1. LifeStep(c) /\ SessionLost(c) /\ UNCHANGED <<stmt, call>>
    BY <1>4 DEF SessionStep, LifeStep
  <2> QED
    BY <2>1, LifeLedger, LifeParameters
<1>5. ASSUME NEW s \in Statements, StreamStep(s)
      PROVE  RowInv'
  BY <1>1, <1>5 DEF StreamStep, GetNextEnd, GetNextFaults, GetNext, StreamRelease, connVars,
                    driver, ledger
<1>6. CASE UNCHANGED vars
  BY <1>1, <1>6 DEF vars, stmtVars, connVars, driver, ledger
<1> QED
  BY <1>2, <1>3, <1>4, <1>5, <1>6, StatementRows, CallRows DEF Next

\* What Commit, enabling autocommit and updates in autocommit mode reported as
\* done is in the database, and what Rollback reported as undone is not: for any
\* number of connections, statements and rows, through failed statements and
\* rows, lost sessions and lost answers, as long as callers do not rely on the
\* transaction after Commit or Rollback.
THEOREM ReportsStayTrue ==
  ASSUME "chained" \notin Habits
  PROVE  Spec => []ReportsAreTrue
<1>1. Init => RowInv
  BY RowInit
<1>2. TxnInv /\ RowInv /\ [Next]_vars => RowInv'
  BY RowStep
<1>3. RowInv => ReportsAreTrue
  BY DEF RowInv, Ledger
<1> QED
  BY <1>1, <1>2, <1>3, TransactionInvariance, PTL DEF Spec

-----------------------------------------------------------------------------
(* Counting rows.                                                          *)

\* The call has been through this row of its parameters.
Done(k, i, j) == i < k.batch \/ (i = k.batch /\ j < k.row)

\* What a call has written are the rows it has been through, and it has counted
\* those of the batches before the one in progress.
Counted(k) ==
  LET b == k.bind.batches
  IN /\ k.bind # None /\ Table \notin RowsOf(k.bind)
     /\ k.phase # "rows" => k.row = 1 /\ k.affected = 0
     /\ k.batch > Len(b) => k.row = 1
     /\ IsFiniteSet(k.wrote \ {Table})
     /\ Cardinality(k.wrote \ {Table}) = k.affected + (k.row - 1)
     /\ \A r \in k.wrote \ {Table} :
          \E i \in 1..Len(b) : \E j \in 1..Len(b[i]) : r = b[i][j] /\ Done(k, i, j)

CountInv ==
  /\ CallTypes
  /\ told \in [Statements -> [rows : SUBSET Rows, affected : Int]]
  /\ \A s \in Statements :
       Table \notin RowsOf(stmt[s].bind) /\ (call[s] # None => Counted(call[s]))
  /\ AffectedIsTrue

LEMMA CountInit == Init => CountInv
<1> SUFFICES ASSUME Init PROVE CountInv
  OBVIOUS
<1>1. CallTypes
  BY TxnInit DEF TxnInv
<1>2. told = [s \in Statements |-> [rows |-> {}, affected |-> 0]]
  BY DEF Init, Nothing
<1>3. told \in [Statements -> [rows : SUBSET Rows, affected : Int]] /\ AffectedIsTrue
  BY <1>2, FS_EmptySet, SMT DEF AffectedIsTrue
<1>4. \A s \in Statements : stmt[s].bind = None /\ call[s] = None
  BY DEF Init, NewStatement
<1> QED
  BY <1>1, <1>3, <1>4 DEF CountInv, RowsOf

\* The row that is executed was not executed before: parameters repeat none.
LEMMA ExecutedOnce ==
  ASSUME NEW k \in CallType, InBatch(k), k.batch <= Len(k.bind.batches), Counted(k)
  PROVE  k.bind.batches[k.batch][k.row] \notin k.wrote \cup {Table}
<1> DEFINE b == k.bind.batches
           r == b[k.batch][k.row]
<1>1. k.batch \in 1..Len(b) /\ k.row \in 1..Len(b[k.batch])
  BY RowsOfBindings, SMT DEF CallType, InBatch
<1>2. r # Table
  BY ExecutedRow DEF Counted
<1>3. ASSUME r \in k.wrote \ {Table} PROVE FALSE
  <2>1. PICK i \in 1..Len(b) : \E j \in 1..Len(b[i]) : r = b[i][j] /\ Done(k, i, j)
    BY <1>3 DEF Counted
  <2>2. PICK j \in 1..Len(b[i]) : r = b[i][j] /\ Done(k, i, j)
    BY <2>1
  <2>3. k.bind \in Bindings /\ k.batch \in Nat /\ k.row \in Nat
    BY DEF CallType
  <2>4. i = k.batch /\ j = k.row
    BY <1>1, <2>2, <2>3, DistinctAssumption, ZenonT(30)
  <2> QED
    BY <2>2, <2>3, <2>4, SMT DEF Done
<1> QED
  BY <1>2, <1>3

\* Executing a row keeps the count.
LEMMA CountedRow ==
  ASSUME NEW k \in CallType, InBatch(k), k.batch <= Len(k.bind.batches), Counted(k),
         k.phase = "rows"
  PROVE  Counted([Advance(k) EXCEPT !.wrote = @ \cup {k.bind.batches[k.batch][k.row]}])
<1> DEFINE b == k.bind.batches
           l == Len(b[k.batch])
           r == b[k.batch][k.row]
           n == [Advance(k) EXCEPT !.wrote = @ \cup {r}]
<1>1. k.batch \in 1..Len(b) /\ l \in Nat /\ k.row \in 1..l
  BY RowsOfBindings, SMT DEF CallType, InBatch
<1>2. r \notin k.wrote /\ r # Table
  BY ExecutedOnce
<1>3. \/ k.row < l /\ n = [k EXCEPT !.row = @ + 1, !.wrote = @ \cup {r}]
      \/ /\ k.row = l
         /\ n = [k EXCEPT !.batch = @ + 1, !.row = 1, !.affected = @ + l, !.wrote = @ \cup {r}]
  <2>1. CASE k.row < l
    BY <2>1 DEF Advance, CallType
  <2>2. CASE ~(k.row < l)
    <3>1. k.row = l
      BY <1>1, <2>2, SMT
    <3>2. n = [k EXCEPT !.batch = @ + 1, !.row = 1, !.affected = @ + l, !.wrote = @ \cup {r}]
      BY <2>2 DEF Advance, CallType
    <3> QED
      BY <3>1, <3>2
  <2> QED
    BY <2>1, <2>2
<1>4. /\ n.bind = k.bind /\ n.phase = "rows" /\ n.wrote = k.wrote \cup {r}
      /\ \/ n.batch = k.batch /\ n.row = k.row + 1 /\ n.affected = k.affected
         \/ k.row = l /\ n.batch = k.batch + 1 /\ n.row = 1 /\ n.affected = k.affected + l
  <2> HIDE DEF n, r, l
  <2> QED
    BY <1>3, ZenonT(30) DEF CallType
<1>5. n.wrote \ {Table} = (k.wrote \ {Table}) \cup {r}
  BY <1>2, <1>4
<1>6. k.affected \in Int /\ k.row \in Int /\ k.batch \in Int
  BY SMT DEF CallType
<1> HIDE DEF n
<1>7. IsFiniteSet(n.wrote \ {Table}) /\ Cardinality(n.wrote \ {Table}) = n.affected + (n.row - 1)
  <2> DEFINE w == k.wrote \ {Table}
  <2>1. IsFiniteSet(w) /\ Cardinality(w) = k.affected + (k.row - 1) /\ r \notin w
    BY <1>2 DEF Counted
  <2> HIDE DEF w, r
  <2>2. IsFiniteSet(w \cup {r}) /\ Cardinality(w \cup {r}) = Cardinality(w) + 1
    BY <2>1, FS_AddElement
  <2>3. n.affected + (n.row - 1) = k.affected + (k.row - 1) + 1
    BY <1>1, <1>4, <1>6, SMT
  <2> QED
    BY <1>5, <2>1, <2>2, <2>3 DEF w
<1>8. \A i \in 1..Len(b) : \A j \in 1..Len(b[i]) : Done(k, i, j) => Done(n, i, j)
  BY <1>1, <1>4, <1>6, RowsOfBindings, SMT DEF Done
<1>9. Done(n, k.batch, k.row)
  BY <1>1, <1>4, <1>6, SMT DEF Done
<1>10. ASSUME NEW x \in n.wrote \ {Table}
       PROVE  \E i \in 1..Len(b) : \E j \in 1..Len(b[i]) : x = b[i][j] /\ Done(n, i, j)
  <2>1. CASE x = r
    BY <1>1, <1>9, <2>1
  <2>2. CASE x \in k.wrote \ {Table}
    <3>1. \E i \in 1..Len(b) : \E j \in 1..Len(b[i]) : x = b[i][j] /\ Done(k, i, j)
      BY <2>2 DEF Counted
    <3> QED
      BY <1>8, <3>1
  <2> QED
    BY <1>5, <1>10, <2>1, <2>2
<1>11. n.batch > Len(b) => n.row = 1
  BY <1>1, <1>4, <1>6, SMT
<1>12. n.bind # None /\ Table \notin RowsOf(n.bind) /\ n.bind.batches = b
  BY <1>4 DEF Counted
<1>13. n.phase = "rows"
  BY <1>4
<1>14. Counted(n)
  <2> HIDE DEF b
  <2> QED
    BY <1>7, <1>10, <1>11, <1>12, <1>13 DEF Counted
<1> QED
  BY <1>14 DEF n

\* Steps that report nothing, and leave the calls and parameters alone.
LEMMA CountAlone ==
  ASSUME CountInv, CallTypes', told' = told,
         \A s \in Statements : stmt'[s].bind \in {stmt[s].bind, None},
         \A s \in Statements : call'[s] \in {call[s], None}
  PROVE  CountInv'
<1>1. AffectedIsTrue'
  BY DEF CountInv, AffectedIsTrue
<1>2. ASSUME NEW s \in Statements
      PROVE  Table \notin RowsOf(stmt'[s].bind)
  BY SMT DEF CountInv, RowsOf
<1>3. ASSUME NEW s \in Statements, call'[s] # None
      PROVE  Counted(call'[s])
  BY <1>3 DEF CountInv
<1> QED
  BY <1>1, <1>2, <1>3 DEF CountInv

\* Steps of a call that goes on, or starts.
LEMMA CountGoesOn ==
  ASSUME CountInv, CallTypes', told' = told, NEW s \in Statements, NEW k, Counted(k),
         call' = [call EXCEPT ![s] = k],
         \A t \in Statements : stmt'[t].bind \in {stmt[t].bind, None}
  PROVE  CountInv'
<1>1. AffectedIsTrue'
  BY DEF CountInv, AffectedIsTrue
<1>2. ASSUME NEW t \in Statements
      PROVE  Table \notin RowsOf(stmt'[t].bind)
  BY DEF CountInv, RowsOf
<1>3. ASSUME NEW t \in Statements, call'[t] # None
      PROVE  Counted(call'[t])
  <2>1. call'[t] = IF t = s THEN k ELSE call[t]
    BY DEF CountInv, CallTypes
  <2> QED
    BY <1>3, <2>1 DEF CountInv
<1> QED
  BY <1>1, <1>2, <1>3 DEF CountInv

\* Steps that report.
LEMMA CountReported ==
  ASSUME CountInv, CallTypes', NEW s \in Statements,
         NEW rows \in SUBSET Rows, NEW n \in Int, n = Cardinality(rows),
         told' = [told EXCEPT ![s] = [rows |-> rows, affected |-> n]],
         \A t \in Statements : stmt'[t].bind \in {stmt[t].bind, None},
         \A t \in Statements : call'[t] \in {call[t], None}
  PROVE  CountInv'
<1>1. told' \in [Statements -> [rows : SUBSET Rows, affected : Int]]
  BY DEF CountInv
<1>2. AffectedIsTrue'
  BY DEF CountInv, AffectedIsTrue
<1>3. ASSUME NEW t \in Statements
      PROVE  Table \notin RowsOf(stmt'[t].bind)
  BY SMT DEF CountInv, RowsOf
<1>4. ASSUME NEW t \in Statements, call'[t] # None
      PROVE  Counted(call'[t])
  BY <1>4 DEF CountInv
<1> QED
  BY <1>1, <1>2, <1>3, <1>4 DEF CountInv

LEMMA CountCall ==
  ASSUME CountInv, CallTypes', NEW s \in Statements, BoundStep(s)
  PROVE  CountInv'
<1> DEFINE k == call[s]
<1>1. stmt' = stmt /\ k # None
  BY DEF BoundStep, CreateBulkTable, PrepareRows, ExecuteRow, BoundMismatch, BoundReturns,
         BoundRefused, BoundFails, Proceeds
<1>2. k \in CallType /\ InBatch(k) /\ Counted(k)
  BY <1>1 DEF CountInv, CallTypes
<1>3. call \in [Statements -> CallType \cup {None}]
  BY DEF CountInv, CallTypes
<1>4. CASE CreateBulkTable(s)
  <2> DEFINE n == [k EXCEPT !.phase = "types", !.wrote = {Table}]
  <2>1. call' = [call EXCEPT ![s] = n] /\ told' = told /\ k.phase = "create"
    BY <1>3, <1>4 DEF CreateBulkTable, Proceeds
  <2>2. /\ n.bind = k.bind /\ n.batch = k.batch /\ n.row = k.row /\ n.affected = k.affected
        /\ n.wrote \ {Table} = {}
    BY <1>2 DEF CallType
  <2>3. k.row = 1 /\ k.affected = 0 /\ k.bind # None /\ Table \notin RowsOf(k.bind)
    BY <1>2, <2>1 DEF Counted
  <2>4. Cardinality({}) = 0 /\ IsFiniteSet({})
    BY FS_EmptySet
  <2> HIDE DEF n, k
  <2>5. Counted(n)
    <3>1. n.row = 1 /\ n.affected = 0 /\ n.bind # None /\ Table \notin RowsOf(n.bind)
      BY <2>2, <2>3
    <3>2. Cardinality(n.wrote \ {Table}) = 0 /\ IsFiniteSet(n.wrote \ {Table})
      BY <2>2, <2>4
    <3>3. Cardinality(n.wrote \ {Table}) = n.affected + (n.row - 1)
      BY <3>1, <3>2, SMT
    <3> QED
      BY <2>2, <3>1, <3>2, <3>3 DEF Counted
  <2> QED
    BY <1>1, <2>1, <2>5, CountGoesOn
<1>5. CASE PrepareRows(s)
  <2> DEFINE n == [k EXCEPT !.phase = "rows"]
  <2>1. call' = [call EXCEPT ![s] = n] /\ told' = told
    BY <1>3, <1>5 DEF PrepareRows
  <2>2. /\ n.bind = k.bind /\ n.batch = k.batch /\ n.row = k.row /\ n.affected = k.affected
        /\ n.wrote = k.wrote /\ n.phase = "rows"
    BY <1>2 DEF CallType
  <2> HIDE DEF n, k
  <2>3. Counted(n)
    BY <1>2, <2>2, SMT DEF Counted, Done
  <2> QED
    BY <1>1, <2>1, <2>3, CountGoesOn
<1>6. CASE ExecuteRow(s)
  <2> DEFINE n == [Advance(k) EXCEPT !.wrote = @ \cup {k.bind.batches[k.batch][k.row]}]
  <2>1. /\ call' = [call EXCEPT ![s] = n] /\ told' = told
        /\ k.phase = "rows" /\ k.batch <= Len(k.bind.batches)
    BY <1>6 DEF ExecuteRow, Proceeds
  <2> HIDE DEF k
  <2>2. Counted(n)
    BY <1>2, <2>1, CountedRow
  <2> HIDE DEF n
  <2> QED
    BY <1>1, <2>1, <2>2, CountGoesOn
<1>7. CASE BoundReturns(s)
  <2> DEFINE rows == k.wrote \ {Table}
  <2>1. /\ told' = [told EXCEPT ![s] = [rows |-> rows, affected |-> k.affected]]
        /\ \A t \in Statements : call'[t] \in {call[t], None}
        /\ k.batch > Len(k.bind.batches)
    BY <1>3, <1>7 DEF BoundReturns
  <2>2. rows \in SUBSET Rows /\ k.affected \in Int
    BY <1>2 DEF CallType
  <2> HIDE DEF k
  <2>3. k.affected = Cardinality(rows)
    BY <1>2, <2>1, <2>2, SMT DEF Counted
  <2> HIDE DEF rows
  <2> QED
    BY <1>1, <2>1, <2>2, <2>3, CountReported
<1>8. CASE BoundMismatch(s) \/ BoundRefused(s) \/ BoundFails(s)
  <2>1. told' = told /\ \A t \in Statements : call'[t] \in {call[t], None}
    BY <1>3, <1>8 DEF BoundMismatch, BoundRefused, BoundFails
  <2> QED
    BY <1>1, <2>1, CountAlone
<1> QED
  BY <1>4, <1>5, <1>6, <1>7, <1>8 DEF BoundStep

LEMMA CountStatement ==
  ASSUME CountInv, CallTypes', NEW s \in Statements, StatementStep(s)
  PROVE  CountInv'
<1>1. /\ stmt \in [Statements -> StatementType] /\ call \in [Statements -> CallType \cup {None}]
      /\ stmt[s] \in StatementType
  BY DEF CountInv, CallTypes
<1>2. CASE \E c \in Connections : StatementNew(s, c)
  <2>1. told' = told /\ call' = call /\ \A t \in Statements : stmt'[t].bind \in {stmt[t].bind, None}
    BY <1>1, <1>2, SMT DEF StatementNew, NewStatement
  <2> QED
    BY <2>1, CountAlone
<1>3. CASE \/ \E q \in Queries \cup {"update"} : SetSqlQuery(s, q)
           \/ SetTarget(s) \/ Prepare(s)
           \/ \E append \in BOOLEAN : SetMode(s, append)
  <2>1. told' = told /\ call' = call /\ \A t \in Statements : t # s => stmt'[t] = stmt[t]
    BY <1>1, <1>3 DEF SetSqlQuery, SetTarget, Prepare, SetMode
  <2>2. stmt'[s].bind = stmt[s].bind
    <3>1. CASE \E q \in Queries \cup {"update"} : SetSqlQuery(s, q)
      <4>1. PICK q : SetSqlQuery(s, q)
        BY <3>1
      <4>2. stmt'[s] = [stmt[s] EXCEPT !.query = q, !.target = FALSE, !.prepared = FALSE]
        BY <1>1, <4>1 DEF SetSqlQuery
      <4> QED
        BY <1>1, <4>2 DEF StatementType
    <3>2. CASE SetTarget(s)
      <4>1. stmt'[s] = [stmt[s] EXCEPT !.query = None, !.target = TRUE]
        BY <1>1, <3>2 DEF SetTarget
      <4> QED
        BY <1>1, <4>1 DEF StatementType
    <3>3. CASE Prepare(s)
      BY <1>1, <3>3 DEF Prepare, StatementType
    <3>4. CASE \E append \in BOOLEAN : SetMode(s, append)
      BY <1>1, <3>4 DEF SetMode, StatementType
    <3> QED
      BY <1>3, <3>1, <3>2, <3>3, <3>4
  <2> QED
    BY <2>1, <2>2, CountAlone
<1>4. CASE \E b \in Bindings : Bind(s, b)
  <2>1. PICK b \in Bindings : Bind(s, b)
    BY <1>4
  <2>2. Table \notin RowsOf(b)
    BY <2>1 DEF Bind, Unused, CountInv
  <2>3. \A t \in Statements : stmt'[t].bind = IF t = s THEN b ELSE stmt[t].bind
    BY <1>1, <2>1 DEF Bind, StatementType
  <2>4. told' = told /\ call' = call
    BY <2>1 DEF Bind
  <2>5. AffectedIsTrue'
    BY <2>4 DEF CountInv, AffectedIsTrue
  <2>6. ASSUME NEW t \in Statements PROVE Table \notin RowsOf(stmt'[t].bind)
    BY <2>2, <2>3 DEF CountInv
  <2> QED
    BY <2>4, <2>5, <2>6 DEF CountInv
<1>5. CASE StatementRelease(s)
  <2>1. /\ told' = [told EXCEPT ![s] = [rows |-> {}, affected |-> 0]] /\ call' = call
        /\ \A t \in Statements : stmt'[t].bind \in {stmt[t].bind, None}
    BY <1>1, <1>5 DEF StatementRelease, NewStatement, Nothing
  <2>2. 0 = Cardinality({}) /\ {} \in SUBSET Rows /\ 0 \in Int
    BY FS_EmptySet, SMT
  <2>3. \A t \in Statements : call'[t] \in {call[t], None}
    BY <2>1
  <2> QED
    BY <2>1, <2>2, <2>3, CountReported
<1>6. CASE \/ \E stream \in BOOLEAN :
                ExecuteRefused(s, stream) \/ ExecuteMismatch(s, stream) \/ ExecuteFails(s, stream)
           \/ ExecuteQuery(s) \/ ExecuteUnknownType(s) \/ ExecuteUpdate(s)
  <2>1. stmt' = stmt /\ told' = told /\ call' = call
    BY <1>6 DEF ExecuteRefused, ExecuteMismatch, ExecuteFails, ExecuteQuery, ExecuteUnknownType,
                ExecuteUpdate
  <2> QED
    BY <2>1, CountAlone
<1>7. CASE BoundBegin(s)
  <2> DEFINE k == [phase |-> IF stmt[s].prepared \/ stmt[s].append THEN "types" ELSE "create",
                   ingest |-> ~stmt[s].prepared, bind |-> stmt[s].bind, wrote |-> {},
                   batch |-> 1, row |-> 1, affected |-> 0]
  <2>1. /\ call' = [call EXCEPT ![s] = k] /\ told' = told
        /\ \A t \in Statements : stmt'[t].bind \in {stmt[t].bind, None}
        /\ stmt[s].bind # None
    BY <1>1, <1>7 DEF BoundBegin, StatementType
  <2>2. k.bind # None /\ Table \notin RowsOf(k.bind) /\ k.row = 1 /\ k.affected = 0
    BY <2>1 DEF CountInv
  <2>3. k.wrote \ {Table} = {}
    OBVIOUS
  <2> HIDE DEF k
  <2>4. Cardinality(k.wrote \ {Table}) = k.affected + (k.row - 1) /\ IsFiniteSet(k.wrote \ {Table})
    <3>1. Cardinality({}) = 0 /\ IsFiniteSet({})
      BY FS_EmptySet
    <3> QED
      BY <2>2, <2>3, <3>1, SMT
  <2>5. Counted(k)
    BY <2>2, <2>3, <2>4 DEF Counted
  <2> QED
    BY <2>1, <2>5, CountGoesOn
<1> QED
  BY <1>2, <1>3, <1>4, <1>5, <1>6, <1>7 DEF StatementStep

LEMMA AffectedStep == CountInv /\ [Next]_vars => CountInv'
<1> SUFFICES ASSUME CountInv, [Next]_vars PROVE CountInv'
  OBVIOUS
<1>1. CallTypes'
  BY CallTypesStep DEF CountInv
<1>2. CASE UNCHANGED <<stmt, call, told>>
  BY <1>1, <1>2, CountAlone
<1>3. ASSUME NEW s \in Statements, StreamStep(s)
      PROVE  UNCHANGED <<stmt, call, told>>
  BY <1>3 DEF StreamStep, GetNextEnd, GetNextFaults, GetNext, StreamRelease
<1>4. ASSUME NEW c \in Connections, ConnectionStep(c) \/ SessionStep(c)
      PROVE  UNCHANGED <<stmt, call, told>>
  BY <1>4 DEF ConnectionStep, SessionStep
<1>5. DatabaseStep \/ UNCHANGED vars => UNCHANGED <<stmt, call, told>>
  BY DEF DatabaseStep, stmtVars, vars
<1> QED
  BY <1>1, <1>2, <1>3, <1>4, <1>5, CountStatement, CountCall DEF Next

\* rows_affected of an execution of bound rows that succeeded is the number of
\* rows that the server executed for it, for any number of batches and rows:
\* Execute adds a batch's length after its last row, whatever other statements
\* and connections do between the rows.
THEOREM AffectedStaysTrue == Spec => []AffectedIsTrue
<1>1. CountInv => AffectedIsTrue
  BY DEF CountInv
<1> QED
  BY CountInit, AffectedStep, <1>1, PTL DEF Spec
=============================================================================
