--------------------------- MODULE PostgresProofs ---------------------------
(***************************************************************************)
(* Proofs about the transactions and the streams of the PostgreSQL driver, *)
(* for any number of connections, statements, rows, queries and results,   *)
(* and whatever fails.                                                     *)
(*                                                                         *)
(* For transactions, a step of a statement is first reduced to what it     *)
(* does to a connection; results, streams and COPY play no part.  For      *)
(* streams, the messages of a query are followed from the session that     *)
(* sends them, through the tuple reader, to the rows a stream has handed   *)
(* out and those it is still due.                                          *)
(***************************************************************************)
EXTENDS PostgresStatement, FiniteSetTheorems, TLAPS

\* A leaf that names no prover is for these, in this order.
USE Zenon, SMT, Z3

-----------------------------------------------------------------------------
(* The types of what the proofs speak of.                                  *)

StatementType ==
  [connection : Connections \cup {None}, query : Queries \cup {"update", None},
   prepared : BOOLEAN, bind : Bindings \cup {None}, target : BOOLEAN, append : BOOLEAN]

CallType ==
  [phase : {"create", "types", "rows"}, ingest : BOOLEAN, bind : Bindings,
   wrote : SUBSET Rows, batch : Nat \ {0}, row : Nat \ {0}, affected : Int]

\* The row that is executed next is one of its batch.
InBatch(k) == k.batch <= Len(k.bind.batches) => k.row <= Len(k.bind.batches[k.batch])

CallTypes ==
  /\ stmt \in [Statements -> StatementType]
  /\ call \in [Statements -> CallType \cup {None}]
  /\ \A s \in Statements :
       call[s] # None =>
         call[s] \in CallType /\ InBatch(call[s]) /\ stmt[s].connection \in Connections

-----------------------------------------------------------------------------
(* The steps that bound rows and statements make.                          *)

\* The rows of parameters are rows.
LEMMA RowsOfBindings ==
  ASSUME NEW k \in CallType, InBatch(k), k.batch <= Len(k.bind.batches)
  PROVE  /\ k.bind.batches[k.batch] \in Seq(Rows) \ {<<>>}
         /\ k.bind.batches[k.batch][k.row] \in Rows
<1>1. k.bind.batches \in Seq(Seq(Rows) \ {<<>>})
  BY BindingsAssumption DEF CallType
<1>2. k.batch \in 1..Len(k.bind.batches)
  BY <1>1, SMT DEF CallType
<1>3. k.bind.batches[k.batch] \in Seq(Rows) \ {<<>>}
  BY <1>1, <1>2, SMT
<1>4. k.row \in 1..Len(k.bind.batches[k.batch])
  BY <1>3, SMT DEF CallType, InBatch
<1> QED
  BY <1>3, <1>4, SMT

\* Advance moves to the next row of the parameters.
LEMMA AdvanceType ==
  ASSUME NEW k \in CallType, InBatch(k), k.batch <= Len(k.bind.batches),
         NEW r \in Rows
  PROVE  /\ [Advance(k) EXCEPT !.wrote = @ \cup {r}] \in CallType
         /\ InBatch([Advance(k) EXCEPT !.wrote = @ \cup {r}])
<1> DEFINE b == k.bind.batches
           l == Len(b[k.batch])
<1>1. b \in Seq(Seq(Rows) \ {<<>>})
  BY BindingsAssumption DEF CallType
<1>2. b[k.batch] \in Seq(Rows) /\ l \in Nat /\ k.row <= l
  BY RowsOfBindings, SMT DEF InBatch
<1>3. CASE k.row < l
  <2>1. [Advance(k) EXCEPT !.wrote = @ \cup {r}] = [k EXCEPT !.row = @ + 1, !.wrote = @ \cup {r}]
    BY <1>3 DEF Advance, CallType
  <2> DEFINE n == [k EXCEPT !.row = @ + 1, !.wrote = @ \cup {r}]
  <2>2. n \in CallType
    <3>1. k.row + 1 \in Nat \ {0} /\ k.wrote \cup {r} \in SUBSET Rows
      BY SMT DEF CallType
    <3> QED
      BY <3>1 DEF CallType
  <2>3. n.batch = k.batch /\ n.bind = k.bind /\ n.row = k.row + 1
    BY DEF CallType
  <2>4. k.row + 1 <= l
    BY <1>2, <1>3, SMT DEF CallType
  <2>5. InBatch(n)
    BY <2>3, <2>4 DEF InBatch
  <2> QED
    BY <2>1, <2>2, <2>5
<1>4. CASE ~(k.row < l)
  <2>1. [Advance(k) EXCEPT !.wrote = @ \cup {r}] =
          [k EXCEPT !.batch = @ + 1, !.row = 1, !.affected = @ + l, !.wrote = @ \cup {r}]
    BY <1>4 DEF Advance, CallType
  <2>2. k.batch + 1 <= Len(b) => 1 <= Len(b[k.batch + 1])
    <3> SUFFICES ASSUME k.batch + 1 <= Len(b) PROVE 1 <= Len(b[k.batch + 1])
      OBVIOUS
    <3>1. b[k.batch + 1] \in Seq(Rows) \ {<<>>}
      BY <1>1, SMT DEF CallType
    <3> QED
      BY <3>1, SMT
  <2> DEFINE n == [k EXCEPT !.batch = @ + 1, !.row = 1, !.affected = @ + l, !.wrote = @ \cup {r}]
  <2>3. n \in CallType
    <3>1. /\ k.batch + 1 \in Nat \ {0} /\ 1 \in Nat \ {0} /\ k.affected + l \in Int
          /\ k.wrote \cup {r} \in SUBSET Rows
      BY <1>2, SMT DEF CallType
    <3> QED
      BY <3>1 DEF CallType
  <2>4. n.batch = k.batch + 1 /\ n.bind = k.bind /\ n.row = 1
    BY DEF CallType
  <2>5. InBatch(n)
    BY <2>2, <2>4 DEF InBatch
  <2> QED
    BY <2>1, <2>3, <2>5
<1> QED
  BY <1>3, <1>4
\* A statement with a call in progress takes no other call.
LEMMA CallsAreFree ==
  ASSUME NEW s \in Statements, Calls(s)
  PROVE  call[s] = None
BY DEF Calls, Busy, On

\* The states of statements and calls keep their types.
LEMMA CallTypesStep ==
  ASSUME CallTypes, [Next]_vars
  PROVE  CallTypes'
<1> USE DEF CallTypes
<1>1. CASE UNCHANGED <<stmt, call>>
  BY <1>1
<1>2. ASSUME NEW s \in Statements, StatementStep(s)
      PROVE  CallTypes'
  <2>1. CASE \E c \in Connections : StatementNew(s, c)
    BY <2>1, SMT DEF StatementNew, NewStatement, StatementType
  <2>2. CASE \E q \in Queries \cup {"update"} : SetSqlQuery(s, q)
    <3>1. PICK q \in Queries \cup {"update"} : SetSqlQuery(s, q)
      BY <2>2
    <3>2. stmt' = [stmt EXCEPT ![s] = [@ EXCEPT !.query = q, !.target = FALSE, !.prepared = FALSE]]
      BY <3>1 DEF SetSqlQuery, StatementType
    <3>3. call' = call
      BY <3>1 DEF SetSqlQuery
    <3> QED
      BY <3>2, <3>3, ZenonT(30) DEF StatementType
  <2>3. CASE SetTarget(s)
    <3>1. stmt' = [stmt EXCEPT ![s] = [@ EXCEPT !.query = None, !.target = TRUE]] /\ call' = call
      BY <2>3 DEF SetTarget, StatementType
    <3> QED
      BY <3>1, ZenonT(30) DEF StatementType
  <2>4. CASE Prepare(s)
    BY <2>4, ZenonT(30) DEF Prepare, StatementType
  <2>5. CASE StatementRelease(s)
    BY <2>5, CallsAreFree DEF StatementRelease, NewStatement, StatementType
  <2>6. CASE \E append \in BOOLEAN : SetMode(s, append)
    BY <2>6, SMT DEF SetMode, StatementType
  <2>7. CASE \E b \in Bindings : Bind(s, b)
    BY <2>7, SMT DEF Bind, StatementType
  <2>8. CASE \E stream \in BOOLEAN :
               ExecuteRefused(s, stream) \/ ExecuteMismatch(s, stream) \/ ExecuteFails(s, stream)
    BY <2>8, <1>1 DEF ExecuteRefused, ExecuteMismatch, ExecuteFails
  <2>9. CASE ExecuteQuery(s) \/ ExecuteUnknownType(s) \/ ExecuteUpdate(s)
    BY <2>9, <1>1 DEF ExecuteQuery, ExecuteUnknownType, ExecuteUpdate
  <2>10. CASE BoundBegin(s)
    <3> DEFINE k == call'[s]
    <3>1. /\ stmt[s].bind \in Bindings /\ stmt[s].connection \in Connections
      BY <2>10 DEF BoundBegin, Executes, Calls, StatementType
    <3>2. k = [phase |-> IF stmt[s].prepared \/ stmt[s].append THEN "types" ELSE "create",
               ingest |-> ~stmt[s].prepared, bind |-> stmt[s].bind, wrote |-> {},
               batch |-> 1, row |-> 1, affected |-> 0]
      BY <2>10 DEF BoundBegin
    <3>3. k \in CallType
      BY <3>1, <3>2, SMT DEF CallType, StatementType
    <3>4. InBatch(k)
      <4>1. stmt[s].bind.batches \in Seq(Seq(Rows) \ {<<>>})
        BY <3>1, BindingsAssumption
      <4>2. ASSUME 1 <= Len(stmt[s].bind.batches)
            PROVE  1 <= Len(stmt[s].bind.batches[1])
        <5>1. stmt[s].bind.batches[1] \in Seq(Rows) \ {<<>>}
          BY <4>1, <4>2, SMT
        <5> QED
          BY <5>1, SMT
      <4> QED
        BY <4>2, <3>2, SMT DEF InBatch
    <3>5. call' = [call EXCEPT ![s] = k] /\ stmt' = [stmt EXCEPT ![s].bind = None]
      BY <2>10 DEF BoundBegin
    <3> HIDE DEF k
    <3> QED
      BY <3>1, <3>3, <3>4, <3>5, SMT DEF StatementType
  <2> QED
    BY <1>2, <2>1, <2>2, <2>3, <2>4, <2>5, <2>6, <2>7, <2>8, <2>9, <2>10 DEF StatementStep
<1>3. ASSUME NEW s \in Statements, BoundStep(s)
      PROVE  CallTypes'
  <2> DEFINE k == call'[s]
  <2>1. CASE BoundMismatch(s) \/ BoundReturns(s) \/ BoundRefused(s) \/ BoundFails(s)
    BY <2>1 DEF BoundMismatch, BoundReturns, BoundRefused, BoundFails
  <2>2. ASSUME k \in CallType, InBatch(k), stmt[s].connection \in Connections,
               call' = [call EXCEPT ![s] = k], stmt' = stmt
        PROVE  CallTypes'
    <3> HIDE DEF k
    <3> QED
      BY <2>2
  <2>3. CASE CreateBulkTable(s)
    <3>1. call[s] \in CallType /\ InBatch(call[s]) /\ stmt[s].connection \in Connections
      BY <2>3 DEF CreateBulkTable, Proceeds
    <3>2. k = [call[s] EXCEPT !.phase = "types", !.wrote = {Table}]
      BY <2>3 DEF CreateBulkTable
    <3>3. k \in CallType /\ InBatch(k)
      <4>1. k \in CallType
        <5>1. {Table} \in SUBSET Rows
          BY BindingsAssumption
        <5> QED
          BY <3>1, <3>2, <5>1 DEF CallType
      <4>2. k.bind = call[s].bind /\ k.batch = call[s].batch /\ k.row = call[s].row
        BY <3>1, <3>2 DEF CallType
      <4> QED
        BY <3>1, <4>1, <4>2 DEF InBatch
    <3>4. call' = [call EXCEPT ![s] = k] /\ stmt' = stmt
      BY <2>3 DEF CreateBulkTable
    <3> QED
      BY <2>2, <3>1, <3>3, <3>4
  <2>4. CASE PrepareRows(s)
    <3>1. call[s] \in CallType /\ InBatch(call[s]) /\ stmt[s].connection \in Connections
      BY <2>4 DEF PrepareRows, Proceeds
    <3>2. k = [call[s] EXCEPT !.phase = "rows"]
      BY <2>4 DEF PrepareRows
    <3>3. k \in CallType /\ InBatch(k)
      BY <3>1, <3>2 DEF CallType, InBatch
    <3>4. call' = [call EXCEPT ![s] = k] /\ stmt' = stmt
      BY <2>4 DEF PrepareRows, connVars
    <3> QED
      BY <2>2, <3>1, <3>3, <3>4
  <2>5. CASE ExecuteRow(s)
    <3> DEFINE r == call[s].bind.batches[call[s].batch][call[s].row]
    <3>1. call[s] \in CallType /\ InBatch(call[s]) /\ stmt[s].connection \in Connections
      BY <2>5 DEF ExecuteRow, Proceeds
    <3>2. call[s].batch <= Len(call[s].bind.batches)
      BY <2>5 DEF ExecuteRow
    <3>3. k = [Advance(call[s]) EXCEPT !.wrote = @ \cup {r}]
      BY <2>5 DEF ExecuteRow
    <3>4. k \in CallType /\ InBatch(k)
      <4>1. r \in Rows
        BY <3>1, <3>2, RowsOfBindings
      <4> HIDE DEF r
      <4> QED
        BY <3>1, <3>2, <3>3, <4>1, AdvanceType
    <3>5. call' = [call EXCEPT ![s] = k] /\ stmt' = stmt
      BY <2>5 DEF ExecuteRow
    <3> QED
      BY <2>2, <3>1, <3>4, <3>5
  <2> QED
    BY <1>3, <2>1, <2>3, <2>4, <2>5 DEF BoundStep
<1>4. CASE DatabaseStep
  BY <1>4, <1>1 DEF DatabaseStep, stmtVars
<1>5. ASSUME NEW c \in Connections, ConnectionStep(c) \/ SessionStep(c)
      PROVE  CallTypes'
  BY <1>5, <1>1 DEF ConnectionStep, SessionStep
<1>6. ASSUME NEW s \in Statements, StreamStep(s)
      PROVE  CallTypes'
  BY <1>6, <1>1 DEF StreamStep, GetNextEnd, GetNextFaults, GetNext, StreamRelease
<1>7. CASE UNCHANGED vars
  BY <1>7, <1>1 DEF vars, stmtVars
<1> QED
  BY <1>2, <1>3, <1>4, <1>5, <1>6, <1>7 DEF Next
-----------------------------------------------------------------------------
(* What a step does to the connections.                                    *)

\* A step of the connection itself, or of its session.
LifeStep(c) ==
  \/ ConnectionNew(c) \/ ConnectionInit(c) \/ ConnectionRelease(c)
  \/ Commit(c) \/ Rollback(c) \/ CommitAnswerLost(c) \/ SessionLost(c)
  \/ \E enabled \in BOOLEAN : SetAutocommit(c, enabled)

\* A new table: what is known of the earlier one does not count.
Recreates ==
  /\ undone' = undone \ {Table}
  /\ asked' = [d \in Connections |-> asked[d] \ {Table}]
  /\ UNCHANGED <<hurt, ended, acked>>

\* The server writes rows for a statement.
Writes(c, rows) ==
  /\ conn[c] = "up" /\ txn[c] # "failed" /\ MayWrite(c)
  /\ Write(c, rows)

\* A step of a statement, as its connection sees it.
Effect(c) ==
  \/ UNCHANGED session /\ (Failed(c) \/ \E rows \in SUBSET Rows : Succeeded(c, rows))
  \/ WriteFails(c) /\ Failed(c)
  \/ \E rows \in SUBSET Rows :
       /\ Writes(c, rows)
       /\ \/ Failed(c) \/ UNCHANGED caller \/ Recreates
          \/ \E known \in SUBSET rows : Succeeded(c, known)

\* Bound rows are executed where their connection may write.
Turns == \A s \in Statements : call[s] # None => MayWrite(stmt[s].connection)

\* A query that runs, and fails for its caller.
LEMMA UnseenEffect ==
  ASSUME NEW c \in Connections, NEW q, conn[c] = "up", txn[c] # "failed", RunsUnseen(c, q), Failed(c)
  PROVE  Effect(c)
<1>1. CASE UNCHANGED session
  BY <1>1 DEF Effect
<1>2. CASE \E r \in Rows : MayWrite(c) /\ Write(c, {r})
  <2>1. PICK r \in Rows : Writes(c, {r})
    BY <1>2 DEF Writes
  <2> QED
    BY <2>1 DEF Effect
<1> QED
  BY <1>1, <1>2 DEF RunsUnseen

\* A query whose result is read by COPY.
LEMMA QueryEffect ==
  ASSUME NEW c \in Connections, NEW q, NEW complete \in BOOLEAN,
         conn[c] = "up", txn[c] # "failed", RunsTwice(c, q, complete)
  PROVE  UNCHANGED <<session, caller>> \/ Effect(c)
<1>1. CASE UNCHANGED <<session, caller>> \/ (WriteFails(c) /\ Failed(c))
  BY <1>1 DEF Effect
<1>2. CASE \E r, again \in Rows : MayWrite(c) /\ Write(c, {r, again}) /\ Succeeded(c, {r})
  <2>1. PICK r \in Rows, again \in Rows : Writes(c, {r, again}) /\ Succeeded(c, {r})
    BY <1>2 DEF Writes
  <2>2. {r, again} \in SUBSET Rows /\ {r} \in SUBSET {r, again}
    OBVIOUS
  <2> QED
    BY <2>1, <2>2 DEF Effect
<1>3. CASE \E r \in Rows : MayWrite(c) /\ Write(c, {r}) /\ Failed(c)
  <2>1. PICK r \in Rows : Writes(c, {r}) /\ Failed(c)
    BY <1>3 DEF Writes
  <2>2. {r} \in SUBSET Rows
    OBVIOUS
  <2> QED
    BY <2>1, <2>2 DEF Effect
<1> QED
  BY <1>1, <1>2, <1>3 DEF RunsTwice

\* Every step is one of the database, of a connection or of a statement, or it
\* leaves the connections alone.
LEMMA Effects ==
  ASSUME CallTypes, Turns, Next
  PROVE  \/ UNCHANGED connVars
         \/ DatabaseNew \/ DatabaseSetOption \/ DatabaseInit \/ DatabaseRelease
         \/ \E c \in Connections : LifeStep(c) \/ (UNCHANGED driver /\ Effect(c))
<1> DEFINE Goal == \/ UNCHANGED connVars
                   \/ DatabaseNew \/ DatabaseSetOption \/ DatabaseInit \/ DatabaseRelease
                   \/ \E c \in Connections : LifeStep(c) \/ (UNCHANGED driver /\ Effect(c))
<1>1. CASE DatabaseStep
  BY <1>1 DEF DatabaseStep
<1>2. ASSUME NEW c \in Connections, ConnectionStep(c) \/ SessionStep(c)
      PROVE  Goal
  BY <1>2 DEF ConnectionStep, SessionStep, LifeStep
<1>3. ASSUME NEW s \in Statements, StreamStep(s)
      PROVE  UNCHANGED connVars
  BY <1>3 DEF StreamStep, GetNextEnd, GetNextFaults, GetNext, StreamRelease
<1>4. ASSUME NEW s \in Statements, NEW stream \in BOOLEAN, Sends(s, stream)
      PROVE  stmt[s].connection \in Connections
  BY <1>4 DEF Sends, Executes, Calls, CallTypes, StatementType
<1>5. ASSUME NEW s \in Statements, StatementStep(s)
      PROVE  Goal
  <2> DEFINE c == stmt[s].connection
  <2>1. CASE \E stream \in BOOLEAN : ExecuteFails(s, stream)
    BY <2>1, <1>4 DEF ExecuteFails, Effect
  <2>2. CASE \E stream \in BOOLEAN : ExecuteMismatch(s, stream)
    <3>1. c \in Connections /\ UNCHANGED driver /\ conn[c] = "up" /\ txn[c] # "failed"
          /\ RunsUnseen(c, stmt[s].query) /\ Failed(c)
      BY <2>2, <1>4 DEF ExecuteMismatch
    <3> QED
      BY <3>1, UnseenEffect
  <2>3. CASE ExecuteUnknownType(s)
    <3>1. c \in Connections /\ UNCHANGED driver /\ conn[c] = "up" /\ txn[c] # "failed"
          /\ RunsUnseen(c, stmt[s].query) /\ Failed(c)
      BY <2>3, <1>4 DEF ExecuteUnknownType
    <3> QED
      BY <3>1, UnseenEffect
  <2>4. CASE ExecuteUpdate(s)
    <3>1. PICK r \in Rows : Write(c, {r}) /\ Succeeded(c, {r})
      BY <2>4 DEF ExecuteUpdate
    <3>2. c \in Connections /\ UNCHANGED driver /\ Writes(c, {r})
      BY <2>4, <1>4, <3>1 DEF ExecuteUpdate, Writes
    <3> QED
      BY <3>1, <3>2 DEF Effect
  <2>6. CASE ExecuteQuery(s)
    <3>1. /\ c \in Connections /\ UNCHANGED driver /\ conn[c] = "up" /\ txn[c] # "failed"
          /\ \E complete \in BOOLEAN : RunsTwice(c, stmt[s].query, complete)
      BY <2>6, <1>4 DEF ExecuteQuery
    <3> QED
      BY <3>1, QueryEffect DEF connVars
  <2>5. CASE \/ (\E d \in Connections : StatementNew(s, d))
             \/ (\E q \in Queries \cup {"update"} : SetSqlQuery(s, q))
             \/ SetTarget(s) \/ Prepare(s) \/ StatementRelease(s)
             \/ (\E append \in BOOLEAN : SetMode(s, append))
             \/ (\E b \in Bindings : Bind(s, b))
             \/ (\E stream \in BOOLEAN : ExecuteRefused(s, stream))
             \/ BoundBegin(s)
    BY <2>5 DEF StatementNew, SetSqlQuery, SetTarget, Prepare, StatementRelease, SetMode, Bind,
                ExecuteRefused, BoundBegin
  <2> QED
    BY <1>5, <2>1, <2>2, <2>3, <2>4, <2>5, <2>6 DEF StatementStep
<1>6. ASSUME NEW s \in Statements, BoundStep(s)
      PROVE  Goal
  <2> DEFINE c == stmt[s].connection
  <2>1. call[s] # None
    BY <1>6 DEF BoundStep, CreateBulkTable, PrepareRows, ExecuteRow, Proceeds,
                BoundMismatch, BoundReturns, BoundRefused, BoundFails
  <2>2. call[s] \in CallType /\ InBatch(call[s]) /\ c \in Connections /\ MayWrite(c)
    BY <2>1 DEF CallTypes, Turns
  <2>3. CASE CreateBulkTable(s)
    <3>1. {Table} \in SUBSET Rows
      BY BindingsAssumption
    <3> QED
      BY <2>2, <2>3, <3>1 DEF CreateBulkTable, Proceeds, Effect, Writes, Recreates
  <2>4. CASE PrepareRows(s)
    BY <2>4 DEF PrepareRows
  <2>5. CASE ExecuteRow(s)
    <3> DEFINE r == call[s].bind.batches[call[s].batch][call[s].row]
    <3>1. r \in Rows
      BY <2>2, <2>5, RowsOfBindings DEF ExecuteRow
    <3>2. {r} \in SUBSET Rows /\ Writes(c, {r}) /\ UNCHANGED <<driver, caller>>
      BY <2>2, <2>5, <3>1 DEF ExecuteRow, Proceeds, Writes
    <3> HIDE DEF r
    <3> QED
      BY <2>2, <3>2, ZenonT(30) DEF Effect
  <2>9. CASE BoundMismatch(s)
    <3> DEFINE r == call[s].bind.batches[call[s].batch][call[s].row]
    <3>1. r \in Rows
      BY <2>2, <2>9, RowsOfBindings DEF BoundMismatch
    <3>2. UNCHANGED driver /\ Failed(c) /\ (UNCHANGED session \/ Writes(c, {r}))
      BY <2>2, <2>9 DEF BoundMismatch, Proceeds, Writes
    <3>3. {r} \in SUBSET Rows
      BY <3>1
    <3> HIDE DEF r
    <3> QED
      BY <2>2, <3>2, <3>3, ZenonT(30) DEF Effect
  <2>6. CASE BoundReturns(s)
    BY <2>2, <2>6 DEF BoundReturns, Effect, CallType
  <2>7. CASE BoundRefused(s)
    BY <2>2, <2>7 DEF BoundRefused, Effect
  <2>8. CASE BoundFails(s)
    BY <2>2, <2>8 DEF BoundFails, Effect
  <2> QED
    BY <1>6, <2>3, <2>4, <2>5, <2>6, <2>7, <2>8, <2>9 DEF BoundStep
<1> QED
  BY <1>1, <1>2, <1>3, <1>5, <1>6 DEF Next
-----------------------------------------------------------------------------
(* Transactions.                                                           *)

\* The server is in a transaction exactly while its connection has autocommit
\* disabled and has not committed or rolled back since, and what is pending
\* belongs to a transaction that has not failed.
Mode(c) ==
  /\ ~handle[c] => conn[c] = "null"
  /\ conn[c] = "null" => autocommit[c]
  /\ txn[c] # "none" <=> conn[c] = "up" /\ ~autocommit[c] /\ ~ended[c]
  /\ txn[c] # "open" => wrote[c] = {}

Modes == \A c \in Connections : Mode(c)

TxnInv == ConnTypeOK /\ CallTypes /\ Turns /\ Modes

LEMMA TxnInit == Init => TxnInv
<1> SUFFICES ASSUME Init PROVE TxnInv
  OBVIOUS
<1>1. ConnTypeOK /\ Modes
  BY SMT DEF Init, ConnInit, ConnTypeOK, Modes, Mode
<1>2. CallTypes /\ Turns
  BY DEF Init, CallTypes, Turns, NewStatement, StatementType
<1> QED
  BY <1>1, <1>2 DEF TxnInv

\* Types of the connections.
LEMMA ConnTypeStep ==
  ASSUME TxnInv, [Next]_vars
  PROVE  ConnTypeOK'
<1> USE DEF TxnInv
<1>1. CASE UNCHANGED connVars
  BY <1>1 DEF ConnTypeOK, connVars, driver, session, caller
<1>2. CASE DatabaseNew \/ DatabaseSetOption \/ DatabaseInit \/ DatabaseRelease
  <2>1. UNCHANGED <<handle, conn, autocommit, session, caller>>
    BY <1>2 DEF DatabaseNew, DatabaseSetOption, DatabaseInit, DatabaseRelease
  <2>2. database' \in [handle : BOOLEAN, uri : BOOLEAN, types : BOOLEAN, open_connections : Int]
    <3>1. CASE DatabaseNew
      BY <3>1, SMT DEF DatabaseNew
    <3>3. CASE DatabaseSetOption
      BY <3>3 DEF ConnTypeOK, DatabaseSetOption
    <3>4. CASE DatabaseRelease
      BY <3>4 DEF ConnTypeOK, DatabaseRelease
    <3>2. CASE DatabaseInit
      <4>1. PICK known \in {TRUE, database.types} :
              database' = Disconnect([Connect(database) EXCEPT !.types = known])
        BY <3>2 DEF DatabaseInit
      <4>2. known \in BOOLEAN
        BY DEF ConnTypeOK
      <4> DEFINE up == [Connect(database) EXCEPT !.types = known]
      <4>3. up \in [handle : BOOLEAN, uri : BOOLEAN, types : BOOLEAN, open_connections : Int]
        <5>1. Connect(database) \in
                [handle : BOOLEAN, uri : BOOLEAN, types : BOOLEAN, open_connections : Int]
          BY SMT DEF ConnTypeOK, Connect
        <5> QED
          BY <4>2, <5>1
      <4>4. database' = Disconnect(up)
        BY <4>1
      <4> HIDE DEF up
      <4> QED
        BY <4>3, <4>4, SMT DEF Disconnect
    <3> QED
      BY <1>2, <3>1, <3>2, <3>3, <3>4
  <2> QED
    BY <2>1, <2>2 DEF ConnTypeOK, session, caller
<1>3. ASSUME NEW c \in Connections, LifeStep(c)
      PROVE  ConnTypeOK'
  <2>1. CASE ConnectionNew(c) \/ ConnectionInit(c) \/ SessionLost(c)
    <3>1. CASE ConnectionNew(c)
      BY <3>1 DEF ConnTypeOK, ConnectionNew, session, caller
    <3>2. CASE ConnectionInit(c)
      BY <3>2, SMT DEF ConnTypeOK, ConnectionInit, Connect, session, caller
    <3>3. CASE SessionLost(c)
      BY <3>3 DEF ConnTypeOK, SessionLost, caller
    <3> QED
      BY <2>1, <3>1, <3>2, <3>3
  <2>2. CASE ConnectionRelease(c)
    BY <2>2, SMT DEF ConnTypeOK, ConnectionRelease, Disconnect, PQfinish
  <2>3. CASE Commit(c) \/ Rollback(c) \/ CommitAnswerLost(c)
    BY <2>3, ZenonT(30) DEF ConnTypeOK, Commit, Rollback, CommitAnswerLost, EndTransaction, Vouch, driver
  <2>4. CASE \E enabled \in BOOLEAN : SetAutocommit(c, enabled)
    <3>1. PICK enabled \in BOOLEAN : SetAutocommit(c, enabled)
      BY <2>4
    <3>2. CASE enabled
      BY <3>1, <3>2, ZenonT(30) DEF ConnTypeOK, SetAutocommit, EndTransaction, Vouch
    <3>3. CASE ~enabled
      BY <3>1, <3>3 DEF ConnTypeOK, SetAutocommit, BeginTransaction
    <3> QED
      BY <3>2, <3>3
  <2> QED
    BY <1>3, <2>1, <2>2, <2>3, <2>4 DEF LifeStep
<1>4. ASSUME NEW c \in Connections, UNCHANGED driver, Effect(c)
      PROVE  ConnTypeOK'
  <2> USE <1>4 DEF ConnTypeOK, driver
  <2>1. ASSUME UNCHANGED session \/ WriteFails(c) \/ \E rows \in SUBSET Rows : Write(c, rows)
        PROVE  wrote' \in [Connections -> SUBSET Rows] /\ table' \subseteq Rows
               /\ txn' \in [Connections -> {"none", "open", "failed"}]
    BY <2>1, SMT DEF session, WriteFails, Write
  <2>2. ASSUME \/ Failed(c) \/ UNCHANGED caller \/ Recreates
               \/ \E rows \in SUBSET Rows : Succeeded(c, rows)
        PROVE  /\ asked' \in [Connections -> SUBSET Rows]
               /\ hurt' \in [Connections -> BOOLEAN] /\ ended' \in [Connections -> BOOLEAN]
               /\ acked' \subseteq Rows /\ undone' \subseteq Rows
    <3>1. CASE Failed(c) \/ UNCHANGED caller
      BY <3>1 DEF caller, Failed
    <3>2. CASE Recreates
      BY <3>2 DEF Recreates
    <3>3. CASE \E rows \in SUBSET Rows : Succeeded(c, rows)
      BY <3>3, SMT DEF Succeeded
    <3> QED
      BY <2>2, <3>1, <3>2, <3>3
  <2>3. UNCHANGED session \/ WriteFails(c) \/ \E rows \in SUBSET Rows : Write(c, rows)
    BY DEF Effect, Writes
  <2>4. \/ Failed(c) \/ UNCHANGED caller \/ Recreates
        \/ \E rows \in SUBSET Rows : Succeeded(c, rows)
    BY DEF Effect
  <2> QED
    BY <2>1, <2>2, <2>3, <2>4
<1>5. CASE UNCHANGED vars
  BY <1>1, <1>5 DEF vars
<1> QED
  BY <1>1, <1>2, <1>3, <1>4, <1>5, Effects

\* While bound rows are executed nobody commits.
LEMMA TurnsStep ==
  ASSUME TxnInv, [Next]_vars
  PROVE  Turns'
<1> USE DEF TxnInv
<1>1. ASSUME UNCHANGED ended,
             \A s \in Statements : call'[s] # None =>
               call[s] # None /\ stmt'[s].connection = stmt[s].connection
      PROVE  Turns'
  BY <1>1 DEF Turns, MayWrite
<1>2. CASE DatabaseStep
  BY <1>1, <1>2 DEF DatabaseStep, stmtVars, caller,
                    DatabaseNew, DatabaseSetOption, DatabaseInit, DatabaseRelease
<1>3. ASSUME NEW c \in Connections, ConnectionStep(c)
      PROVE  Turns'
  <2>1. UNCHANGED <<stmt, call>> /\ ~Busy(c)
    BY <1>3 DEF ConnectionStep, MayUse
  <2>2. \A d \in Connections \ {c} : ended'[d] = ended[d]
    <3>1. LifeStep(c)
      BY <1>3 DEF ConnectionStep, LifeStep
    <3>2. CASE ConnectionNew(c) \/ ConnectionInit(c) \/ SessionLost(c) \/ CommitAnswerLost(c)
      BY <3>2 DEF ConnectionNew, ConnectionInit, SessionLost, CommitAnswerLost, caller
    <3>3. CASE Commit(c) \/ Rollback(c) \/ ConnectionRelease(c)
      BY <3>3, ZenonT(30) DEF Commit, Rollback, ConnectionRelease, ConnTypeOK
    <3>4. CASE \E enabled \in BOOLEAN : SetAutocommit(c, enabled)
      BY <3>4 DEF SetAutocommit, ConnTypeOK
    <3> QED
      BY <3>1, <3>2, <3>3, <3>4 DEF LifeStep
  <2> QED
    BY <2>1, <2>2 DEF Turns, MayWrite, Busy, On, CallTypes
<1>4. ASSUME NEW c \in Connections, SessionStep(c)
      PROVE  Turns'
  BY <1>1, <1>4 DEF SessionStep, SessionLost, caller
<1>5. ASSUME NEW s \in Statements, StatementStep(s)
      PROVE  Turns'
  <2>1. CASE \E c \in Connections : StatementNew(s, c)
    BY <2>1, <1>1, BindingsAssumption DEF StatementNew, CallTypes, connVars, caller
  <2>2. CASE StatementRelease(s)
    BY <2>2, <1>1, CallsAreFree DEF StatementRelease, CallTypes, connVars, caller
  <2>3. CASE \/ (\E q \in Queries \cup {"update"} : SetSqlQuery(s, q))
             \/ SetTarget(s) \/ Prepare(s)
             \/ (\E append \in BOOLEAN : SetMode(s, append))
             \/ (\E b \in Bindings : Bind(s, b))
    <3>1. UNCHANGED <<call, ended>>
      BY <2>3 DEF SetSqlQuery, SetTarget, Prepare, SetMode, Bind, connVars, caller
    <3>2. \A t \in Statements : stmt'[t].connection = stmt[t].connection
      <4>1. CASE \E q \in Queries \cup {"update"} : SetSqlQuery(s, q)
        BY <4>1, SMT DEF SetSqlQuery, CallTypes, StatementType
      <4>2. CASE SetTarget(s) \/ Prepare(s)
        BY <4>2, SMT DEF SetTarget, Prepare, CallTypes, StatementType
      <4>3. CASE \/ (\E append \in BOOLEAN : SetMode(s, append))
                 \/ (\E b \in Bindings : Bind(s, b))
        BY <4>3, SMT DEF SetMode, Bind, CallTypes, StatementType
      <4> QED
        BY <2>3, <4>1, <4>2, <4>3
    <3> QED
      BY <1>1, <3>1, <3>2
  <2>4. CASE \/ (\E stream \in BOOLEAN :
                   ExecuteRefused(s, stream) \/ ExecuteMismatch(s, stream)
                   \/ ExecuteFails(s, stream))
             \/ ExecuteQuery(s) \/ ExecuteUnknownType(s) \/ ExecuteUpdate(s)
    BY <2>4, <1>1 DEF ExecuteRefused, ExecuteMismatch, ExecuteFails, ExecuteQuery,
                      ExecuteUnknownType, ExecuteUpdate, RunsTwice, Failed, Succeeded, connVars,
                      caller
  <2>5. CASE BoundBegin(s)
    <3>1. /\ UNCHANGED ended /\ MayWrite(stmt[s].connection)
          /\ \A t \in Statements : stmt'[t].connection = stmt[t].connection
          /\ \A t \in Statements \ {s} : call'[t] = call[t]
      BY <2>5 DEF BoundBegin, CallTypes, StatementType, connVars, caller
    <3> QED
      BY <3>1 DEF Turns, MayWrite
  <2> QED
    BY <1>5, <2>1, <2>2, <2>3, <2>4, <2>5 DEF StatementStep
<1>6. ASSUME NEW s \in Statements, BoundStep(s)
      PROVE  Turns'
  <2>1. call[s] # None /\ UNCHANGED <<stmt, ended>>
    BY <1>6, ZenonT(30) DEF BoundStep, CreateBulkTable, PrepareRows, ExecuteRow, BoundMismatch,
                BoundReturns, BoundRefused, BoundFails, Proceeds, Failed, Succeeded, connVars, caller
  <2>2. \A t \in Statements \ {s} : call'[t] = call[t]
    BY <1>6 DEF BoundStep, CreateBulkTable, PrepareRows, ExecuteRow, BoundMismatch, BoundReturns,
                BoundRefused, BoundFails, CallTypes
  <2> QED
    BY <1>1, <2>1, <2>2
<1>7. ASSUME NEW s \in Statements, StreamStep(s)
      PROVE  Turns'
  BY <1>1, <1>7 DEF StreamStep, GetNextEnd, GetNextFaults, GetNext, StreamRelease, connVars, caller
<1>8. CASE UNCHANGED vars
  BY <1>1, <1>8 DEF vars, stmtVars, connVars, caller
<1> QED
  BY <1>2, <1>3, <1>4, <1>5, <1>6, <1>7, <1>8 DEF Next

\* The driver's flag and the server's transaction stay together.
LEMMA ModesStep ==
  ASSUME TxnInv, [Next]_vars
  PROVE  Modes'
<1> USE DEF TxnInv
<1>1. CASE UNCHANGED connVars
  BY <1>1 DEF Modes, Mode, connVars, driver, session, caller
<1>2. CASE DatabaseNew \/ DatabaseSetOption \/ DatabaseInit \/ DatabaseRelease
  BY <1>2, SMT DEF Modes, Mode, DatabaseNew, DatabaseSetOption, DatabaseInit, DatabaseRelease,
              session, caller
<1>3. ASSUME NEW c \in Connections, LifeStep(c)
      PROVE  Modes'
  <2> SUFFICES ASSUME NEW d \in Connections PROVE Mode(d)'
    BY DEF Modes
  <2>0. Mode(c) /\ Mode(d)
    BY DEF Modes
  <2>1. CASE ConnectionNew(c)
    BY <2>0, <2>1 DEF Mode, ConnTypeOK, ConnectionNew, session, caller
  <2>2. CASE ConnectionInit(c)
    BY <2>0, <2>2 DEF Mode, ConnTypeOK, ConnectionInit, session, caller
  <2>3. CASE SessionLost(c)
    BY <2>0, <2>3 DEF Mode, ConnTypeOK, SessionLost, caller
  <2>4. CASE ConnectionRelease(c)
    BY <2>0, <2>4 DEF Mode, ConnTypeOK, ConnectionRelease, PQfinish
  <2>5. CASE Commit(c)
    BY <2>0, <2>5 DEF Mode, ConnTypeOK, Commit, EndTransaction, driver
  <2>6. CASE Rollback(c)
    BY <2>0, <2>6 DEF Mode, ConnTypeOK, Rollback, EndTransaction, driver
  <2>7. CASE CommitAnswerLost(c)
    BY <2>0, <2>7 DEF Mode, ConnTypeOK, CommitAnswerLost, EndTransaction
  <2>8. CASE \E enabled \in BOOLEAN : SetAutocommit(c, enabled)
    <3>1. PICK enabled \in BOOLEAN : SetAutocommit(c, enabled)
      BY <2>8
    <3>2. CASE enabled
      BY <2>0, <3>1, <3>2, SMT DEF Mode, ConnTypeOK, SetAutocommit, EndTransaction
    <3>3. CASE ~enabled
      BY <2>0, <3>1, <3>3 DEF Mode, ConnTypeOK, SetAutocommit, BeginTransaction
    <3> QED
      BY <3>2, <3>3
  <2> QED
    BY <1>3, <2>1, <2>2, <2>3, <2>4, <2>5, <2>6, <2>7, <2>8 DEF LifeStep
<1>4. ASSUME NEW c \in Connections, UNCHANGED driver, Effect(c)
      PROVE  Modes'
  <2>1. UNCHANGED ended
    BY <1>4 DEF Effect, Failed, Succeeded, Recreates, caller
  <2>2. UNCHANGED session \/ WriteFails(c) \/ \E rows \in SUBSET Rows : Write(c, rows)
    BY <1>4 DEF Effect, Writes
  <2>3. CASE UNCHANGED session
    BY <1>4, <2>1, <2>3 DEF Modes, Mode, driver, session
  <2>4. CASE WriteFails(c)
    BY <1>4, <2>1, <2>4, SMT DEF Modes, Mode, ConnTypeOK, driver, WriteFails
  <2>5. CASE \E rows \in SUBSET Rows : Write(c, rows)
    BY <1>4, <2>1, <2>5, SMT DEF Modes, Mode, ConnTypeOK, driver, Write
  <2> QED
    BY <2>2, <2>3, <2>4, <2>5
<1>5. CASE UNCHANGED vars
  BY <1>1, <1>5 DEF vars
<1> QED
  BY <1>1, <1>2, <1>3, <1>4, <1>5, Effects

\* The connection's flag, the server's transaction and the calls in progress
\* stay consistent through failures, lost sessions and lost answers.
THEOREM TransactionInvariance == Spec => []TxnInv
<1>1. Init => TxnInv
  BY TxnInit
<1>2. TxnInv /\ [Next]_vars => TxnInv'
  <2> SUFFICES ASSUME TxnInv, [Next]_vars PROVE TxnInv'
    OBVIOUS
  <2>1. CallTypes'
    BY CallTypesStep DEF TxnInv
  <2> QED
    BY <2>1, ConnTypeStep, TurnsStep, ModesStep DEF TxnInv
<1> QED
  BY <1>1, <1>2, PTL DEF Spec

-----------------------------------------------------------------------------
(* The count of open connections.                                          *)

\* A session is counted when it is opened, and uncounted when its connection is
\* released.
LEMMA CountStep ==
  ASSUME TxnInv, CountAgrees, [Next]_vars
  PROVE  CountAgrees'
<1> DEFINE Open == {c \in Connections : conn[c] # "null"}
<1> USE DEF TxnInv
<1>0. IsFiniteSet(Open) /\ database.open_connections = Cardinality(Open)
  <2>1. Open \in SUBSET Connections
    OBVIOUS
  <2> QED
    BY <2>1, ConnectionsAssumption, FS_Subset DEF CountAgrees
<1>1. ASSUME database'.open_connections = database.open_connections, Open' = Open
      PROVE  CountAgrees'
  BY <1>1, <1>0 DEF CountAgrees
<1>2. CASE UNCHANGED <<database, conn>>
  BY <1>2, <1>1
<1>3. CASE DatabaseNew
  <2>1. Open = {} /\ Open' = Open
    BY <1>3 DEF DatabaseNew, DatabaseAlive
  <2>2. database.open_connections = 0
    BY <1>0, <2>1, FS_EmptySet
  <2>3. database'.open_connections = 0
    BY <1>3 DEF DatabaseNew
  <2> QED
    BY <1>1, <2>1, <2>2, <2>3
<1>4. CASE DatabaseSetOption
  BY <1>4, <1>1 DEF DatabaseSetOption, ConnTypeOK
<1>5. CASE DatabaseInit
  <2>1. PICK known \in {TRUE, database.types} :
          database' = Disconnect([Connect(database) EXCEPT !.types = known])
    BY <1>5 DEF DatabaseInit
  <2>2. Connect(database).open_connections = database.open_connections + 1
    BY DEF Connect, ConnTypeOK
  <2>3. [Connect(database) EXCEPT !.types = known].open_connections = database.open_connections + 1
    BY <2>2 DEF Connect, ConnTypeOK
  <2>4. database'.open_connections = database.open_connections + 1 - 1
    BY <2>1, <2>3, SMT DEF Disconnect, Connect, ConnTypeOK
  <2>5. Open' = Open
    BY <1>5 DEF DatabaseInit
  <2> QED
    BY <1>1, <2>4, <2>5, SMT DEF ConnTypeOK
<1>6. CASE DatabaseRelease
  BY <1>6, <1>1 DEF DatabaseRelease, ConnTypeOK
<1>7. ASSUME NEW c \in Connections, LifeStep(c)
      PROVE  CountAgrees'
  <2>1. CASE ConnectionInit(c)
    <3>1. c \notin Open /\ Open' = Open \cup {c}
      BY <2>1 DEF ConnectionInit, ConnTypeOK
    <3>2. database'.open_connections = database.open_connections + 1
      BY <2>1 DEF ConnectionInit, Connect, ConnTypeOK
    <3>3. Cardinality(Open \cup {c}) = Cardinality(Open) + 1
      BY <1>0, <3>1, FS_AddElement
    <3> QED
      BY <1>0, <3>1, <3>2, <3>3 DEF CountAgrees
  <2>2. CASE ConnectionRelease(c)
    <3>1. Open' = Open \ {c}
      BY <2>2 DEF ConnectionRelease, ConnTypeOK
    <3>2. CASE c \in Open
      <4>1. database'.open_connections = database.open_connections - 1
        BY <2>2, <3>2 DEF ConnectionRelease, Disconnect, ConnTypeOK
      <4>2. Cardinality(Open \ {c}) = Cardinality(Open) - 1
        BY <1>0, <3>2, FS_RemoveElement
      <4> QED
        BY <1>0, <3>1, <4>1, <4>2 DEF CountAgrees
    <3>3. CASE c \notin Open
      <4>1. Open' = Open /\ database' = database
        BY <2>2, <3>1, <3>3 DEF ConnectionRelease
      <4> QED
        BY <1>1, <4>1
    <3> QED
      BY <3>2, <3>3
  <2>3. CASE SessionLost(c) \/ CommitAnswerLost(c)
    <3>1. database' = database /\ Open' = Open
      <4>1. database' = database /\ conn[c] = "up" /\ conn' = [conn EXCEPT ![c] = "down"]
        BY <2>3 DEF SessionLost, CommitAnswerLost
      <4>2. \A d \in Connections : conn'[d] # "null" <=> conn[d] # "null"
        BY <4>1 DEF ConnTypeOK
      <4> QED
        BY <4>1, <4>2
    <3> QED
      BY <1>1, <3>1
  <2>4. CASE \/ ConnectionNew(c) \/ Commit(c) \/ Rollback(c)
             \/ \E enabled \in BOOLEAN : SetAutocommit(c, enabled)
    BY <2>4, <1>2 DEF ConnectionNew, Commit, Rollback, SetAutocommit, driver
  <2> QED
    BY <1>7, <2>1, <2>2, <2>3, <2>4 DEF LifeStep
<1>8. CASE UNCHANGED driver \/ UNCHANGED connVars \/ UNCHANGED vars
  BY <1>8, <1>2 DEF driver, connVars, vars
<1> QED
  BY <1>3, <1>4, <1>5, <1>6, <1>7, <1>8, Effects

\* open_connections_ is the number of sessions, for any number of connections:
\* it never underflows, and AdbcDatabaseRelease refuses exactly while one is
\* open.
THEOREM CountIsRight == Spec => []CountAgrees
<1>1. Init => CountAgrees
  <2> SUFFICES ASSUME Init PROVE CountAgrees
    OBVIOUS
  <2>1. {c \in Connections : conn[c] # "null"} = {} /\ database.open_connections = 0
    BY DEF Init, ConnInit
  <2> QED
    BY <2>1, FS_EmptySet DEF CountAgrees
<1>2. TxnInv /\ CountAgrees /\ [Next]_vars => CountAgrees'
  BY CountStep
<1> QED
  BY <1>1, <1>2, TransactionInvariance, PTL DEF Spec

-----------------------------------------------------------------------------
(* The contract.                                                           *)

\* The contract sees the flags, the pending rows and the table.
LEMMA ContractStutters ==
  ASSUME UNCHANGED <<autocommit, wrote, table>>
  PROVE  UNCHANGED <<{c \in Connections : ~autocommit[c]}, wrote, table>>
  OBVIOUS

\* The end of a session, or the failure of a statement, rolls back, or there is
\* nothing to roll back.
LEMMA EndsRollBack ==
  ASSUME TxnInv, NEW c \in Connections,
         wrote' = [wrote EXCEPT ![c] = {}], table' = table,
         autocommit' = autocommit \/ autocommit' = [autocommit EXCEPT ![c] = TRUE]
  PROVE  Contract!Next \/ UNCHANGED <<{d \in Connections : ~autocommit[d]}, wrote, table>>
<1>1. CASE ~autocommit[c]
  <2>1. {d \in Connections : ~autocommit'[d]} \in
          {{d \in Connections : ~autocommit[d]}, {d \in Connections : ~autocommit[d]} \ {c}}
    BY SMT DEF TxnInv, ConnTypeOK
  <2>2. Contract!Rollback(c)
    BY <1>1, <2>1 DEF Contract!Rollback
  <2> QED
    BY <2>2 DEF Contract!Next
<1>2. CASE autocommit[c]
  <2>1. wrote[c] = {}
    BY <1>2 DEF TxnInv, Modes, Mode
  <2>2. wrote' = wrote
    BY <2>1 DEF TxnInv, ConnTypeOK
  <2>3. [autocommit EXCEPT ![c] = TRUE] = autocommit
    BY <1>2 DEF TxnInv, ConnTypeOK
  <2>4. UNCHANGED <<autocommit, wrote, table>>
    BY <2>2, <2>3
  <2> QED
    BY <2>4, ContractStutters
<1> QED
  BY <1>1, <1>2

\* Every step is a step of the contract, if callers disable autocommit again
\* for their next transaction.
LEMMA ContractStep ==
  ASSUME TxnInv, [Next]_vars, "chained" \notin Habits
  PROVE  Contract!Next \/ UNCHANGED <<{c \in Connections : ~autocommit[c]}, wrote, table>>
<1> USE DEF TxnInv
<1>1. CASE UNCHANGED <<autocommit, wrote, table>>
  BY <1>1, ContractStutters
<1>2. CASE DatabaseNew \/ DatabaseSetOption \/ DatabaseInit \/ DatabaseRelease
  BY <1>1, <1>2 DEF DatabaseNew, DatabaseSetOption, DatabaseInit, DatabaseRelease, session
<1>3. ASSUME NEW c \in Connections, LifeStep(c)
      PROVE  Contract!Next \/ UNCHANGED <<{d \in Connections : ~autocommit[d]}, wrote, table>>
  <2>1. CASE ConnectionNew(c)
    <3>1. autocommit[c]
      BY <2>1 DEF ConnectionNew, Modes, Mode
    <3>2. UNCHANGED <<autocommit, wrote, table>>
      BY <2>1, <3>1 DEF ConnectionNew, ConnTypeOK, session
    <3> QED
      BY <1>1, <3>2
  <2>2. CASE ConnectionInit(c)
    BY <1>1, <2>2 DEF ConnectionInit, session
  <2>3. CASE ConnectionRelease(c)
    BY <2>3, EndsRollBack DEF ConnectionRelease, PQfinish
  <2>4. CASE SessionLost(c)
    BY <2>4, EndsRollBack DEF SessionLost
  <2>5. CASE Rollback(c)
    BY <2>5, EndsRollBack DEF Rollback, EndTransaction, driver
  <2>6. CASE Commit(c) \/ CommitAnswerLost(c)
    <3>1. /\ ~autocommit[c] /\ autocommit' = autocommit /\ table' = table \cup wrote[c]
          /\ wrote' = [wrote EXCEPT ![c] = {}]
      BY <2>6 DEF Commit, CommitAnswerLost, EndTransaction, driver
    <3>2. Contract!Commit(c)
      BY <3>1 DEF Contract!Commit
    <3> QED
      BY <3>2 DEF Contract!Next
  <2>7. CASE SetAutocommit(c, TRUE)
    <3>1. {d \in Connections : ~autocommit'[d]} = {d \in Connections : ~autocommit[d]} \ {c}
      BY <2>7 DEF SetAutocommit, ConnTypeOK
    <3>2. Contract!EnableAutocommit(c)
      BY <2>7, <3>1 DEF SetAutocommit, EndTransaction, Contract!EnableAutocommit
    <3> QED
      BY <3>2 DEF Contract!Next
  <2>8. CASE SetAutocommit(c, FALSE)
    <3>1. {d \in Connections : ~autocommit'[d]} = {d \in Connections : ~autocommit[d]} \cup {c}
      BY <2>8 DEF SetAutocommit, ConnTypeOK
    <3>2. Contract!DisableAutocommit(c)
      BY <2>8, <3>1 DEF SetAutocommit, BeginTransaction, Contract!DisableAutocommit
    <3> QED
      BY <3>2 DEF Contract!Next
  <2> QED
    BY <1>3, <2>1, <2>2, <2>3, <2>4, <2>5, <2>6, <2>7, <2>8 DEF LifeStep
<1>4. ASSUME NEW c \in Connections, UNCHANGED driver, Effect(c)
      PROVE  Contract!Next \/ UNCHANGED <<{d \in Connections : ~autocommit[d]}, wrote, table>>
  <2>1. autocommit' = autocommit
    BY <1>4 DEF driver
  <2>2. CASE UNCHANGED session
    BY <1>1, <2>1, <2>2 DEF session
  <2>3. CASE WriteFails(c)
    BY <2>1, <2>3, EndsRollBack DEF WriteFails
  <2>4. CASE \E rows \in SUBSET Rows : Writes(c, rows)
    <3>1. PICK rows \in SUBSET Rows : Writes(c, rows)
      BY <2>4
    <3>2. txn[c] = "open" <=> ~autocommit[c]
      BY <3>1, SMT DEF Writes, MayWrite, Modes, Mode, ConnTypeOK
    <3>3. Contract!Update(c, rows)
      BY <2>1, <3>1, <3>2 DEF Writes, Write, Contract!Update
    <3> QED
      BY <3>3 DEF Contract!Next
  <2> QED
    BY <1>4, <2>2, <2>3, <2>4 DEF Effect
<1>5. CASE UNCHANGED connVars \/ UNCHANGED vars
  BY <1>1, <1>5 DEF connVars, vars, driver, session
<1> QED
  BY <1>2, <1>3, <1>4, <1>5, Effects

\* The driver implements ADBC's transactions for any number of connections,
\* statements and rows, through failed statements, lost sessions and lost
\* answers, as long as callers do not rely on the transaction after Commit or
\* Rollback.
THEOREM ImplementsContract ==
  ASSUME "chained" \notin Habits
  PROVE  Spec => TransactionContract
<1>1. Init => Contract!Init
  BY DEF Init, ConnInit, Contract!Init
<1>2. TxnInv /\ [Next]_vars
        => Contract!Next \/ UNCHANGED <<{c \in Connections : ~autocommit[c]}, wrote, table>>
  BY ContractStep
<1> QED
  BY <1>1, <1>2, TransactionInvariance, PTL DEF Spec, TransactionContract, Contract!Spec
-----------------------------------------------------------------------------
(* Reading results.                                                        *)

\* The messages of the results.
Wire == UNION {{Messages(q)[i] : i \in 1..Len(Messages(q))} : q \in Queries}

ReaderTypes ==
  /\ reader \in [Statements -> [result : BOOLEAN, schema : Seq(Range(ArrowTypes))]]
  /\ copy = [c \in Connections |-> [messages |-> copy[c].messages, ok |-> copy[c].ok]]

\* A result that was not read is on its own connection, and has messages.
Unread ==
  \A s \in Statements : reader[s].result =>
    /\ stmt[s].connection \in Connections
    /\ copy[stmt[s].connection].messages \in Seq(Wire) \ {<<>>}
    /\ \A t \in Statements :
         reader[t].result /\ stmt[t].connection = stmt[s].connection => t = s

ReadInv == CallTypes /\ ReaderTypes /\ Unread /\ ~fault

LEMMA ReadInit == Init => ReadInv
<1> SUFFICES ASSUME Init PROVE ReadInv
  OBVIOUS
<1>1. CallTypes
  BY TxnInit DEF TxnInv
<1>2. ReaderTypes
  <2>1. reader \in [Statements -> [result : BOOLEAN, schema : Seq(Range(ArrowTypes))]]
    BY SMT DEF Init, NoReader
  <2>2. copy = [c \in Connections |-> [messages |-> copy[c].messages, ok |-> copy[c].ok]]
    BY DEF Init, NoCopy
  <2> QED
    BY <2>1, <2>2 DEF ReaderTypes
<1>3. Unread
  BY DEF Init, Unread, NoReader
<1> QED
  BY <1>1, <1>2, <1>3 DEF ReadInv, Init

\* Messages of a result, and their first ones.
LEMMA MessagesType ==
  ASSUME NEW q \in Queries
  PROVE  /\ Len(Result[q]) \in Nat /\ Len(Messages(q)) = Len(Result[q]) + 1
         /\ Messages(q) \in Seq(Wire)
         /\ \A n \in 1..Len(Messages(q)) :
              /\ SubSeq(Messages(q), 1, n) \in Seq(Wire) /\ SubSeq(Messages(q), 1, n) # <<>>
              /\ Len(SubSeq(Messages(q), 1, n)) = n
              /\ \A i \in 1..n : SubSeq(Messages(q), 1, n)[i] = Messages(q)[i]
<1>1. Len(Result[q]) \in Nat
  BY ResultAssumption, SMT
<1>2. Len(Messages(q)) = Len(Result[q]) + 1 /\ DOMAIN Messages(q) = 1..(Len(Result[q]) + 1)
  BY <1>1, SMT DEF Messages
<1>3. \A i \in 1..Len(Messages(q)) : Messages(q)[i] \in Wire
  BY SMT DEF Wire
<1> DEFINE m == Messages(q)
<1>4. m \in Seq(Wire)
  <2>1. m = [i \in 1..(Len(Result[q]) + 1) |-> m[i]]
    BY DEF Messages
  <2>2. \A i \in 1..(Len(Result[q]) + 1) : m[i] \in Wire
    BY <1>2, <1>3
  <2>3. Len(Result[q]) + 1 \in Nat
    BY <1>1, SMT
  <2> HIDE DEF m
  <2> QED
    BY <2>1, <2>2, <2>3, SMT
<1> HIDE DEF m
<1>5. ASSUME NEW n \in 1..Len(m)
      PROVE  /\ SubSeq(m, 1, n) \in Seq(Wire) /\ SubSeq(m, 1, n) # <<>>
             /\ Len(SubSeq(m, 1, n)) = n
             /\ \A i \in 1..n : SubSeq(m, 1, n)[i] = m[i]
  BY <1>4, SMT
<1> QED
  BY <1>1, <1>2, <1>4, <1>5 DEF m

\* A schema has Arrow types.
LEMMA SchemaType ==
  ASSUME NEW mapping, NEW columns, Len(columns) \in Nat
  PROVE  InferSchema(mapping, columns) \in Seq(Range(ArrowTypes))
<1>1. CASE ~\A i \in 1..Len(columns) :
              columns[i] \in DOMAIN mapping /\ mapping[columns[i]] \in DOMAIN ArrowTypes
  BY <1>1, SMT DEF InferSchema
<1>2. CASE \A i \in 1..Len(columns) :
              columns[i] \in DOMAIN mapping /\ mapping[columns[i]] \in DOMAIN ArrowTypes
  <2>1. InferSchema(mapping, columns) = [i \in 1..Len(columns) |-> ArrowTypes[mapping[columns[i]]]]
    BY <1>2 DEF InferSchema
  <2>2. \A i \in 1..Len(columns) : ArrowTypes[mapping[columns[i]]] \in Range(ArrowTypes)
    BY <1>2 DEF Range
  <2> QED
    BY <2>1, <2>2, SMT
<1> QED
  BY <1>1, <1>2

\* Steps that leave readers and COPY alone.
LEMMA ReadAlone ==
  ASSUME ReadInv, CallTypes', reader' = reader, copy' = copy, fault' = fault,
         \A s \in Statements : reader[s].result => stmt'[s].connection = stmt[s].connection
  PROVE  ReadInv'
<1>1. ReaderTypes'
  BY DEF ReadInv, ReaderTypes
<1>2. Unread'
  BY DEF ReadInv, Unread
<1> QED
  BY <1>1, <1>2 DEF ReadInv

\* A COPY stays a record.
LEMMA CopyKept ==
  ASSUME ReaderTypes, NEW c \in Connections, NEW m, NEW ok,
         copy' = copy \/ copy' = [copy EXCEPT ![c] = [messages |-> m, ok |-> ok]]
  PROVE  copy' = [d \in Connections |-> [messages |-> copy'[d].messages, ok |-> copy'[d].ok]]
<1>1. copy = [d \in Connections |-> [messages |-> copy[d].messages, ok |-> copy[d].ok]]
  BY DEF ReaderTypes
<1>2. CASE copy' = copy
  BY <1>1, <1>2
<1>3. CASE copy' = [copy EXCEPT ![c] = [messages |-> m, ok |-> ok]]
  <2>1. \A d \in Connections :
          copy'[d] = IF d = c THEN [messages |-> m, ok |-> ok]
                     ELSE [messages |-> copy[d].messages, ok |-> copy[d].ok]
    BY <1>1, <1>3
  <2>2. ASSUME NEW d \in Connections
        PROVE  copy'[d] = [messages |-> copy'[d].messages, ok |-> copy'[d].ok]
    <3>1. CASE d = c
      <4>1. copy'[d] = [messages |-> m, ok |-> ok]
        BY <2>1, <3>1
      <4>2. copy'[d].messages = m /\ copy'[d].ok = ok
        BY <4>1, SMT
      <4> QED
        BY <4>1, <4>2
    <3>2. CASE d # c
      <4>1. copy'[d] = [messages |-> copy[d].messages, ok |-> copy[d].ok]
        BY <2>1, <3>2
      <4>2. copy'[d].messages = copy[d].messages /\ copy'[d].ok = copy[d].ok
        BY <4>1, SMT
      <4> QED
        BY <4>1, <4>2
    <3> QED
      BY <3>1, <3>2
  <2>3. copy' = [d \in Connections |-> copy'[d]]
    BY <1>1, <1>3
  <2> QED
    BY <2>2, <2>3
<1> QED
  BY <1>2, <1>3

LEMMA CopyChanged ==
  ASSUME ReaderTypes, NEW c \in Connections, NEW m
  PROVE  [copy EXCEPT ![c].messages = m]
           = [copy EXCEPT ![c] = [messages |-> m, ok |-> copy[c].ok]]
<1>1. copy = [d \in Connections |-> [messages |-> copy[d].messages, ok |-> copy[d].ok]]
  BY DEF ReaderTypes
<1>2. copy[c] = [messages |-> copy[c].messages, ok |-> copy[c].ok]
  BY <1>1
<1>3. ASSUME NEW x, NEW y
      PROVE  [[messages |-> x, ok |-> y] EXCEPT !.messages = m] = [messages |-> m, ok |-> y]
  BY SMT
<1>4. [copy[c] EXCEPT !.messages = m] = [messages |-> m, ok |-> copy[c].ok]
  BY <1>2, <1>3
<1> QED
  BY <1>4

\* Steps that drop a statement's result, and perhaps the COPY of its connection.
LEMMA ReadDrops ==
  ASSUME ReadInv, CallTypes', NEW s \in Statements, reader' = [reader EXCEPT ![s] = NoReader],
         fault' = fault,
         \A t \in Statements : t # s => stmt'[t].connection = stmt[t].connection,
         NEW c \in Connections,
         \/ copy' = copy
         \/ /\ copy' = [copy EXCEPT ![c] = NoCopy]
            /\ \A t \in Statements : t # s /\ reader[t].result => stmt[t].connection # c
  PROVE  ReadInv'
<1>1. ReaderTypes'
  <2>1. reader' \in [Statements -> [result : BOOLEAN, schema : Seq(Range(ArrowTypes))]]
    BY SMT DEF ReadInv, ReaderTypes, NoReader
  <2>2. copy' = [d \in Connections |-> [messages |-> copy'[d].messages, ok |-> copy'[d].ok]]
    BY CopyKept, SMT DEF ReadInv, NoCopy
  <2> QED
    BY <2>1, <2>2 DEF ReaderTypes
<1>2. /\ ~reader'[s].result
      /\ \A t \in Statements : t # s => reader'[t] = reader[t]
  BY DEF ReadInv, ReaderTypes, NoReader
<1>3. \A t \in Statements :
        t # s /\ reader[t].result => copy'[stmt[t].connection] = copy[stmt[t].connection]
  BY DEF ReadInv, ReaderTypes, Unread
<1>4. ASSUME NEW t \in Statements, reader'[t].result
      PROVE  /\ t # s /\ reader[t].result /\ stmt'[t].connection = stmt[t].connection
             /\ copy'[stmt'[t].connection] = copy[stmt[t].connection]
  BY <1>2, <1>3, <1>4
<1>5. Unread'
  BY <1>4, SMT DEF ReadInv, Unread
<1> QED
  BY <1>1, <1>5 DEF ReadInv

\* Without overlaps a statement is executed while no other result is unread.
LEMMA OthersRead ==
  ASSUME CallTypes, "overlap" \notin Habits, NEW s \in Statements, Executes(s)
  PROVE  /\ stmt[s].connection \in Connections
         /\ \A t \in Statements :
              t # s /\ reader[t].result => stmt[t].connection # stmt[s].connection
BY DEF Executes, Calls, MayUse, On, CallTypes, StatementType

\* A statement's settings do not concern its connection.
LEMMA SettingsKeepConnection ==
  ASSUME stmt \in [Statements -> StatementType], NEW s \in Statements,
         \/ \E q \in Queries \cup {"update"} : SetSqlQuery(s, q)
         \/ SetTarget(s) \/ Prepare(s)
         \/ \E append \in BOOLEAN : SetMode(s, append)
         \/ \E b \in Bindings : Bind(s, b)
  PROVE  \A t \in Statements : stmt'[t].connection = stmt[t].connection
<1>1. /\ \A t \in Statements : t # s => stmt'[t] = stmt[t]
      /\ stmt[s] \in StatementType
  BY DEF SetSqlQuery, SetTarget, Prepare, SetMode, Bind
<1>2. stmt'[s].connection = stmt[s].connection
  <2>1. CASE \E q \in Queries \cup {"update"} : SetSqlQuery(s, q)
    <3>1. PICK q : SetSqlQuery(s, q)
      BY <2>1
    <3>2. stmt'[s] = [stmt[s] EXCEPT !.query = q, !.target = FALSE, !.prepared = FALSE]
      BY <3>1 DEF SetSqlQuery
    <3> QED
      BY <1>1, <3>2 DEF StatementType
  <2>2. CASE SetTarget(s)
    <3>1. stmt'[s] = [stmt[s] EXCEPT !.query = None, !.target = TRUE]
      BY <2>2 DEF SetTarget
    <3> QED
      BY <1>1, <3>1 DEF StatementType
  <2>3. CASE Prepare(s)
    BY <1>1, <2>3 DEF Prepare, StatementType
  <2>4. CASE \E append \in BOOLEAN : SetMode(s, append)
    BY <1>1, <2>4 DEF SetMode, StatementType
  <2>5. CASE \E b \in Bindings : Bind(s, b)
    BY <1>1, <2>5 DEF Bind, StatementType
  <2> QED
    BY <2>1, <2>2, <2>3, <2>4, <2>5
<1> QED
  BY <1>1, <1>2

LEMMA ReadStatement ==
  ASSUME ReadInv, CallTypes', Habits \cap {"overlap", "cut"} = {},
         NEW s \in Statements, StatementStep(s)
  PROVE  ReadInv'
<1>1. /\ reader \in [Statements -> [result : BOOLEAN, schema : Seq(Range(ArrowTypes))]]
      /\ copy = [c \in Connections |-> [messages |-> copy[c].messages, ok |-> copy[c].ok]]
      /\ stmt \in [Statements -> StatementType]
  BY DEF ReadInv, ReaderTypes, CallTypes
<1>2. Executes(s) => /\ stmt[s].connection \in Connections
                     /\ \A t \in Statements :
                          t # s /\ reader[t].result => stmt[t].connection # stmt[s].connection
  BY OthersRead DEF ReadInv
<1>3. CASE \E c \in Connections : StatementNew(s, c)
  <2>1. stmt[s].connection = None /\ \A t \in Statements : t # s => stmt'[t] = stmt[t]
    BY <1>1, <1>3 DEF StatementNew
  <2>2. ~reader[s].result
    BY <2>1, BindingsAssumption DEF ReadInv, Unread
  <2> QED
    BY <1>3, <2>1, <2>2, ReadAlone DEF StatementNew
<1>4. CASE \/ \E q \in Queries \cup {"update"} : SetSqlQuery(s, q)
           \/ SetTarget(s) \/ Prepare(s)
           \/ \E append \in BOOLEAN : SetMode(s, append)
           \/ \E b \in Bindings : Bind(s, b)
  <2>1. reader' = reader /\ copy' = copy /\ fault' = fault
    BY <1>4 DEF SetSqlQuery, SetTarget, Prepare, SetMode, Bind
  <2>2. \A t \in Statements : stmt'[t].connection = stmt[t].connection
    BY <1>1, <1>4, SettingsKeepConnection
  <2> QED
    BY <2>1, <2>2, ReadAlone
<1>5. CASE StatementRelease(s)
  <2>1. /\ reader' = [reader EXCEPT ![s] = NoReader] /\ copy' = copy /\ fault' = fault
        /\ \A t \in Statements : t # s => stmt'[t].connection = stmt[t].connection
        /\ stmt[s].connection \in Connections
    BY <1>1, <1>5 DEF StatementRelease, Calls, StatementType
  <2> QED
    BY <2>1, ReadDrops
<1>6. CASE ExecuteRefused(s, TRUE) \/ ExecuteRefused(s, FALSE)
  <2>1. /\ reader' = [reader EXCEPT ![s] = NoReader] /\ copy' = copy /\ fault' = fault
        /\ stmt' = stmt /\ Executes(s)
    BY <1>6 DEF ExecuteRefused, ClearResult
  <2> QED
    BY <1>2, <2>1, ReadDrops
<1>7. CASE \/ \E stream \in BOOLEAN : ExecuteMismatch(s, stream) \/ ExecuteFails(s, stream)
           \/ ExecuteUnknownType(s) \/ ExecuteUpdate(s)
  <2>1. /\ reader' = [reader EXCEPT ![s] = NoReader] /\ PQexec(stmt[s].connection)
        /\ fault' = fault /\ stmt' = stmt /\ Executes(s)
    BY <1>7 DEF ExecuteMismatch, ExecuteFails, ExecuteUnknownType, ExecuteUpdate, ClearResult, Sends
  <2> QED
    BY <1>2, <2>1, ReadDrops DEF PQexec
<1>8. CASE BoundBegin(s)
  <2>1. /\ reader' = [reader EXCEPT ![s] = NoReader] /\ PQexec(stmt[s].connection)
        /\ fault' = fault /\ Executes(s)
        /\ \A t \in Statements : t # s => stmt'[t].connection = stmt[t].connection
    BY <1>1, <1>8 DEF BoundBegin, ClearResult
  <2> QED
    BY <1>2, <2>1, ReadDrops DEF PQexec
<1>9. CASE ExecuteQuery(s)
  <2> DEFINE c == stmt[s].connection
             q == stmt[s].query
             schema == InferSchema(TypeMapping(Types), Columns[q])
  <2>1. /\ Executes(s) /\ q \in Queries /\ stmt' = stmt /\ fault' = fault
        /\ reader' = [reader EXCEPT ![s] = [result |-> TRUE, schema |-> schema]]
    BY <1>9 DEF ExecuteQuery, Sends
  <2>2. PICK n \in 1..Len(Messages(q)) :
          copy' = [copy EXCEPT ![c] = [messages |-> SubSeq(Messages(q), 1, n),
                                       ok |-> n = Len(Messages(q))]]
    <3>1. PICK n \in 0..Len(Messages(q)) :
            /\ n # 0
            /\ copy' = [copy EXCEPT ![c] = [messages |-> SubSeq(Messages(q), 1, n),
                                            ok |-> n = Len(Messages(q))]]
      BY <1>9 DEF ExecuteQuery
    <3>2. n \in 1..Len(Messages(q))
      BY <3>1, <2>1, MessagesType, SMT
    <3> QED
      BY <3>1, <3>2
  <2>3. c \in Connections
    BY <1>2, <2>1
  <2> DEFINE m == SubSeq(Messages(q), 1, n)
  <2> DEFINE ok == n = Len(Messages(q))
  <2>4. m \in Seq(Wire) /\ m # <<>> /\ ok \in BOOLEAN
    BY <2>1, MessagesType
  <2>5. schema \in Seq(Range(ArrowTypes))
    BY <2>1, SchemaType, ResultAssumption, SMT
  <2>6. copy' = [copy EXCEPT ![c] = [messages |-> m, ok |-> ok]]
    BY <2>2
  <2> HIDE DEF m, ok, schema
  <2>7. ReaderTypes'
    <3>1. reader' \in [Statements -> [result : BOOLEAN, schema : Seq(Range(ArrowTypes))]]
      BY <1>1, <2>1, <2>5
    <3>2. copy' = [d \in Connections |-> [messages |-> copy'[d].messages, ok |-> copy'[d].ok]]
      BY <2>3, <2>6, CopyKept DEF ReadInv
    <3> QED
      BY <3>1, <3>2 DEF ReaderTypes
  <2>8. /\ copy'[c].messages \in Seq(Wire) \ {<<>>}
        /\ \A t \in Statements : t # s => reader'[t] = reader[t]
        /\ \A d \in Connections : d # c => copy'[d] = copy[d]
    BY <1>1, <2>1, <2>3, <2>4, <2>6
  <2>9. Unread'
    BY <1>2, <2>1, <2>3, <2>8, ZenonT(30) DEF ReadInv, Unread
  <2> QED
    BY <2>1, <2>7, <2>9 DEF ReadInv
<1> QED
  BY <1>3, <1>4, <1>5, <1>6, <1>7, <1>8, <1>9 DEF StatementStep

LEMMA ReadStream ==
  ASSUME ReadInv, CallTypes', NEW s \in Statements, StreamStep(s)
  PROVE  ReadInv'
<1>1. /\ reader \in [Statements -> [result : BOOLEAN, schema : Seq(Range(ArrowTypes))]]
      /\ copy = [c \in Connections |-> [messages |-> copy[c].messages, ok |-> copy[c].ok]]
  BY DEF ReadInv, ReaderTypes
<1>2. CASE GetNextEnd(s)
  BY <1>2, ReadAlone DEF GetNextEnd
<1>3. CASE GetNextFaults(s)
  <2>1. reader[s].result /\ copy[stmt[s].connection].messages = <<>>
    BY <1>3 DEF GetNextFaults
  <2> QED
    BY <2>1 DEF ReadInv, Unread
<1>4. CASE GetNext(s)
  <2> DEFINE c == stmt[s].connection
  <2>1. /\ reader' = [reader EXCEPT ![s] = Consumed(@)] /\ reader[s].result
        /\ stmt' = stmt /\ fault' = fault
    BY <1>4 DEF GetNext
  <2>2. c \in Connections
    BY <2>1 DEF ReadInv, Unread
  <2>3. \E m, ok : copy' = [copy EXCEPT ![c] = [messages |-> m, ok |-> ok]]
    <3>1. ASSUME NEW m, copy' = [copy EXCEPT ![c].messages = m]
          PROVE  copy' = [copy EXCEPT ![c] = [messages |-> m, ok |-> copy[c].ok]]
      BY <2>2, <3>1, CopyChanged DEF ReadInv
    <3>2. (\E m : copy' = [copy EXCEPT ![c].messages = m]) \/ PQexec(c)
      BY <1>4 DEF GetNext
    <3> QED
      BY <3>1, <3>2 DEF PQexec, NoCopy
  <2>4. reader' \in [Statements -> [result : BOOLEAN, schema : Seq(Range(ArrowTypes))]]
    BY <1>1, <2>1 DEF Consumed
  <2>5. copy' = [d \in Connections |-> [messages |-> copy'[d].messages, ok |-> copy'[d].ok]]
    <3>1. PICK m, ok : copy' = [copy EXCEPT ![c] = [messages |-> m, ok |-> ok]]
      BY <2>3
    <3> HIDE DEF c
    <3> QED
      BY <2>2, <3>1, CopyKept DEF ReadInv
  <2>6. /\ ~reader'[s].result
        /\ \A t \in Statements : t # s => reader'[t] = reader[t]
        /\ \A d \in Connections : d # c => copy'[d] = copy[d]
    BY <1>1, <2>1, <2>3 DEF Consumed
  <2>7. \A t \in Statements : t # s /\ reader[t].result =>
          stmt[t].connection # c /\ stmt[t].connection \in Connections
    BY <2>1 DEF ReadInv, Unread
  <2>8. Unread'
    BY <2>1, <2>6, <2>7, SMT DEF ReadInv, Unread
  <2> QED
    BY <2>1, <2>4, <2>5, <2>8 DEF ReadInv, ReaderTypes
<1>5. CASE \E k \in 1..Len(streams[s]) : StreamRelease(s, k)
  <2>1. /\ reader' = [reader EXCEPT ![s] = NoReader] /\ copy' = copy /\ fault' = fault
        /\ stmt' = stmt /\ Calls(s)
    BY <1>5 DEF StreamRelease
  <2>2. stmt[s].connection \in Connections
    BY <2>1 DEF ReadInv, CallTypes, StatementType, Calls
  <2> QED
    BY <2>1, <2>2, ReadDrops
<1> QED
  BY <1>2, <1>3, <1>4, <1>5 DEF StreamStep

LEMMA ReadConnection ==
  ASSUME ReadInv, CallTypes', Habits \cap {"overlap", "cut"} = {},
         NEW c \in Connections, ConnectionStep(c) \/ SessionStep(c)
  PROVE  ReadInv'
<1>1. /\ reader' = reader /\ stmt' = stmt /\ fault' = fault
  BY DEF ConnectionStep, SessionStep
<1>2. copy = [d \in Connections |-> [messages |-> copy[d].messages, ok |-> copy[d].ok]]
  BY DEF ReadInv, ReaderTypes
<1>3. ASSUME NEW m, NEW ok, copy' = [copy EXCEPT ![c] = [messages |-> m, ok |-> ok]],
             \A s \in Statements :
               reader[s].result /\ stmt[s].connection = c => m \in Seq(Wire) \ {<<>>}
      PROVE  ReadInv'
  <2>1. ReaderTypes'
    <3>1. copy' = [d \in Connections |-> [messages |-> copy'[d].messages, ok |-> copy'[d].ok]]
      BY <1>3, CopyKept DEF ReadInv
    <3> QED
      BY <1>1, <3>1 DEF ReadInv, ReaderTypes
  <2>2. copy'[c].messages = m /\ \A d \in Connections : d # c => copy'[d] = copy[d]
    BY <1>2, <1>3
  <2>3. Unread'
    BY <1>1, <1>3, <2>2, SMT DEF ReadInv, Unread
  <2> QED
    BY <1>1, <2>1, <2>3 DEF ReadInv
<1>4. CASE ConnectionStep(c)
  <2>1. \A s \in Statements : reader[s].result => stmt[s].connection # c
    BY <1>4 DEF ConnectionStep, MayUse, On
  <2>2. copy' = [copy EXCEPT ![c] = [messages |-> <<>>, ok |-> FALSE]]
    BY <1>4 DEF ConnectionStep, PQexec, NoCopy
  <2> QED
    BY <1>3, <2>1, <2>2
<1>5. CASE SessionStep(c)
  <2> DEFINE m == copy[c].messages
  <2>1. PICK n \in 0..Len(m) :
          /\ (n = 0 /\ \E s \in On(c) : reader[s].result) => "cut" \in Habits
          /\ copy' = [copy EXCEPT ![c] = [messages |-> SubSeq(m, 1, n), ok |-> @.ok /\ n = Len(m)]]
    BY <1>5 DEF SessionStep
  <2> DEFINE ok == copy[c].ok /\ n = Len(m)
  <2>2. copy' = [copy EXCEPT ![c] = [messages |-> SubSeq(m, 1, n), ok |-> ok]]
    BY <2>1
  <2>3. ASSUME NEW s \in Statements, reader[s].result, stmt[s].connection = c
        PROVE  SubSeq(m, 1, n) \in Seq(Wire) \ {<<>>}
    <3>1. m \in Seq(Wire) /\ n # 0
      BY <2>1, <2>3 DEF ReadInv, Unread, On
    <3> HIDE DEF m
    <3> QED
      BY <2>1, <3>1, SMT
  <2> HIDE DEF m, ok
  <2> QED
    BY <1>3, <2>2, <2>3
<1> QED
  BY <1>4, <1>5

LEMMA ReadStep ==
  ASSUME Habits \cap {"overlap", "cut"} = {}
  PROVE  ReadInv /\ [Next]_vars => ReadInv'
<1> SUFFICES ASSUME ReadInv, [Next]_vars PROVE ReadInv'
  OBVIOUS
<1>1. CallTypes'
  BY CallTypesStep DEF ReadInv
<1>2. CASE UNCHANGED <<stmt, reader, copy, fault>>
  BY <1>1, <1>2, ReadAlone
<1>3. ASSUME NEW s \in Statements, BoundStep(s)
      PROVE  UNCHANGED <<stmt, reader, copy, fault>>
  BY <1>3 DEF BoundStep, CreateBulkTable, PrepareRows, ExecuteRow, BoundMismatch, BoundReturns,
              BoundRefused, BoundFails
<1>4. DatabaseStep => UNCHANGED <<stmt, reader, copy, fault>>
  BY DEF DatabaseStep, stmtVars
<1>5. UNCHANGED vars => UNCHANGED <<stmt, reader, copy, fault>>
  BY DEF vars, stmtVars
<1> QED
  BY <1>1, <1>2, <1>3, <1>4, <1>5, ReadStatement, ReadStream, ReadConnection DEF Next

\* GetNext never reads the null pointer that it gets when no message is there, for
\* any number of connections and statements and any order of calls, if callers
\* read a result before they use its connection again, and if the first message
\* of every result arrives.  The query may fail, and the session end, after that.
THEOREM ReadsAreSafe ==
  ASSUME Habits \cap {"overlap", "cut"} = {}
  PROVE  Spec => []NoFault
<1>1. ReadInv /\ [Next]_vars => ReadInv'
  BY ReadStep
<1>2. ReadInv => NoFault
  BY DEF ReadInv, NoFault
<1> QED
  BY ReadInit, <1>1, <1>2, PTL DEF Spec
-----------------------------------------------------------------------------
(* What streams deliver.                                                   *)

StreamType ==
  [query : Queries, live : BOOLEAN, got : {<<>>} \cup {Result[q] : q \in Queries},
   end : {"none", "clean", "error"}]

\* The statement's reader has the query's schema, and the COPY of its connection
\* the first messages of the query's result: all of them, if it ends well.
Incoming(s, q) ==
  LET m == copy[stmt[s].connection].messages
  IN /\ reader[s].schema = InferSchema(TypeMapping(pg_type), Columns[q])
     /\ reader[s].schema # <<>>
     /\ Len(m) <= Len(Messages(q))
     /\ \A i \in 1..Len(m) : m[i] = Messages(q)[i]
     /\ copy[stmt[s].connection].ok => Len(m) = Len(Messages(q))

\* A stream has delivered nothing, then all or an error.
Delivers(s, x) ==
  /\ reader[s].result => x.live /\ x.got = <<>> /\ x.end = "none" /\ Incoming(s, x.query)
  /\ ~reader[s].result /\ x.live /\ x.end = "none" => x.got = Result[x.query]
  /\ x.got # <<>> => x.got = Result[x.query]
  /\ x.end = "clean" /\ x.live => x.got = Result[x.query]

\* A statement has exported one stream at most.
Exported(s) ==
  \/ streams[s] = <<>> /\ ~reader[s].result
  \/ \E x \in StreamType : streams[s] = <<x>> /\ Delivers(s, x)

StreamInv ==
  /\ ReadInv
  /\ streams = [s \in Statements |-> streams[s]]
  /\ \A s \in Statements : Exported(s)

LEMMA StreamInit == Init => StreamInv
<1> SUFFICES ASSUME Init PROVE StreamInv
  OBVIOUS
<1>1. ReadInv
  BY ReadInit
<1>2. \A s \in Statements : streams[s] = <<>> /\ ~reader[s].result
  BY DEF Init, NoReader
<1> QED
  BY <1>1, <1>2 DEF StreamInv, Exported, Init

LEMMA StreamsFaithful == StreamInv => StreamIsFaithful
<1> SUFFICES ASSUME StreamInv, NEW s \in Statements, streams[s] # <<>>
             PROVE  LET x == streams[s][Len(streams[s])]
                    IN /\ x.got # <<>> => x.got = Result[x.query]
                       /\ x.end = "clean" /\ x.live => x.got = Result[x.query]
  BY DEF StreamIsFaithful
<1>1. PICK x \in StreamType : streams[s] = <<x>> /\ Delivers(s, x)
  BY DEF StreamInv, Exported
<1>2. streams[s][Len(streams[s])] = x
  BY <1>1, SMT
<1> QED
  BY <1>1, <1>2 DEF Delivers

\* A statement whose reader, streams and COPY stay.
LEMMA ExportedSame ==
  ASSUME StreamInv, NEW s \in Statements,
         streams'[s] = streams[s], reader'[s] = reader[s],
         reader[s].result => /\ stmt'[s].connection = stmt[s].connection
                             /\ copy'[stmt[s].connection] = copy[stmt[s].connection]
  PROVE  Exported(s)'
<1>1. Exported(s)
  BY DEF StreamInv
<1>2. CASE streams[s] = <<>> /\ ~reader[s].result
  BY <1>2 DEF Exported
<1>3. ASSUME NEW x \in StreamType, streams[s] = <<x>>, Delivers(s, x)
      PROVE  Delivers(s, x)'
  <2>1. reader[s].result => (Incoming(s, x.query) <=> Incoming(s, x.query)')
    BY DEF Incoming
  <2> QED
    BY <1>3, <2>1 DEF Delivers
<1> QED
  BY <1>1, <1>2, <1>3 DEF Exported

\* Steps that leave readers and streams alone.
LEMMA StreamsAlone ==
  ASSUME StreamInv, ReadInv', streams' = streams, reader' = reader,
         \A s \in Statements : reader[s].result =>
           /\ stmt'[s].connection = stmt[s].connection
           /\ copy'[stmt[s].connection] = copy[stmt[s].connection]
  PROVE  StreamInv'
<1>1. \A s \in Statements : Exported(s)'
  BY ExportedSame
<1> QED
  BY <1>1 DEF StreamInv

\* Steps that concern a statement, and perhaps the COPY of a connection on which
\* no other statement has a result.
LEMMA StreamsOfOne ==
  ASSUME StreamInv, ReadInv', NEW s \in Statements, Exported(s)',
         streams' = [t \in Statements |-> streams'[t]],
         \A t \in Statements : t # s =>
           /\ streams'[t] = streams[t] /\ reader'[t] = reader[t]
           /\ stmt'[t].connection = stmt[t].connection,
         \A t \in Statements :
           t # s /\ reader[t].result => copy'[stmt[t].connection] = copy[stmt[t].connection]
  PROVE  StreamInv'
<1>1. ASSUME NEW t \in Statements, t # s
      PROVE  Exported(t)'
  <2>1. streams'[t] = streams[t] /\ reader'[t] = reader[t]
    BY <1>1
  <2>2. reader[t].result => copy'[stmt[t].connection] = copy[stmt[t].connection]
    BY <1>1
  <2> QED
    BY <1>1, <2>1, <2>2, ExportedSame
<1> QED
  BY <1>1 DEF StreamInv

\* A server whose types are not known gives no schema.
LEMMA NoTypesNoSchema ==
  ASSUME NEW q \in Queries, InferSchema(TypeMapping(Types), Columns[q]) # <<>>
  PROVE  Types = pg_type
<1> SUFFICES ASSUME Types = {} PROVE InferSchema(TypeMapping(Types), Columns[q]) = <<>>
  BY DEF Types
<1>1. DOMAIN TypeMapping({}) = {}
  BY DEF TypeMapping
<1>2. Len(Columns[q]) \in Nat
  BY ResultAssumption, SMT
<1>3. CASE Len(Columns[q]) = 0
  <2>1. 1..Len(Columns[q]) = {}
    BY <1>3, SMT
  <2>2. InferSchema(TypeMapping({}), Columns[q])
          = [i \in {} |-> ArrowTypes[TypeMapping({})[Columns[q][i]]]]
    BY <2>1 DEF InferSchema
  <2> QED
    BY <2>2, SMT
<1>4. CASE Len(Columns[q]) # 0
  <2>1. 1 \in 1..Len(Columns[q])
    BY <1>2, <1>4, SMT
  <2> QED
    BY <1>1, <2>1 DEF InferSchema
<1> QED
  BY <1>3, <1>4

LEMMA StreamsStatement ==
  ASSUME StreamInv, ReadInv', Habits \cap {"overlap", "cut", "late"} = {},
         NEW s \in Statements, StatementStep(s)
  PROVE  StreamInv'
<1>1. /\ reader = [t \in Statements |-> reader[t]] /\ streams = [t \in Statements |-> streams[t]]
      /\ copy = [c \in Connections |-> copy[c]] /\ stmt \in [Statements -> StatementType]
  BY DEF StreamInv, ReadInv, ReaderTypes, CallTypes
<1>2. Executes(s) => /\ stmt[s].connection \in Connections
                     /\ \A t \in Statements :
                          t # s /\ reader[t].result => stmt[t].connection # stmt[s].connection
  BY OthersRead DEF StreamInv, ReadInv
<1>3. CASE \E c \in Connections : StatementNew(s, c)
  <2>1. /\ stmt[s].connection = None /\ \A t \in Statements : t # s => stmt'[t] = stmt[t]
        /\ reader' = reader /\ streams' = streams /\ copy' = copy
    BY <1>1, <1>3 DEF StatementNew
  <2>2. ~reader[s].result
    BY <2>1, BindingsAssumption DEF StreamInv, ReadInv, Unread
  <2> QED
    BY <2>1, <2>2, StreamsAlone
<1>4. CASE \/ \E q \in Queries \cup {"update"} : SetSqlQuery(s, q)
           \/ SetTarget(s) \/ Prepare(s)
           \/ \E append \in BOOLEAN : SetMode(s, append)
           \/ \E b \in Bindings : Bind(s, b)
  <2>1. reader' = reader /\ streams' = streams /\ copy' = copy
    BY <1>4 DEF SetSqlQuery, SetTarget, Prepare, SetMode, Bind
  <2>2. \A t \in Statements : stmt'[t].connection = stmt[t].connection
    BY <1>1, <1>4, SettingsKeepConnection
  <2> QED
    BY <2>1, <2>2, StreamsAlone
<1>5. ASSUME reader' = [reader EXCEPT ![s] = NoReader], streams' = [streams EXCEPT ![s] = <<>>],
             \A t \in Statements : t # s => stmt'[t].connection = stmt[t].connection,
             NEW c,
             copy' = copy \/ copy' = [copy EXCEPT ![c] = NoCopy],
             \A t \in Statements : t # s /\ reader[t].result => stmt[t].connection # c
      PROVE  StreamInv'
  <2>1. streams'[s] = <<>> /\ reader'[s] = NoReader
    BY <1>1, <1>5
  <2>2. Exported(s)'
    BY <2>1, SMT DEF Exported, NoReader
  <2>3. /\ streams' = [t \in Statements |-> streams'[t]]
        /\ \A t \in Statements : t # s => streams'[t] = streams[t] /\ reader'[t] = reader[t]
        /\ \A d \in Connections : d # c => copy'[d] = copy[d]
    BY <1>1, <1>5
  <2>4. \A t \in Statements : t # s =>
          /\ streams'[t] = streams[t] /\ reader'[t] = reader[t]
          /\ stmt'[t].connection = stmt[t].connection
    BY <1>5, <2>3
  <2>5. \A t \in Statements :
          t # s /\ reader[t].result => copy'[stmt[t].connection] = copy[stmt[t].connection]
    BY <1>5, <2>3 DEF StreamInv, ReadInv, Unread
  <2> QED
    BY <2>2, <2>3, <2>4, <2>5, StreamsOfOne
<1>6. CASE StatementRelease(s)
  <2>1. /\ reader' = [reader EXCEPT ![s] = NoReader] /\ streams' = [streams EXCEPT ![s] = <<>>]
        /\ copy' = copy /\ \A t \in Statements : t # s => stmt'[t].connection = stmt[t].connection
    BY <1>1, <1>6 DEF StatementRelease
  <2>2. \A t \in Statements : t # s /\ reader[t].result => stmt[t].connection # None
    BY BindingsAssumption DEF StreamInv, ReadInv, Unread
  <2> QED
    BY <1>5, <2>1, <2>2
<1>7. CASE \/ \E stream \in BOOLEAN :
                ExecuteRefused(s, stream) \/ ExecuteMismatch(s, stream) \/ ExecuteFails(s, stream)
           \/ ExecuteUnknownType(s) \/ ExecuteUpdate(s) \/ BoundBegin(s)
  <2>1. /\ Executes(s)
        /\ reader' = [reader EXCEPT ![s] = NoReader] /\ streams' = [streams EXCEPT ![s] = <<>>]
        /\ copy' = copy \/ copy' = [copy EXCEPT ![stmt[s].connection] = NoCopy]
    BY <1>7 DEF ExecuteRefused, ExecuteMismatch, ExecuteFails, ExecuteUnknownType, ExecuteUpdate,
                BoundBegin, Sends, ClearResult, PQexec
  <2>2. \A t \in Statements : t # s => stmt'[t].connection = stmt[t].connection
    BY <1>1, <1>7 DEF ExecuteRefused, ExecuteMismatch, ExecuteFails, ExecuteUnknownType,
                      ExecuteUpdate, BoundBegin
  <2> QED
    BY <1>2, <1>5, <2>1, <2>2
<1>8. CASE ExecuteQuery(s)
  <2>1. PICK q, c, schema :
          /\ q \in Queries /\ q = stmt[s].query /\ c = stmt[s].connection
          /\ schema = InferSchema(TypeMapping(Types), Columns[q])
    BY <1>8 DEF ExecuteQuery
  <2> DEFINE x == [query |-> q, live |-> TRUE, got |-> <<>>, end |-> "none"]
             r == [result |-> TRUE, schema |-> schema]
  <2>2. /\ Executes(s) /\ schema # <<>> /\ stmt' = stmt
        /\ reader' = [reader EXCEPT ![s] = r]
        /\ streams' = [streams EXCEPT ![s] = Append(<<>>, x)]
    BY <1>8, <2>1 DEF ExecuteQuery, Sends
  <2>3. PICK n \in 1..Len(Messages(q)) :
          copy' = [copy EXCEPT ![c] = [messages |-> SubSeq(Messages(q), 1, n),
                                       ok |-> n = Len(Messages(q))]]
    <3>1. PICK n \in 0..Len(Messages(q)) :
            /\ n # 0
            /\ copy' = [copy EXCEPT ![c] = [messages |-> SubSeq(Messages(q), 1, n),
                                            ok |-> n = Len(Messages(q))]]
      BY <1>8, <2>1 DEF ExecuteQuery
    <3>2. n \in 1..Len(Messages(q))
      BY <3>1, <2>1, MessagesType, SMT
    <3> QED
      BY <3>1, <3>2
  <2>4. c \in Connections /\ \A t \in Statements : t # s /\ reader[t].result => stmt[t].connection # c
    BY <1>2, <2>1, <2>2
  <2>5. schema = InferSchema(TypeMapping(pg_type), Columns[q])
    BY <2>1, <2>2, NoTypesNoSchema
  <2>6. x \in StreamType
    BY <2>1 DEF StreamType
  <2>7. x.query = q /\ x.live /\ x.got = <<>> /\ x.end = "none" /\ r.result /\ r.schema = schema
    OBVIOUS
  <2> DEFINE m == SubSeq(Messages(q), 1, n)
  <2>8. Len(m) = n /\ \A i \in 1..n : m[i] = Messages(q)[i]
    BY MessagesType, SMT
  <2>9. n \in Nat /\ n <= Len(Messages(q))
    BY MessagesType, SMT
  <2>10. copy'[c].messages = m /\ copy'[c].ok = (n = Len(Messages(q)))
    BY <1>1, <2>3, <2>4
  <2>11. reader'[s] = r /\ streams'[s] = <<x>> /\ stmt'[s].connection = c
    <3> HIDE DEF x, r
    <3> QED
      BY <1>1, <2>1, <2>2, SMT
  <2> HIDE DEF x, r, m
  <2>12. Incoming(s, q)'
    BY <2>2, <2>5, <2>7, <2>8, <2>9, <2>10, <2>11 DEF Incoming
  <2>13. Delivers(s, x)'
    BY <2>7, <2>11, <2>12 DEF Delivers
  <2>14. Exported(s)'
    BY <2>6, <2>11, <2>13 DEF Exported
  <2>15. /\ streams' = [t \in Statements |-> streams'[t]]
         /\ \A t \in Statements : t # s =>
              /\ streams'[t] = streams[t] /\ reader'[t] = reader[t]
              /\ stmt'[t].connection = stmt[t].connection
    BY <1>1, <2>2
  <2>16. \A d \in Connections : d # c => copy'[d] = copy[d]
    BY <1>1, <2>3
  <2>17. \A t \in Statements :
           t # s /\ reader[t].result => copy'[stmt[t].connection] = copy[stmt[t].connection]
    BY <2>4, <2>16 DEF StreamInv, ReadInv, Unread
  <2> QED
    BY <2>14, <2>15, <2>17, StreamsOfOne
<1> QED
  BY <1>3, <1>4, <1>6, <1>7, <1>8 DEF StatementStep

\* The message without fields ends the data.
LEMMA EndOfData == \A h : Message(h, <<>>).fields = -1
BY DEF Message

\* What GetNext makes of a message of the result.
LEMMA Decoded ==
  ASSUME NEW q \in Queries, Decodable(q), NEW schema, schema # <<>>,
         schema = InferSchema(TypeMapping(pg_type), Columns[q]),
         NEW i \in 1..Len(Messages(q))
  PROVE  /\ Messages(q)[i].header = (i = 1)
         /\ i = Len(Result[q]) + 1 => Messages(q)[i].fields = -1
         /\ i \in 1..Len(Result[q]) =>
              /\ Messages(q)[i].fields # -1
              /\ Result[q][i] # <<>> /\ Garbage \notin Range(Result[q][i])
              /\ AppendNext(schema, Messages(q)[i].fields, Messages(q)[i].bytes) = Result[q][i]
<1>1. Len(Result[q]) \in Nat /\ i \in 1..(Len(Result[q]) + 1)
  BY MessagesType
<1>2. Messages(q)[i] = Message(i = 1, IF i > Len(Result[q]) THEN <<>> ELSE Result[q][i])
  BY <1>1 DEF Messages
<1>3. Messages(q)[i].header = (i = 1)
  BY <1>2, SMT DEF Message
<1>4. ASSUME i = Len(Result[q]) + 1 PROVE Messages(q)[i].fields = -1
  <2>1. i > Len(Result[q])
    BY <1>1, <1>4, SMT
  <2>2. Messages(q)[i] = Message(i = 1, <<>>)
    BY <1>2, <2>1
  <2> QED
    BY <2>2, EndOfData
<1>5. ASSUME i \in 1..Len(Result[q])
      PROVE  /\ Messages(q)[i].fields # -1
             /\ Result[q][i] # <<>> /\ Garbage \notin Range(Result[q][i])
             /\ AppendNext(schema, Messages(q)[i].fields, Messages(q)[i].bytes) = Result[q][i]
  <2> DEFINE row == Result[q][i]
  <2>1. row \in Seq(Cells) /\ row # <<>>
    BY <1>5, ResultAssumption, SMT
  <2>7. Garbage \notin Range(row)
    <3>1. \A j \in DOMAIN row : row[j] \in Cells
      <4> HIDE DEF row
      <4> QED
        BY <2>1, SMT
    <3> QED
      BY <3>1, ResultAssumption DEF Range
  <2>2. ~(i > Len(Result[q]))
    BY <1>1, <1>5, SMT
  <2>3. Messages(q)[i] = Message(i = 1, row)
    BY <1>2, <2>2
  <2>4. AppendNext(schema, Len(row), Tuple(row)) = row
    BY <1>5 DEF Decodable
  <2> HIDE DEF row
  <2>5. Messages(q)[i].fields = Len(row) /\ Messages(q)[i].bytes = Tuple(row)
    BY <2>1, <2>3, SMT DEF Message
  <2>6. Len(row) # -1
    BY <2>1, SMT
  <2> QED
    BY <2>1, <2>4, <2>5, <2>6, <2>7 DEF row
<1> QED
  BY <1>3, <1>4, <1>5

\* What the caller gets goes to the one stream.
LEMMA GotOne ==
  ASSUME streams = [t \in Statements |-> streams[t]], NEW s \in Statements,
         NEW x \in StreamType, streams[s] = <<x>>,
         NEW rows \in {<<>>} \cup {Result[q] : q \in Queries},
         NEW how \in {"none", "clean", "error"}, Got(s, rows, how)
  PROVE  /\ streams' = [t \in Statements |-> streams'[t]]
         /\ \A t \in Statements : t # s => streams'[t] = streams[t]
         /\ \E y \in StreamType :
              /\ streams'[s] = <<y>> /\ y.query = x.query /\ y.live = x.live
              /\ y.got = rows /\ y.end = how
<1> DEFINE y == [x EXCEPT !.got = rows, !.end = how]
<1>1. Len(streams[s]) = 1 /\ streams[s][1] = x
  BY SMT
<1>2. streams' = [streams EXCEPT ![s] = [streams[s] EXCEPT ![1] = y]]
  BY <1>1 DEF Got
<1>3. y \in StreamType /\ y.query = x.query /\ y.live = x.live /\ y.got = rows /\ y.end = how
  BY DEF StreamType
<1> HIDE DEF y
<1>4. streams'[s] = [streams[s] EXCEPT ![1] = y]
  BY <1>2
<1>5. [<<x>> EXCEPT ![1] = y] = <<y>>
  BY SMT
<1>6. streams'[s] = <<y>>
  BY <1>4, <1>5
<1>7. /\ streams' = [t \in Statements |-> streams'[t]]
      /\ \A t \in Statements : t # s => streams'[t] = streams[t]
  BY <1>2
<1> QED
  BY <1>3, <1>6, <1>7

\* Some places are among more places, and all but the last of them.
LEMMA Places ==
  /\ \A k, n \in Nat : k <= n => \A i \in 1..k : i \in 1..n
  /\ \A n \in Nat : {i \in 1..(n + 1) : i \in 1..n} = 1..n
  /\ \A n \in Nat : \A i \in 1..n : i \in 1..(n + 1)
BY SMT

\* GetNext delivers the result, or an error.
LEMMA NextDelivers ==
  ASSUME StreamInv, NEW s \in Statements, NEW x \in StreamType, streams[s] = <<x>>,
         Delivers(s, x), Decodable(x.query), GetNext(s)
  PROVE  /\ PQexec(stmt[s].connection)
         /\ Got(s, Result[x.query], "none") \/ Got(s, <<>>, "error")
<1> DEFINE q == x.query
           m == copy[stmt[s].connection].messages
           row(i) == AppendNext(reader[s].schema, m[i].fields, m[i].bytes)
           data == {i \in 1..Len(m) : m[i].fields # -1}
           bad == {i \in data : row(i) = <<>>}
           wild == {i \in data : Garbage \in Range(row(i))}
<1>1. reader[s].result /\ m # <<>> /\ q \in Queries
  BY DEF GetNext, StreamType
<1>2. Incoming(s, q)
  BY <1>1 DEF Delivers
<1>3. m \in Seq(Wire)
  BY <1>1 DEF StreamInv, ReadInv, Unread
<1>4. Len(Messages(q)) = Len(Result[q]) + 1 /\ Len(Result[q]) \in Nat
  BY <1>1, MessagesType
<1>5. Len(m) \in Nat /\ 1 <= Len(m) /\ Len(m) <= Len(Result[q]) + 1
  <2>1. Len(m) <= Len(Messages(q))
    BY <1>2 DEF Incoming
  <2> HIDE DEF m
  <2> QED
    BY <1>1, <1>3, <1>4, <2>1, SMT
<1>6. ASSUME NEW i \in 1..Len(m)
      PROVE  /\ m[i].header = (i = 1)
             /\ i = Len(Result[q]) + 1 => m[i].fields = -1
             /\ i \in 1..Len(Result[q]) =>
                  /\ m[i].fields # -1 /\ row(i) = Result[q][i]
                  /\ row(i) # <<>> /\ Garbage \notin Range(row(i))
  <2>1. m[i] = Messages(q)[i] /\ i \in 1..Len(Messages(q))
    <3>1. Len(Messages(q)) \in Nat /\ Len(m) <= Len(Messages(q))
      <4> HIDE DEF m, q
      <4> QED
        BY <1>4, <1>5, SMT
    <3> QED
      BY <1>2, <1>5, <3>1, Places DEF Incoming
  <2>2. /\ reader[s].schema # <<>>
        /\ reader[s].schema = InferSchema(TypeMapping(pg_type), Columns[q])
    BY <1>2 DEF Incoming
  <2>3. /\ Messages(q)[i].header = (i = 1)
        /\ i = Len(Result[q]) + 1 => Messages(q)[i].fields = -1
        /\ i \in 1..Len(Result[q]) =>
             /\ Messages(q)[i].fields # -1
             /\ Result[q][i] # <<>> /\ Garbage \notin Range(Result[q][i])
             /\ AppendNext(reader[s].schema, Messages(q)[i].fields, Messages(q)[i].bytes)
                  = Result[q][i]
    BY <1>1, <2>1, <2>2, Decoded, SMT
  <2> QED
    BY <2>1, <2>3
<1>7. data = {i \in 1..Len(m) : i \in 1..Len(Result[q])}
  <2>1. ASSUME NEW i \in 1..Len(m)
        PROVE  m[i].fields # -1 <=> i \in 1..Len(Result[q])
    <3>1. i \in 1..Len(Result[q]) \/ (i = Len(Result[q]) + 1 /\ i \notin 1..Len(Result[q]))
      BY <1>4, <1>5, SMT
    <3> QED
      BY <1>6, <3>1
  <2> QED
    BY <2>1
<1>8. m[1].header
  <2>1. 1 \in 1..Len(m)
    BY <1>5, SMT
  <2>2. m[1].header = (1 = 1)
    BY <1>6, <2>1
  <2> QED
    BY <2>2
<1>9. bad = {} /\ wild = {}
  BY <1>6, <1>7
<1>10. /\ PQexec(stmt[s].connection)
       /\ IF copy[stmt[s].connection].ok
            THEN Got(s, AppendedRows(reader[s].schema, [i \in data |-> row(i)]), "none")
            ELSE Got(s, <<>>, "error")
  BY <1>8, <1>9 DEF GetNext
<1>11. ASSUME copy[stmt[s].connection].ok
       PROVE  [i \in data |-> row(i)] = Result[q]
  <2>1. Len(m) = Len(Result[q]) + 1
    BY <1>2, <1>4, <1>11 DEF Incoming
  <2>2. data = 1..Len(Result[q])
    BY <1>4, <1>7, <2>1, Places
  <2>3. \A i \in 1..Len(Result[q]) : row(i) = Result[q][i]
    BY <1>4, <1>6, <2>1, Places
  <2>4. Result[q] = [i \in 1..Len(Result[q]) |-> Result[q][i]]
    <3>1. Result[q] \in Seq(Seq(Cells) \ {<<>>})
      BY <1>1, ResultAssumption
    <3> HIDE DEF q
    <3> QED
      BY <3>1, SMT
  <2> QED
    BY <2>2, <2>3, <2>4
<1>12. AppendedRows(reader[s].schema, Result[q]) = Result[q]
  BY <1>2 DEF Incoming, Decodable
<1> QED
  BY <1>10, <1>11, <1>12

LEMMA StreamsRead ==
  ASSUME StreamInv, ReadInv', Habits \cap {"overlap", "cut", "late"} = {},
         \A q \in Queries : Decodable(q), NEW s \in Statements, StreamStep(s)
  PROVE  StreamInv'
<1>1. /\ reader \in [Statements -> [result : BOOLEAN, schema : Seq(Range(ArrowTypes))]]
      /\ streams = [t \in Statements |-> streams[t]] /\ copy = [c \in Connections |-> copy[c]]
  BY DEF StreamInv, ReadInv, ReaderTypes
<1>2. streams[s] # <<>> /\ stmt' = stmt
  <2>1. CASE GetNextEnd(s) \/ GetNextFaults(s) \/ GetNext(s)
    BY <2>1 DEF GetNextEnd, GetNextFaults, GetNext, MayRead
  <2>2. CASE \E k \in 1..Len(streams[s]) : StreamRelease(s, k)
    <3>1. 1..Len(<<>>) = {}
      BY SMT
    <3> QED
      BY <2>2, <3>1 DEF StreamRelease
  <2> QED
    BY <2>1, <2>2 DEF StreamStep
<1>3. PICK x \in StreamType : streams[s] = <<x>> /\ Delivers(s, x)
  BY <1>2 DEF StreamInv, Exported
<1>4. streams[s][Len(streams[s])] = x /\ Len(streams[s]) = 1 /\ x.query \in Queries
  BY <1>3, SMT DEF StreamType
<1>5. ASSUME NEW y \in StreamType, streams'[s] = <<y>>, Delivers(s, y)',
             streams' = [t \in Statements |-> streams'[t]],
             \A t \in Statements : t # s => streams'[t] = streams[t] /\ reader'[t] = reader[t],
             \A t \in Statements :
               t # s /\ reader[t].result => copy'[stmt[t].connection] = copy[stmt[t].connection]
      PROVE  StreamInv'
  <2>1. Exported(s)'
    BY <1>5 DEF Exported
  <2>2. \A t \in Statements : t # s =>
          /\ streams'[t] = streams[t] /\ reader'[t] = reader[t]
          /\ stmt'[t].connection = stmt[t].connection
    BY <1>2, <1>5
  <2> QED
    BY <1>5, <2>1, <2>2, StreamsOfOne
<1>6. CASE GetNextEnd(s)
  <2>1. /\ ~reader[s].result /\ x.live /\ x.end = "none" /\ Got(s, x.got, "clean")
        /\ reader' = reader /\ copy' = copy
    BY <1>4, <1>6 DEF GetNextEnd, MayRead
  <2>2. /\ x.got \in {<<>>} \cup {Result[q] : q \in Queries}
        /\ "clean" \in {"none", "clean", "error"}
    BY DEF StreamType
  <2>3. /\ streams' = [t \in Statements |-> streams'[t]]
        /\ \A t \in Statements : t # s => streams'[t] = streams[t]
        /\ \E y \in StreamType : /\ streams'[s] = <<y>> /\ y.query = x.query /\ y.live = x.live
                                 /\ y.got = x.got /\ y.end = "clean"
    <3>1. PICK rows \in {<<>>} \cup {Result[q] : q \in Queries}, how \in {"none", "clean", "error"} :
            rows = x.got /\ how = "clean"
      BY <2>2
    <3>2. Got(s, rows, how)
      BY <2>1, <3>1
    <3>3. /\ streams' = [t \in Statements |-> streams'[t]]
          /\ \A t \in Statements : t # s => streams'[t] = streams[t]
          /\ \E y \in StreamType : /\ streams'[s] = <<y>> /\ y.query = x.query /\ y.live = x.live
                                   /\ y.got = rows /\ y.end = how
      BY <1>1, <1>3, <3>2, GotOne, SMT
    <3> QED
      BY <3>1, <3>3
  <2>4. PICK y \in StreamType : /\ streams'[s] = <<y>> /\ y.query = x.query /\ y.live = x.live
                                /\ y.got = x.got /\ y.end = "clean"
    BY <2>3
  <2>5. Delivers(s, y)'
    BY <1>3, <2>1, <2>4 DEF Delivers
  <2> QED
    BY <1>5, <2>1, <2>3, <2>4, <2>5
<1>7. CASE GetNextFaults(s)
  <2>1. reader[s].result /\ copy[stmt[s].connection].messages = <<>>
    BY <1>7 DEF GetNextFaults
  <2> QED
    BY <2>1 DEF StreamInv, ReadInv, Unread
<1>8. CASE GetNext(s)
  <2>1. reader' = [reader EXCEPT ![s] = Consumed(@)] /\ reader[s].result
    BY <1>8 DEF GetNext
  <2>2. ~reader'[s].result /\ \A t \in Statements : t # s => reader'[t] = reader[t]
    BY <1>1, <2>1 DEF Consumed
  <2>3. /\ copy' = [copy EXCEPT ![stmt[s].connection] = NoCopy]
        /\ Got(s, Result[x.query], "none") \/ Got(s, <<>>, "error")
    BY <1>3, <1>4, <1>8, NextDelivers DEF PQexec
  <2>4. ASSUME NEW t \in Statements, t # s, reader[t].result
        PROVE  copy'[stmt[t].connection] = copy[stmt[t].connection]
    <3>1. stmt[t].connection \in Connections /\ stmt[t].connection # stmt[s].connection
      BY <2>1, <2>4 DEF StreamInv, ReadInv, Unread
    <3> QED
      BY <1>1, <2>3, <3>1
  <2>5. ASSUME NEW rows \in {<<>>} \cup {Result[q] : q \in Queries},
               NEW how \in {"none", "clean", "error"}, Got(s, rows, how),
               \/ rows = Result[x.query] /\ how = "none"
               \/ rows = <<>> /\ how = "error"
        PROVE  StreamInv'
    <3>1. /\ streams' = [t \in Statements |-> streams'[t]]
          /\ \A t \in Statements : t # s => streams'[t] = streams[t]
          /\ \E y \in StreamType : /\ streams'[s] = <<y>> /\ y.query = x.query /\ y.live = x.live
                                   /\ y.got = rows /\ y.end = how
      BY <1>1, <1>3, <2>5, GotOne, SMT
    <3>2. PICK y \in StreamType : /\ streams'[s] = <<y>> /\ y.query = x.query /\ y.live = x.live
                                  /\ y.got = rows /\ y.end = how
      BY <3>1
    <3>3. Delivers(s, y)'
      BY <2>2, <2>5, <3>2 DEF Delivers
    <3> QED
      BY <1>5, <2>2, <2>4, <3>1, <3>2, <3>3
  <2>6. Result[x.query] \in {<<>>} \cup {Result[q] : q \in Queries}
    BY <1>4
  <2> QED
    BY <2>3, <2>5, <2>6
<1>9. CASE \E k \in 1..Len(streams[s]) : StreamRelease(s, k)
  <2> DEFINE y == [x EXCEPT !.live = FALSE]
  <2>1. StreamRelease(s, 1)
    BY <1>4, <1>9, SMT
  <2>2. /\ reader' = [reader EXCEPT ![s] = NoReader] /\ copy' = copy
        /\ streams' = [streams EXCEPT ![s] = [streams[s] EXCEPT ![1] = y]]
    BY <1>4, <2>1 DEF StreamRelease
  <2>3. y \in StreamType /\ y.query = x.query /\ ~y.live /\ y.got = x.got /\ y.end = x.end
    BY DEF StreamType
  <2> HIDE DEF y
  <2>4. streams'[s] = [<<x>> EXCEPT ![1] = y]
    BY <1>1, <1>3, <2>2
  <2>5. streams'[s] = <<y>>
    BY <2>4, SMT
  <2>6. NoReader.result = FALSE
    BY DEF NoReader
  <2>7. /\ ~reader'[s].result
        /\ \A t \in Statements : t # s => streams'[t] = streams[t] /\ reader'[t] = reader[t]
        /\ streams' = [t \in Statements |-> streams'[t]]
    BY <1>1, <2>2, <2>6
  <2>8. /\ x.got # <<>> => x.got = Result[x.query]
    BY <1>3 DEF Delivers
  <2>9. Delivers(s, y)'
    BY <2>3, <2>7, <2>8 DEF Delivers
  <2> QED
    BY <1>5, <2>2, <2>3, <2>5, <2>7, <2>9
<1> QED
  BY <1>6, <1>7, <1>8, <1>9 DEF StreamStep

LEMMA StreamsConnection ==
  ASSUME StreamInv, ReadInv', Habits \cap {"overlap", "cut", "late"} = {},
         NEW c \in Connections, ConnectionStep(c) \/ SessionStep(c)
  PROVE  StreamInv'
<1>1. stmt' = stmt /\ reader' = reader /\ streams' = streams
  BY DEF ConnectionStep, SessionStep
<1>2. copy = [d \in Connections |-> copy[d]]
  BY DEF StreamInv, ReadInv, ReaderTypes
<1>3. CASE ConnectionStep(c)
  <2>1. \A s \in Statements : reader[s].result => stmt[s].connection # c
    BY <1>3 DEF ConnectionStep, MayUse, On
  <2>2. copy' = [copy EXCEPT ![c] = NoCopy]
    BY <1>3 DEF ConnectionStep, PQexec
  <2>3. \A s \in Statements :
          reader[s].result => copy'[stmt[s].connection] = copy[stmt[s].connection]
    BY <1>2, <2>1, <2>2 DEF StreamInv, ReadInv, Unread
  <2> QED
    BY <1>1, <2>3, StreamsAlone
<1>4. CASE SessionStep(c)
  <2>1. PICK m : m = copy[c].messages
    OBVIOUS
  <2>2. PICK n \in 0..Len(m) :
          copy' = [copy EXCEPT ![c] = [messages |-> SubSeq(m, 1, n), ok |-> @.ok /\ n = Len(m)]]
    BY <1>4, <2>1 DEF SessionStep
  <2>3. copy'[c].messages = SubSeq(m, 1, n) /\ copy'[c].ok = (copy[c].ok /\ n = Len(m))
    BY <1>2, <2>2
  <2>4. ASSUME NEW s \in Statements, reader[s].result, stmt[s].connection = c
        PROVE  Exported(s)'
    <3>1. PICK x \in StreamType : streams[s] = <<x>> /\ Delivers(s, x)
      BY <2>4 DEF StreamInv, Exported
    <3>2. m \in Seq(Wire) /\ x.query \in Queries
      BY <2>1, <2>4 DEF StreamInv, ReadInv, Unread, StreamType
    <3>3. /\ reader[s].schema = InferSchema(TypeMapping(pg_type), Columns[x.query])
          /\ reader[s].schema # <<>>
          /\ Len(m) <= Len(Messages(x.query))
          /\ \A i \in 1..Len(m) : m[i] = Messages(x.query)[i]
          /\ copy[c].ok => Len(m) = Len(Messages(x.query))
      BY <2>1, <2>4, <3>1 DEF Delivers, Incoming
    <3>4. Len(Messages(x.query)) \in Nat
      BY <3>2, MessagesType, SMT
    <3>5. /\ Len(SubSeq(m, 1, n)) = n /\ n <= Len(m)
          /\ \A i \in 1..n : SubSeq(m, 1, n)[i] = m[i] /\ i \in 1..Len(m)
      BY <2>2, <3>2, SMT
    <3>6. n <= Len(Messages(x.query)) /\ \A i \in 1..n : SubSeq(m, 1, n)[i] = Messages(x.query)[i]
      BY <3>2, <3>3, <3>4, <3>5, SMT
    <3>7. copy'[c].ok => n = Len(Messages(x.query))
      BY <2>3, <3>3
    <3>8. Incoming(s, x.query)'
      BY <1>1, <2>3, <2>4, <3>3, <3>5, <3>6, <3>7 DEF Incoming
    <3>9. Delivers(s, x)'
      BY <1>1, <2>4, <3>1, <3>8 DEF Delivers
    <3> QED
      BY <1>1, <3>1, <3>9 DEF Exported
  <2>5. ASSUME NEW s \in Statements, ~(reader[s].result /\ stmt[s].connection = c)
        PROVE  Exported(s)'
    <3>1. reader[s].result => copy'[stmt[s].connection] = copy[stmt[s].connection]
      BY <1>2, <2>2, <2>5 DEF StreamInv, ReadInv, Unread
    <3> QED
      BY <1>1, <3>1, ExportedSame
  <2> QED
    BY <1>1, <2>4, <2>5 DEF StreamInv
<1> QED
  BY <1>3, <1>4

LEMMA StreamsStep ==
  ASSUME Habits \cap {"overlap", "cut", "late"} = {}, \A q \in Queries : Decodable(q)
  PROVE  StreamInv /\ [Next]_vars => StreamInv'
<1> SUFFICES ASSUME StreamInv, [Next]_vars PROVE StreamInv'
  OBVIOUS
<1>1. ReadInv'
  BY ReadStep DEF StreamInv
<1>2. CASE UNCHANGED <<stmt, reader, streams, copy>>
  BY <1>1, <1>2, StreamsAlone
<1>3. ASSUME NEW s \in Statements, BoundStep(s)
      PROVE  UNCHANGED <<stmt, reader, streams, copy>>
  BY <1>3 DEF BoundStep, CreateBulkTable, PrepareRows, ExecuteRow, BoundMismatch, BoundReturns,
              BoundRefused, BoundFails
<1>4. DatabaseStep \/ UNCHANGED vars => UNCHANGED <<stmt, reader, streams, copy>>
  BY DEF DatabaseStep, stmtVars, vars
<1> QED
  BY <1>1, <1>2, <1>3, <1>4, StreamsStatement, StreamsRead, StreamsConnection DEF Next

\* GetNext delivers the rows of its own query, all of them and in order, or an
\* error, for any number of connections and statements, results of any length
\* and sessions lost at any time after a first message: if callers take turns on
\* a connection and release a stream before they execute its statement again,
\* and the results are of the kind that AppendNext decodes: no int2 and no NULL
\* in front of another column, no NULL above a value in a column of strings.
THEOREM StreamsStayFaithful ==
  ASSUME Habits \cap {"overlap", "cut", "late"} = {}, \A q \in Queries : Decodable(q)
  PROVE  Spec => []StreamIsFaithful
<1>1. StreamInv /\ [Next]_vars => StreamInv'
  BY StreamsStep
<1> QED
  BY StreamInit, <1>1, StreamsFaithful, PTL DEF Spec
=============================================================================
