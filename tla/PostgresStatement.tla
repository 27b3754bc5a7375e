-------------------------- MODULE PostgresStatement --------------------------
(***************************************************************************)
(* The PostgreSQL driver's statements, src/c/driver/postgresql/statement.cc *)
(* and the statement functions of postgresql.cc, on its connections.       *)
(*                                                                         *)
(* A result is read by COPY: its messages wait in the connection, and the  *)
(* exported stream reads them through the statement's one TupleReader.     *)
(* Every call is one step, except that the execution of bound rows is a    *)
(* step per row, between which the server and other connections act.       *)
(***************************************************************************)
EXTENDS PostgresConnection, PostgresTuple, FiniteSetsExt

CONSTANTS
  Statements,
  Queries,        \* the queries that return rows
  Returning,      \* those of them that write too: INSERT ... RETURNING
  Columns,        \* their columns' types
  Result,         \* their rows
  pg_type,        \* the server's types
  Bindings,       \* parameters: Arrow type, batches of rows, whether the stream fails then
  Table,          \* the ingest target, as the row that CREATE TABLE writes
  None,
  MaxExecutions   \* streams of a statement that a "late" caller keeps

\* A batch has a row.
ASSUME BindingsAssumption ==
  /\ Table \in Rows /\ "update" \notin Queries /\ Returning \subseteq Queries
  /\ None \notin Connections
  /\ \A b \in Bindings : b.batches \in Seq(Seq(Rows) \ {<<>>})

\* A row stands for one execution: parameters do not repeat one.
ASSUME DistinctAssumption ==
  \A b \in Bindings : \A i, j \in 1..Len(b.batches) :
    \A m \in 1..Len(b.batches[i]), n \in 1..Len(b.batches[j]) :
      b.batches[i][m] = b.batches[j][n] => i = j /\ m = n

\* Results are sequences of rows, which have a column, of a type.
Cells == UNION {UNION {Range(Result[q][i]) : i \in 1..Len(Result[q])} : q \in Queries}
ASSUME ResultAssumption ==
  /\ Garbage \notin Cells
  /\ \A q \in Queries :
       Result[q] \in Seq(Seq(Cells) \ {<<>>}) /\ Columns[q] \in Seq(Range(Columns[q]))

VARIABLES
  stmt,      \* PostgresStatement: connection_, query_, prepared_, bind_, ingest_
  reader,    \* its reader_: whether result_ is set, and schema_
  streams,   \* the streams exported so far, and what the caller read from them
  copy,      \* libpq: a COPY in progress, its unread messages, how it ends
  call,      \* the execution of bound rows in progress
  told,      \* what the last one that succeeded reported
  fault      \* a null pointer was read

stmtVars == <<stmt, reader, streams, copy, call, told, fault>>
vars == <<connVars, stmtVars>>

NewStatement(c) == [connection |-> c, query |-> None, prepared |-> FALSE, bind |-> None,
                    target |-> FALSE, append |-> FALSE]
NoReader == [result |-> FALSE, schema |-> <<>>]
NoCopy == [messages |-> <<>>, ok |-> FALSE]
Nothing == [rows |-> {}, affected |-> 0]

Init ==
  /\ ConnInit
  /\ stmt = [s \in Statements |-> NewStatement(None)]
  /\ reader = [s \in Statements |-> NoReader]
  /\ streams = [s \in Statements |-> <<>>]
  /\ copy = [c \in Connections |-> NoCopy]
  /\ call = [s \in Statements |-> None]
  /\ told = [s \in Statements |-> Nothing]
  /\ fault = FALSE

-----------------------------------------------------------------------------
(* Who may call.                                                           *)

On(c) == {s \in Statements : stmt[s].connection = c}
Busy(c) == \E s \in On(c) : call[s] # None

\* The callers of a connection take turns, and read a result before they use
\* the connection for something else.
MayUse(c, others) ==
  /\ ~Busy(c)
  /\ (\E s \in others : reader[s].result) => "overlap" \in Habits

\* A call on an open statement.
Calls(s) == stmt[s].connection # None /\ ~Busy(stmt[s].connection)
Executes(s) == Calls(s) /\ MayUse(stmt[s].connection, On(stmt[s].connection) \ {s})

\* PQexec and its like abandon a COPY in progress.
PQexec(c) == copy' = [copy EXCEPT ![c] = NoCopy]

-----------------------------------------------------------------------------
(* The statement's state.                                                  *)

StatementNew(s, c) ==
  /\ stmt[s].connection = None
  /\ conn[c] # "null" /\ ~Busy(c)
  /\ stmt' = [stmt EXCEPT ![s] = NewStatement(c)]
  /\ UNCHANGED <<connVars, reader, streams, copy, call, told, fault>>

SetSqlQuery(s, q) ==
  /\ Calls(s)
  /\ stmt' = [stmt EXCEPT ![s].query = q, ![s].target = FALSE, ![s].prepared = FALSE]
  /\ UNCHANGED <<connVars, reader, streams, copy, call, told, fault>>

\* SetOption(ADBC_INGEST_OPTION_TARGET_TABLE): prepared_ stays.
SetTarget(s) ==
  /\ Calls(s)
  /\ stmt' = [stmt EXCEPT ![s].query = None, ![s].target = TRUE]
  /\ UNCHANGED <<connVars, reader, streams, copy, call, told, fault>>

SetMode(s, append) ==
  /\ Calls(s) /\ stmt[s].target
  /\ stmt' = [stmt EXCEPT ![s].append = append]
  /\ UNCHANGED <<connVars, reader, streams, copy, call, told, fault>>

Prepare(s) ==
  /\ Calls(s) /\ stmt[s].query # None
  /\ stmt' = [stmt EXCEPT ![s].prepared = TRUE]
  /\ UNCHANGED <<connVars, reader, streams, copy, call, told, fault>>

RowsOf(b) == IF b = None THEN {} ELSE UNION {Range(b.batches[i]) : i \in 1..Len(b.batches)}
Bound(s) == RowsOf(stmt[s].bind) \cup (IF call[s] = None THEN {} ELSE RowsOf(call[s].bind))
Unused(r) == r # Table /\ Fresh(r) /\ \A s \in Statements : r \notin Bound(s)

\* Bind and BindStream: an earlier stream is released.
Bind(s, b) ==
  /\ Calls(s)
  /\ \A r \in RowsOf(b) : Unused(r) \/ r \in RowsOf(stmt[s].bind)
  /\ stmt' = [stmt EXCEPT ![s].bind = b]
  /\ UNCHANGED <<connVars, reader, streams, copy, call, told, fault>>

\* The caller no longer uses the statement's streams.
StatementRelease(s) ==
  /\ Calls(s)
  /\ stmt' = [stmt EXCEPT ![s] = NewStatement(None)]
  /\ reader' = [reader EXCEPT ![s] = NoReader]
  /\ streams' = [streams EXCEPT ![s] = <<>>]
  /\ told' = [told EXCEPT ![s] = Nothing]
  /\ UNCHANGED <<connVars, copy, call, fault>>

-----------------------------------------------------------------------------
(* Executing.  ClearResult comes first in every case.                      *)

\* The caller takes its earlier streams for invalid.
ClearResult(s) ==
  /\ reader' = [reader EXCEPT ![s] = NoReader]
  /\ streams' = [streams EXCEPT ![s] = <<>>]

\* The calls that fail before they reach the server.
ExecuteRefused(s, stream) ==
  LET st == stmt[s]
      bind == st.bind # None
  IN /\ Executes(s)
     /\ IF st.prepared /\ (bind \/ ~stream) THEN ~bind \/ stream
        ELSE IF ~stream /\ st.target THEN ~bind
        ELSE st.query = None
     /\ ClearResult(s)
     /\ UNCHANGED <<connVars, stmt, copy, call, told, fault>>

\* The query goes to the server: with a stream, or without one and neither
\* prepared nor an ingestion.
Sends(s, stream) ==
  LET st == stmt[s]
  IN /\ Executes(s)
     /\ st.query # None
     /\ IF stream THEN ~st.prepared \/ st.bind = None ELSE ~st.prepared /\ ~st.target

\* The messages of a binary COPY: the header comes with the first tuple, or
\* with the trailer, whose field count is -1.
Message(header, row) ==
  [header |-> header, fields |-> IF row = <<>> THEN -1 ELSE Len(row), bytes |-> Tuple(row)]
Messages(q) == [i \in 1..(Len(Result[q]) + 1) |->
                  Message(i = 1, IF i > Len(Result[q]) THEN <<>> ELSE Result[q][i])]

\* The mapping is empty if AdbcDatabaseInit could not read pg_type.
Types == IF database.types THEN pg_type ELSE {}

\* The query runs once, and the caller is not told of what it wrote.
RunsUnseen(c, q) ==
  IF q \in Queries \ Returning
    THEN UNCHANGED session
    ELSE MayWrite(c) /\ \E r \in Rows : Unused(r) /\ Write(c, {r})

\* For its schema the query is run as it is, not with schema_query's LIMIT 0, and
\* COPY runs it again: one that writes writes twice.  A COPY that fails takes the
\* transaction with it; in autocommit mode what the first run wrote stays.
RunsTwice(c, q, complete) ==
  /\ q \in Returning => MayWrite(c)
  /\ \/ /\ complete /\ q \notin Returning
        /\ UNCHANGED <<session, caller>>
     \/ /\ complete /\ q \in Returning
        /\ \E r, again \in Rows :
             Unused(r) /\ Unused(again) /\ r # again /\ Write(c, {r, again}) /\ Succeeded(c, {r})
     \/ /\ ~complete /\ (q \in Returning => txn[c] # "none")
        /\ WriteFails(c) /\ Failed(c)
     \/ /\ ~complete /\ q \in Returning /\ txn[c] = "none"
        /\ \E r \in Rows : Unused(r) /\ Write(c, {r}) /\ Failed(c)

\* ExecuteQuery with a stream: the schema, then COPY, of which the first n
\* messages arrive.
ExecuteQuery(s) ==
  LET c == stmt[s].connection
      q == stmt[s].query
      schema == InferSchema(TypeMapping(Types), Columns[q])
  IN /\ Sends(s, TRUE) /\ q \in Queries
     /\ "late" \in Habits => Len(streams[s]) < MaxExecutions
     /\ conn[c] = "up" /\ txn[c] # "failed"
     /\ schema # <<>>
     /\ \E n \in 0..Len(Messages(q)) :
          /\ n = 0 => "cut" \in Habits
          /\ copy' = [copy EXCEPT ![c] = [messages |-> SubSeq(Messages(q), 1, n),
                                          ok |-> n = Len(Messages(q))]]
          /\ RunsTwice(c, q, n = Len(Messages(q)))
     /\ reader' = [reader EXCEPT ![s] = [result |-> TRUE, schema |-> schema]]
     /\ streams' = [streams EXCEPT ![s] =
          Append(IF "late" \in Habits THEN @ ELSE <<>>,
                 [query |-> q, live |-> TRUE, got |-> <<>>, end |-> "none"])]
     /\ UNCHANGED <<driver, stmt, call, told, fault>>

\* The result has a type that is not in the mapping: the query has run, the
\* caller is told NOT_IMPLEMENTED.
ExecuteUnknownType(s) ==
  LET c == stmt[s].connection
  IN /\ Sends(s, TRUE) /\ stmt[s].query \in Queries
     /\ conn[c] = "up" /\ txn[c] # "failed"
     /\ InferSchema(TypeMapping(Types), Columns[stmt[s].query]) = <<>>
     /\ ClearResult(s) /\ PQexec(c)
     /\ RunsUnseen(c, stmt[s].query) /\ Failed(c)
     /\ UNCHANGED <<driver, stmt, call, told, fault>>

\* An update with a stream runs, and then has no schema.  A query without a
\* stream runs, and then is not a command.  The caller is told IO.
ExecuteMismatch(s, stream) ==
  LET c == stmt[s].connection
  IN /\ Sends(s, stream) /\ stream = (stmt[s].query \notin Queries)
     /\ conn[c] = "up" /\ txn[c] # "failed"
     /\ ClearResult(s) /\ PQexec(c)
     /\ RunsUnseen(c, stmt[s].query) /\ Failed(c)
     /\ UNCHANGED <<driver, stmt, call, told, fault>>

\* ExecuteUpdateQuery.
ExecuteUpdate(s) ==
  LET c == stmt[s].connection
  IN /\ Sends(s, FALSE) /\ stmt[s].query \notin Queries
     /\ conn[c] = "up" /\ txn[c] # "failed" /\ MayWrite(c)
     /\ \E r \in Rows : Unused(r) /\ Write(c, {r}) /\ Succeeded(c, {r})
     /\ ClearResult(s) /\ PQexec(c)
     /\ UNCHANGED <<driver, stmt, call, told, fault>>

\* The server fails the query, or is gone.
ExecuteFails(s, stream) ==
  LET c == stmt[s].connection
  IN /\ Sends(s, stream)
     /\ ClearResult(s) /\ PQexec(c)
     /\ WriteFails(c) /\ Failed(c)
     /\ UNCHANGED <<driver, stmt, call, told, fault>>

-----------------------------------------------------------------------------
(* Bound rows: ExecutePreparedStatement, ExecuteUpdateBulk and BindStream. *)

\* bind_ is moved into the call: a failure loses it.
BoundBegin(s) ==
  LET st == stmt[s]
  IN /\ Executes(s) /\ MayWrite(st.connection)
     /\ st.bind # None /\ (st.prepared \/ st.target)
     /\ call' = [call EXCEPT ![s] =
          [phase |-> IF st.prepared \/ st.append THEN "types" ELSE "create",
           ingest |-> ~st.prepared, bind |-> st.bind, wrote |-> {},
           batch |-> 1, row |-> 1, affected |-> 0]]
     /\ stmt' = [stmt EXCEPT ![s].bind = None]
     /\ ClearResult(s) /\ PQexec(st.connection)
     /\ UNCHANGED <<connVars, told, fault>>

\* A step of the call in which the server does its part.
Proceeds(s, phase) ==
  LET c == stmt[s].connection
  IN call[s] # None /\ call[s].phase = phase /\ conn[c] = "up" /\ txn[c] # "failed"

\* CreateBulkTable, through Begin's callback: before the types are looked up.
\* What callers know of an earlier table of that name does not count any more.
CreateBulkTable(s) ==
  LET c == stmt[s].connection
  IN /\ Proceeds(s, "create")
     /\ call[s].bind.type \in DOMAIN BulkTypes
     /\ Table \notin table \cup UNION {wrote[d] : d \in Connections}
     /\ Write(c, {Table})
     /\ undone' = undone \ {Table}
     /\ asked' = [d \in Connections |-> asked[d] \ {Table}]
     /\ call' = [call EXCEPT ![s].phase = "types", ![s].wrote = {Table}]
     /\ UNCHANGED <<driver, hurt, ended, acked, stmt, reader, streams, copy, told, fault>>

\* SetParamTypes and Prepare.
PrepareRows(s) ==
  LET c == stmt[s].connection
  IN /\ Proceeds(s, "types")
     /\ SetParamTypes(Types, call[s].bind.type)
     /\ call[s].ingest => Table \in table \cup wrote[c]
     /\ call' = [call EXCEPT ![s].phase = "rows"]
     /\ UNCHANGED <<connVars, stmt, reader, streams, copy, told, fault>>

\* Mutant of Advance: the batch in progress is not counted.
AdvanceUncounted(k) ==
  IF k.row < Len(k.bind.batches[k.batch]) THEN [k EXCEPT !.row = @ + 1]
                                          ELSE [k EXCEPT !.batch = @ + 1, !.row = 1]

\* Execute's loops: the next row, or the next batch, whose length is added.
Advance(k) ==
  LET length == Len(k.bind.batches[k.batch])
  IN IF k.row < length
       THEN [k EXCEPT !.row = @ + 1]
       ELSE [k EXCEPT !.batch = @ + 1, !.row = 1, !.affected = @ + length]

\* PQexecPrepared of one row.
ExecuteRow(s) ==
  LET c == stmt[s].connection
      k == call[s]
      r == k.bind.batches[k.batch][k.row]
  IN /\ Proceeds(s, "rows") /\ k.batch <= Len(k.bind.batches)
     /\ k.ingest \/ stmt[s].query = "update"
     /\ Write(c, {r})
     /\ call' = [call EXCEPT ![s] = [Advance(k) EXCEPT !.wrote = @ \cup {r}]]
     /\ UNCHANGED <<driver, caller, stmt, reader, streams, copy, told, fault>>

\* The row runs a query that returns rows, or an empty one: it is not a command.
BoundMismatch(s) ==
  LET c == stmt[s].connection
      k == call[s]
  IN /\ Proceeds(s, "rows") /\ k.batch <= Len(k.bind.batches)
     /\ ~k.ingest /\ stmt[s].query # "update"
     /\ IF stmt[s].query \in Returning
          THEN Write(c, {k.bind.batches[k.batch][k.row]})
          ELSE UNCHANGED session
     /\ Failed(c)
     /\ call' = [call EXCEPT ![s] = None]
     /\ UNCHANGED <<driver, stmt, reader, streams, copy, told, fault>>

\* The stream of parameters ends.
BoundReturns(s) ==
  LET k == call[s]
  IN /\ k # None /\ k.phase = "rows" /\ k.batch > Len(k.bind.batches) /\ ~k.bind.breaks
     /\ Succeeded(stmt[s].connection, k.wrote)
     /\ told' = [told EXCEPT ![s] = [rows |-> k.wrote \ {Table}, affected |-> k.affected]]
     /\ call' = [call EXCEPT ![s] = None]
     /\ UNCHANGED <<driver, session, stmt, reader, streams, copy, fault>>

\* The stream breaks off, or the types are not known: the server is not asked.
BoundRefused(s) ==
  LET k == call[s]
  IN /\ k # None
     /\ \/ k.phase = "create" /\ k.bind.type \notin DOMAIN BulkTypes
        \/ k.phase = "types" /\ ~SetParamTypes(Types, k.bind.type)
        \/ k.phase = "rows" /\ k.batch > Len(k.bind.batches) /\ k.bind.breaks
     /\ Failed(stmt[s].connection)
     /\ call' = [call EXCEPT ![s] = None]
     /\ UNCHANGED <<driver, session, stmt, reader, streams, copy, told, fault>>

\* The server fails the CREATE TABLE, the preparation or a row, or is gone.
\* The rows that came before stay.
BoundFails(s) ==
  LET k == call[s]
  IN /\ k # None /\ (k.phase = "rows" => k.batch <= Len(k.bind.batches))
     /\ WriteFails(stmt[s].connection) /\ Failed(stmt[s].connection)
     /\ call' = [call EXCEPT ![s] = None]
     /\ UNCHANGED <<driver, stmt, reader, streams, copy, told, fault>>

-----------------------------------------------------------------------------
(* The exported stream.                                                    *)

\* The caller reads the statement's last stream.
MayRead(s) == Calls(s) /\ streams[s] # <<>> /\ streams[s][Len(streams[s])].live

Got(s, rows, end) ==
  streams' = [streams EXCEPT ![s][Len(streams[s])] = [@ EXCEPT !.got = rows, !.end = end]]

\* TupleReader::GetNext after the data: the end of the stream.
GetNextEnd(s) ==
  /\ MayRead(s) /\ ~reader[s].result
  /\ LET x == streams[s][Len(streams[s])]
     IN x.end = "none" /\ Got(s, x.got, "clean")
  /\ UNCHANGED <<connVars, stmt, reader, copy, call, told, fault>>

\* GetNext finds no header: size is negative, but is compared as size_t.
GetNextFaults(s) ==
  /\ MayRead(s) /\ reader[s].result /\ copy[stmt[s].connection].messages = <<>>
  /\ fault' = TRUE
  /\ UNCHANGED <<connVars, stmt, reader, streams, copy, call, told>>

\* Mutant of Consumed: result_ is not reset.
NotConsumed(r) == r

\* GetNext clears result_ first: the reader delivers one batch.
Consumed(r) == [r EXCEPT !.result = FALSE]

\* GetNext with the data: every tuple, then the server's verdict.  Reading the
\* wrong bytes may also end in an error.
GetNext(s) ==
  LET c == stmt[s].connection
      m == copy[c].messages
      row(i) == AppendNext(reader[s].schema, m[i].fields, m[i].bytes)
      data == {i \in 1..Len(m) : m[i].fields # -1}
      bad == {i \in data : row(i) = <<>>}
      wild == {i \in data : Garbage \in Range(row(i))}
  IN /\ MayRead(s) /\ reader[s].result /\ m # <<>>
     /\ IF ~m[1].header
          THEN /\ copy' = [copy EXCEPT ![c].messages = Tail(@)]
               /\ Got(s, <<>>, "error")
        ELSE \/ \E i \in bad \cup wild :
                  /\ \A j \in bad : i <= j
                  /\ copy' = [copy EXCEPT ![c].messages = SubSeq(@, i + 1, Len(@))]
                  /\ Got(s, <<>>, "error")
             \/ /\ bad = {}
                /\ PQexec(c)
                /\ IF copy[c].ok
                     THEN Got(s, AppendedRows(reader[s].schema, [i \in data |-> row(i)]), "none")
                     ELSE Got(s, <<>>, "error")
     /\ reader' = [reader EXCEPT ![s] = Consumed(@)]
     /\ UNCHANGED <<connVars, stmt, call, told, fault>>

\* The release callback releases the statement's reader, whichever of its
\* streams is released.
StreamRelease(s, k) ==
  /\ Calls(s) /\ streams[s][k].live
  /\ k < Len(streams[s]) => "late" \in Habits
  /\ streams' = [streams EXCEPT ![s][k].live = FALSE]
  /\ reader' = [reader EXCEPT ![s] = NoReader]
  /\ UNCHANGED <<connVars, stmt, copy, call, told, fault>>

-----------------------------------------------------------------------------
DatabaseStep ==
  /\ DatabaseNew \/ DatabaseSetOption \/ DatabaseInit \/ DatabaseRelease
  /\ UNCHANGED stmtVars

\* Statements are released before their connection.
ConnectionStep(c) ==
  /\ MayUse(c, On(c))
  /\ \/ ConnectionNew(c) \/ ConnectionInit(c)
     \/ On(c) = {} /\ ConnectionRelease(c)
     \/ Commit(c) \/ Rollback(c) \/ CommitAnswerLost(c)
     \/ \E enabled \in BOOLEAN : SetAutocommit(c, enabled)
  /\ PQexec(c)
  /\ UNCHANGED <<stmt, reader, streams, call, told, fault>>

\* The messages that have arrived can still be read.
SessionStep(c) ==
  /\ SessionLost(c)
  /\ LET m == copy[c].messages
     IN \E n \in 0..Len(m) :
          /\ (n = 0 /\ \E s \in On(c) : reader[s].result) => "cut" \in Habits
          /\ copy' = [copy EXCEPT ![c] = [messages |-> SubSeq(m, 1, n), ok |-> @.ok /\ n = Len(m)]]
  /\ UNCHANGED <<stmt, reader, streams, call, told, fault>>

BoundStep(s) ==
  \/ CreateBulkTable(s) \/ PrepareRows(s) \/ ExecuteRow(s)
  \/ BoundMismatch(s) \/ BoundReturns(s) \/ BoundRefused(s) \/ BoundFails(s)

StatementStep(s) ==
  \/ \E c \in Connections : StatementNew(s, c)
  \/ \E q \in Queries \cup {"update"} : SetSqlQuery(s, q)
  \/ SetTarget(s) \/ Prepare(s) \/ StatementRelease(s)
  \/ \E append \in BOOLEAN : SetMode(s, append)
  \/ \E b \in Bindings : Bind(s, b)
  \/ \E stream \in BOOLEAN :
       ExecuteRefused(s, stream) \/ ExecuteMismatch(s, stream) \/ ExecuteFails(s, stream)
  \/ ExecuteQuery(s) \/ ExecuteUnknownType(s) \/ ExecuteUpdate(s) \/ BoundBegin(s)

StreamStep(s) ==
  \/ GetNextEnd(s) \/ GetNextFaults(s) \/ GetNext(s)
  \/ \E k \in 1..Len(streams[s]) : StreamRelease(s, k)

Next ==
  \/ DatabaseStep
  \/ \E c \in Connections : ConnectionStep(c) \/ SessionStep(c)
  \/ \E s \in Statements : StatementStep(s) \/ BoundStep(s) \/ StreamStep(s)

Spec == Init /\ [][Next]_vars

\* A call of the driver runs to its end, and libpq answers.
FairSpec == Spec /\ \A s \in Statements : WF_vars(BoundStep(s))

-----------------------------------------------------------------------------
(* Properties.                                                             *)

\* The fields of PostgresStatement and TupleReader, libpq's COPY and the call
\* in progress.
StmtTypeOK ==
  /\ ConnTypeOK
  /\ \A s \in Statements :
       /\ stmt[s] \in [connection : Connections \cup {None}, query : Queries \cup {"update", None},
                       prepared : BOOLEAN, bind : Bindings \cup {None},
                       target : BOOLEAN, append : BOOLEAN]
       /\ reader[s].result \in BOOLEAN /\ Range(reader[s].schema) \subseteq Range(ArrowTypes)
       /\ Len(streams[s]) <= MaxExecutions
       /\ call[s] # None => call[s].phase \in {"create", "types", "rows"} /\ stmt[s].connection # None
  /\ \A c \in Connections : copy[c].ok \in BOOLEAN

\* The driver can decode the result, if it knows the types of its columns: no
\* int2 and no NULL that is followed by another column, and no NULL in a string
\* column that has a value in a later row.
Decodable(q) ==
  LET schema == InferSchema(TypeMapping(pg_type), Columns[q])
  IN schema # <<>> =>
       /\ \A i \in 1..Len(Result[q]) :
            AppendNext(schema, Len(Result[q][i]), Tuple(Result[q][i])) = Result[q][i]
       /\ AppendedRows(schema, Result[q]) = Result[q]

\* GetNext delivers the rows of the query its stream was exported for, all of
\* them, in order and with every value as the server sent it, or an error: it
\* never ends cleanly after a part, and never passes on another result.  The
\* code keeps to it for the results that Decodable describes.
StreamIsFaithful ==
  \A s \in Statements : streams[s] # <<>> =>
    LET x == streams[s][Len(streams[s])]
    IN /\ x.got # <<>> => x.got = Result[x.query]
       /\ x.end = "clean" /\ x.live => x.got = Result[x.query]

\* GetNext returns: it does not read the null pointer that PQgetCopyData leaves
\* behind when there is no message to read.  The code keeps to it if the first
\* message of every result arrives, and is read before the connection is used
\* for something else: failures after it do not matter.
NoFault == ~fault

\* rows_affected of a bulk ingestion or of bound parameters that succeeded is the
\* number of rows that the server executed for it, over all batches of the stream.
AffectedIsTrue == \A s \in Statements : told[s].affected = Cardinality(told[s].rows)
=============================================================================
