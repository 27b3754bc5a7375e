--------------------------- MODULE SqliteStatement ---------------------------
(***************************************************************************)
(* A statement of the SQLite driver and the result streams it exports,     *)
(* from src/c/driver/sqlite/sqlite.c and statement_reader.c.               *)
(*                                                                         *)
(* A stream steps the statement's own sqlite3_stmt and takes parameters    *)
(* from the statement's own binder: it holds pointers to both.  This       *)
(* module is about what that sharing does to results.                      *)
(*                                                                         *)
(* A parameter row is a member of Params; a result row is <<q, p, i>>, the *)
(* i-th row of query q for parameters p (or None), and <<q, p, 0>> is what *)
(* the column functions yield when there is no row.  Loops over rows are   *)
(* one step per row.  Types and values are abstracted.  sqlite3_step and   *)
(* the database are external.                                              *)
(***************************************************************************)
EXTENDS Naturals, Sequences

CONSTANTS
  Readers,      \* result streams (ArrowArrayStream structs of the caller)
  Queries,
  Params,       \* parameter rows
  None,
  Size,         \* how many rows each query returns per parameter row
  Takes,        \* the queries that have a parameter
  Unbindable,   \* the parameter rows of a type, or with a value, that cannot be bound
  Narrows,      \* for the parameter rows that lose something, what is bound
  Half,         \* a binder that has a schema, but no types
  Bindings,     \* what callers bind: sequences of parameter rows
  DefaultBatch, \* 1024
  BatchSizes,   \* values of adbc.sqlite.query.batch_rows
  Faults,       \* what may go wrong: "error" (SQLITE_ERROR), "other" (any
                \* other error of sqlite3_step), "value" (a value that does
                \* not fit the column's type), "sql" (sqlite3_prepare_v2)
  Abandons      \* do callers release a stream before its end?

\* Rows of parameters and rows of results.
RowValues == Params \cup {None} \cup (Queries \X (Params \cup {None}) \X Nat)

ASSUME StatementAssumption ==
  /\ Size \in [Queries -> Nat]
  /\ Takes \subseteq Queries
  /\ Unbindable \subseteq Params
  /\ DOMAIN Narrows \subseteq Params \ Unbindable
  /\ \A p \in DOMAIN Narrows : Narrows[p] \in Params
  /\ Bindings \subseteq Seq(Params)
  /\ DefaultBatch \in Nat \ {0} /\ BatchSizes \subseteq Nat \ {0}
  /\ Abandons \in BOOLEAN
  /\ None \notin Params /\ None \notin Queries /\ None \notin Seq(RowValues)
  /\ Half # None /\ Half \notin Seq(RowValues)

VARIABLES
  stmt,     \* SqliteStatement: query, target_table, append, prepared, batch_size
  vm,       \* stmt->stmt: the sqlite3_stmt
  binder,   \* stmt->binder: the parameter rows still to come, None or Half
  readers,  \* StatementReader of each stream, and what the caller has read
  call,     \* the loop over rows that is being executed
  exists,   \* does the target table exist?
  given,    \* the parameters that the caller has bound for the next execution
  said,     \* the outcome of the last update or ingestion
  fault     \* a freed sqlite3_stmt or binder was used

vars == <<stmt, vm, binder, readers, call, exists, given, said, fault>>

\* No sqlite3_stmt.
NoVm == [query |-> None, at |-> 0, bound |-> None, failed |-> FALSE]

NoStmt == [alive |-> FALSE, query |-> None, target |-> FALSE, append |-> FALSE,
           prepared |-> FALSE, batch |-> DefaultBatch]

NoReader == [open |-> FALSE, dead |-> FALSE, binder |-> FALSE, batch |-> None,
             done |-> FALSE, size |-> DefaultBatch, got |-> <<>>, due |-> <<>>,
             ended |-> "no"]

NoCall == [op |-> "none", reader |-> None, rows |-> <<>>, due |-> <<>>,
           bound |-> FALSE, size |-> DefaultBatch, count |-> 0]

NoReport == [op |-> "none", status |-> "none", ran |-> <<>>, due |-> <<>>, count |-> 0]

Init ==
  /\ stmt = NoStmt
  /\ vm = NoVm
  /\ binder = None
  /\ readers = [r \in Readers |-> NoReader]
  /\ call = NoCall
  /\ exists \in BOOLEAN
  /\ given = None
  /\ said = NoReport
  /\ fault = FALSE

Idle == call = NoCall

-----------------------------------------------------------------------------
(* SQLite.                                                                 *)

\* sqlite3_reset, sqlite3_step of a finished or failed statement: from the start.
Reset(v) == [query |-> v.query, at |-> 0, bound |-> v.bound, failed |-> FALSE]

\* What sqlite3_step may return, and the sqlite3_stmt after it.
Steps(v) ==
  LET more == v.at < Size[v.query] IN
  {[rc |-> IF more THEN "row" ELSE "done",
    vm |-> [query |-> v.query, at |-> IF more THEN v.at + 1 ELSE 0,
            bound |-> v.bound, failed |-> FALSE]]}
    \cup {[rc |-> f, vm |-> [query |-> v.query, at |-> 0, bound |-> v.bound, failed |-> TRUE]] :
            f \in Faults \cap {"error", "other"}}
    \cup {[rc |-> "value", vm |-> [query |-> v.query, at |-> v.at + 1,
                                   bound |-> v.bound, failed |-> FALSE]] :
            f \in IF more THEN Faults \cap {"value"} ELSE {}}

\* The row that the column functions read after a step.
RowOf(v) == <<v.query, v.bound, IF v.failed THEN 0 ELSE v.at>>

-----------------------------------------------------------------------------
(* The binder.                                                             *)

\* The row that SQLite gets: a float or a double goes through an int64_t and
\* loses its fraction, binary data is bound as text.
Converted(p) == IF p \in DOMAIN Narrows THEN Narrows[p] ELSE p
ConvertedRows(ps) == [i \in 1..Len(ps) |-> Converted(ps[i])]

\* AdbcSqliteBinderBindNext.  Without a row left the binder is released and
\* the statement is left alone.  Otherwise the statement is reset, which
\* reports the error of its last step.
BindNext(b, v) ==
  IF b = <<>> THEN [status |-> "finished", binder |-> None, vm |-> v]
  ELSE IF v.failed \/ Head(b) \in Unbindable
    THEN [status |-> "error", binder |-> b, vm |-> Reset(v)]
    ELSE [status |-> "ok", binder |-> Tail(b),
          vm |-> [query |-> v.query, at |-> 0, bound |-> Converted(Head(b)), failed |-> FALSE]]

\* The parameters of a turn of a loop.
Turn == IF call.bound THEN BindNext(binder, vm)
        ELSE [status |-> "ok", binder |-> binder, vm |-> vm]

\* AdbcStatementBind and BindStream.  A stream that is released releases the
\* binder of the statement, so callers bind after that.
Bind(ps) ==
  /\ Idle /\ stmt.alive
  /\ \A r \in Readers : ~readers[r].binder
  /\ binder' = ps /\ given' = ps
  /\ said' = NoReport
  /\ UNCHANGED <<stmt, vm, readers, call, exists, fault>>

\* AdbcSqliteBinderSet fails: the old parameters are gone.  The new ones have no
\* schema, or one that is not that of a struct and is kept.
BindFails ==
  /\ Idle /\ stmt.alive
  /\ \A r \in Readers : ~readers[r].binder
  /\ binder' \in {None, Half} /\ given' = None
  /\ said' = NoReport
  /\ UNCHANGED <<stmt, vm, readers, call, exists, fault>>

-----------------------------------------------------------------------------
(* The statement.                                                          *)

StatementNew ==
  /\ Idle /\ ~stmt.alive
  /\ stmt' = [NoStmt EXCEPT !.alive = TRUE]
  /\ said' = NoReport
  /\ UNCHANGED <<vm, binder, readers, call, exists, given, fault>>

\* Streams of a sqlite3_stmt that is finalized are left with a dangling pointer.
Finalized == [r \in Readers |->
  IF readers[r].open /\ vm # NoVm THEN [readers[r] EXCEPT !.dead = TRUE] ELSE readers[r]]

\* The streams' pointers to the binder would dangle: callers release them first.
StatementRelease ==
  /\ Idle /\ stmt.alive
  /\ \A r \in Readers : ~readers[r].open
  /\ stmt' = NoStmt /\ vm' = NoVm /\ binder' = None /\ given' = None
  /\ said' = NoReport
  /\ UNCHANGED <<readers, call, exists, fault>>

SetOption(s) ==
  /\ Idle /\ stmt.alive
  /\ stmt' = s
  /\ said' = NoReport
  /\ UNCHANGED <<vm, binder, readers, call, exists, given, fault>>

SetSqlQuery(q) ==
  SetOption([stmt EXCEPT !.query = q, !.target = FALSE, !.prepared = FALSE])

SetTargetTable == SetOption([stmt EXCEPT !.query = None, !.target = TRUE])

SetMode(append) == SetOption([stmt EXCEPT !.append = append])

SetBatchRows(n) == SetOption([stmt EXCEPT !.batch = n])

\* "This invalidates any prior result sets": callers read them to the end first.
Quiet == \A r \in Readers : readers[r].open => readers[r].ended # "no"

\* SqliteStatementPrepare fails: there is no query; finalizing the previous
\* sqlite3_stmt reports the error of its last step; the SQL is refused.
PrepareFails ==
  /\ stmt.query = None \/ (~stmt.prepared /\ (vm.failed \/ "sql" \in Faults))
  /\ IF stmt.query = None THEN UNCHANGED <<vm, readers>>
     ELSE vm' = NoVm /\ readers' = Finalized
  /\ UNCHANGED stmt

PrepareSucceeds ==
  /\ stmt.query # None
  /\ IF stmt.prepared THEN UNCHANGED <<stmt, vm, readers>>
     ELSE /\ ~vm.failed
          /\ vm' = [NoVm EXCEPT !.query = stmt.query]
          /\ readers' = Finalized
          /\ stmt' = [stmt EXCEPT !.prepared = TRUE]

\* SqliteStatementPrepare, and GetParameterSchema, which calls it.
Prepare ==
  /\ Idle /\ stmt.alive
  /\ Quiet
  /\ PrepareFails \/ PrepareSucceeds
  /\ said' = NoReport
  /\ UNCHANGED <<binder, call, exists, given, fault>>

-----------------------------------------------------------------------------
(* SqliteStatementExecuteQuery of a query.                                 *)

\* The rows that a query returns for the given parameters, as they are bound.
Due(q, ps) ==
  LET n == Size[q] IN
  [k \in 1..(Len(ps) * n) |-> <<q, Converted(ps[1 + ((k - 1) \div n)]), 1 + ((k - 1) % n)>>]

\* The parameter rows that a query, or an update, is to be executed with.
GivenRows(q) == IF q \in Takes THEN given ELSE <<None>>

\* Callers bind parameters before they execute a query that has one.
ExecuteGuard ==
  /\ Idle /\ stmt.alive /\ ~stmt.target
  /\ Quiet
  /\ stmt.query \in Takes => given # None

\* The error paths before the loop over rows leave the parameters bound.
ExecuteFails ==
  /\ ExecuteGuard
  /\ \/ PrepareFails
     \/ PrepareSucceeds /\ binder # None /\ stmt.query \notin Takes
  /\ said' = NoReport
  /\ UNCHANGED <<binder, call, exists, given, fault>>

\* Prepared, with the right number of parameters.
ExecuteStart(c) ==
  /\ ExecuteGuard
  /\ PrepareSucceeds
  /\ binder # None => stmt.query \in Takes
  /\ call' = c
  /\ given' = None
  /\ said' = NoReport
  /\ UNCHANGED <<binder, exists, fault>>

\* AdbcSqliteExportReader: the first batch, from which types are inferred.
ExecuteQuery(r) ==
  /\ ~readers[r].open
  /\ ExecuteStart([op |-> "export", reader |-> r, rows |-> <<>>,
                   due |-> Due(stmt.query, GivenRows(stmt.query)),
                   bound |-> binder # None, size |-> stmt.batch, count |-> 0])

ExecuteUpdate ==
  ExecuteStart([op |-> "update", reader |-> None, rows |-> <<>>,
                due |-> GivenRows(stmt.query),
                bound |-> binder # None, size |-> stmt.batch, count |-> 0])

-----------------------------------------------------------------------------
(* The loops over rows of AdbcSqliteExportReader and                       *)
(* StatementReaderGetNext.                                                 *)

\* The loop ends.  The export of a reader that fails leaves no stream; an
\* empty batch of a stream is its end.
LeaveLoop(done, status, v, b) ==
  LET r == call.reader
      old == readers[r]
      ended == IF status = "error" THEN "error"
               ELSE IF call.rows = <<>> THEN "end" ELSE "no"
  IN /\ vm' = v /\ binder' = b
     /\ call' = NoCall
     /\ readers' =
          IF call.op = "next"
          THEN [readers EXCEPT ![r].done = done,
                  ![r].ended = IF old.ended = "no" THEN ended ELSE old.ended,
                  ![r].got = IF status = "ok" THEN old.got \o call.rows ELSE old.got]
          ELSE IF status = "error" THEN readers
          ELSE [readers EXCEPT ![r] =
                  [open |-> TRUE, dead |-> FALSE, binder |-> call.bound,
                   batch |-> call.rows, done |-> done, size |-> call.size,
                   got |-> <<>>, due |-> call.due, ended |-> "no"]]
     /\ UNCHANGED <<stmt, exists, given, said, fault>>

Looping == call.op \in {"export", "next"} /\ Len(call.rows) < call.size

ReaderFull ==
  /\ call.op \in {"export", "next"} /\ Len(call.rows) = call.size
  /\ LeaveLoop(FALSE, "ok", vm, binder)

BindEndIsForgotten ==
  /\ Looping /\ Turn.status = "finished"
  /\ LeaveLoop(FALSE, "ok", Turn.vm, Turn.binder)
ReaderBindEnds ==
  /\ Looping /\ Turn.status = "finished"
  /\ LeaveLoop(TRUE, "ok", Turn.vm, Turn.binder)

\* In StatementReaderGetNext the EIO is assigned to the inner "status", which
\* shadows the one that is returned.
ReaderBindFails ==
  /\ Looping /\ Turn.status = "error"
  /\ LeaveLoop(TRUE, IF call.op = "next" THEN "ok" ELSE "error", Turn.vm, Turn.binder)

ReaderDone ==
  /\ Looping /\ Turn.status = "ok"
  /\ \E s \in Steps(Turn.vm) : s.rc = "done" /\ LeaveLoop(TRUE, "ok", s.vm, Turn.binder)

\* SQLITE_ERROR, or a value that cannot be converted.
ReaderStepFails ==
  /\ Looping /\ Turn.status = "ok"
  /\ \E s \in Steps(Turn.vm) :
       s.rc \in {"error", "value"} /\ LeaveLoop(s.rc = "error", "error", s.vm, Turn.binder)

\* Every other result of sqlite3_step is taken for a row.
ReaderRow ==
  /\ Looping /\ Turn.status = "ok"
  /\ \E s \in Steps(Turn.vm) :
       /\ s.rc \in {"row", "other"}
       /\ vm' = s.vm
       /\ call' = [call EXCEPT !.rows = Append(@, RowOf(s.vm))]
  /\ binder' = Turn.binder
  /\ UNCHANGED <<stmt, readers, exists, given, said, fault>>

-----------------------------------------------------------------------------
(* The stream.                                                             *)

\* StatementReaderGetNext hands out the batch that the export has read.
NextInitial(r) ==
  /\ Idle /\ readers[r].open /\ readers[r].batch # None
  /\ readers' = [readers EXCEPT ![r].got = @ \o readers[r].batch, ![r].batch = None]
  /\ said' = NoReport
  /\ UNCHANGED <<stmt, vm, binder, call, exists, given, fault>>

\* The stream has ended; callers may ask again.
EndComesFirst(r) ==
  /\ Idle /\ readers[r].open /\ readers[r].done
  /\ readers' = [readers EXCEPT ![r].ended = IF @ = "no" THEN "end" ELSE @]
  /\ said' = NoReport
  /\ UNCHANGED <<stmt, vm, binder, call, exists, given, fault>>
NextEnd(r) ==
  /\ Idle /\ readers[r].open /\ readers[r].batch = None /\ readers[r].done
  /\ readers' = [readers EXCEPT ![r].ended = IF @ = "no" THEN "end" ELSE @]
  /\ said' = NoReport
  /\ UNCHANGED <<stmt, vm, binder, call, exists, given, fault>>

\* The loop over rows, if the sqlite3_stmt and the parameters are still there.
NextLoop(r) ==
  LET gone == readers[r].dead \/ (readers[r].binder /\ binder \in {None, Half}) IN
  /\ Idle /\ readers[r].open /\ readers[r].batch = None /\ ~readers[r].done
  /\ fault' = (fault \/ gone)
  /\ call' = IF gone THEN NoCall
             ELSE [op |-> "next", reader |-> r, rows |-> <<>>, due |-> <<>>,
                   bound |-> readers[r].binder, size |-> readers[r].size, count |-> 0]
  /\ said' = NoReport
  /\ UNCHANGED <<stmt, vm, binder, readers, exists, given>>

\* StatementReaderRelease, which releases the statement's binder.
ReleaseReader(r) ==
  /\ Idle /\ readers[r].open
  /\ readers[r].ended # "no" \/ Abandons
  /\ binder' = IF readers[r].binder THEN None ELSE binder
  /\ readers' = [readers EXCEPT ![r] = NoReader]
  /\ said' = NoReport
  /\ UNCHANGED <<stmt, vm, call, exists, given, fault>>

-----------------------------------------------------------------------------
(* Updates and ingestion.                                                  *)

\* Does a step fail?
MayFail == {FALSE} \cup {TRUE : f \in Faults \cap {"error", "other"}}

\* The call returns, with the parameters released.
Report(status, ran, count) ==
  /\ said' = [op |-> call.op, status |-> status, ran |-> ran, due |-> call.due,
              count |-> count]
  /\ call' = NoCall
  /\ binder' = None

\* sqlite3_reset after the loop reports the error of the last step.
ResetIsIgnored(status, ran, rows, v) ==
  /\ Report(status, ran, rows)
  /\ vm' = Reset(v)
UpdateEnds(status, ran, rows, v) ==
  /\ Report(IF v.failed THEN "error" ELSE status, ran, rows)
  /\ vm' = Reset(v)

\* One turn of the loop: a row of parameters, stepped to its end.  What is
\* counted are result rows, also those before a failure.
UpdateTurn ==
  /\ call.op = "update"
  /\ IF Turn.status # "ok"
     THEN UpdateEnds(IF Turn.status = "finished" THEN "ok" ELSE "error", call.rows, call.count,
                     Turn.vm)
     ELSE \E failed \in MayFail : \E n \in 0..Size[vm.query] :
            LET v == [query |-> Turn.vm.query, at |-> 0, bound |-> Turn.vm.bound,
                      failed |-> failed]
                ran == IF failed THEN call.rows ELSE Append(call.rows, v.bound)
            IN /\ ~failed => n = Size[vm.query]
               /\ IF call.bound
                  THEN /\ call' = [call EXCEPT !.rows = ran, !.count = @ + n]
                       /\ vm' = v /\ binder' = Turn.binder
                       /\ UNCHANGED said
                  ELSE UpdateEnds("ok", ran, call.count + n, v)
  /\ UNCHANGED <<stmt, readers, exists, given, fault>>

\* Callers ingest what they have bound, and bind again after Bind has failed: with
\* a Half binder the types that BindNext reads are a null pointer.
IngestGuard ==
  /\ Idle /\ stmt.alive /\ stmt.target
  /\ Quiet
  /\ given = binder

\* SqliteStatementInitIngest fails: nothing is bound; the table exists already;
\* INSERT cannot be prepared, by when the table may have been created.
IngestRefused ==
  /\ IngestGuard
  /\ \/ /\ binder = None \/ (~stmt.append /\ (exists \/ "sql" \in Faults))
        /\ UNCHANGED exists
     \/ /\ binder # None
        /\ stmt.append => ~exists \/ "sql" \in Faults
        /\ ~stmt.append => ~exists /\ "sql" \in Faults
        /\ exists' = (exists \/ ~stmt.append)
  /\ said' = [op |-> "ingest", status |-> "error", ran |-> <<>>, count |-> 0,
              due |-> IF given = None THEN <<>> ELSE given]
  /\ binder' = None /\ given' = None
  /\ UNCHANGED <<stmt, vm, readers, call, fault>>

IngestStart ==
  /\ IngestGuard
  /\ binder # None
  /\ stmt.append = exists
  /\ exists' = TRUE
  /\ call' = [op |-> "ingest", reader |-> None, rows |-> <<>>, due |-> given,
              bound |-> TRUE, size |-> stmt.batch, count |-> 0]
  /\ given' = None /\ said' = NoReport
  /\ UNCHANGED <<stmt, vm, binder, readers, fault>>

\* One turn of the loop of SqliteStatementExecuteIngest, with its own sqlite3_stmt.
IngestTurn ==
  LET t == BindNext(binder, NoVm) IN
  /\ call.op = "ingest"
  /\ \/ /\ t.status # "ok"
        /\ Report(IF t.status = "finished" THEN "ok" ELSE "error", call.rows, call.count)
     \/ /\ t.status = "ok" /\ TRUE \in MayFail
        /\ Report("error", call.rows, call.count)
     \/ /\ t.status = "ok"
        /\ call' = [call EXCEPT !.rows = Append(@, t.vm.bound), !.count = @ + 1]
        /\ binder' = t.binder
        /\ UNCHANGED said
  /\ UNCHANGED <<stmt, vm, readers, exists, given, fault>>

-----------------------------------------------------------------------------

Next ==
  \/ StatementNew \/ StatementRelease \/ Prepare \/ SetTargetTable
  \/ \E q \in Queries : SetSqlQuery(q)
  \/ \E append \in BOOLEAN : SetMode(append)
  \/ \E n \in BatchSizes : SetBatchRows(n)
  \/ \E ps \in Bindings : Bind(ps)
  \/ BindFails
  \/ ExecuteFails \/ ExecuteUpdate
  \/ ReaderFull \/ ReaderBindEnds \/ ReaderBindFails
  \/ ReaderDone \/ ReaderStepFails \/ ReaderRow
  \/ \E r \in Readers :
       ExecuteQuery(r) \/ NextInitial(r) \/ NextEnd(r) \/ NextLoop(r) \/ ReleaseReader(r)
  \/ UpdateTurn \/ IngestRefused \/ IngestStart \/ IngestTurn

Spec == Init /\ [][Next]_vars

-----------------------------------------------------------------------------

IsPrefixOf(s, t) == Len(s) <= Len(t) /\ \A i \in 1..Len(s) : s[i] = t[i]

\* The structs of sqlite.c and statement_reader.c; batches stay within
\* batch_rows, and a stream that has ended is done.
TypeOK ==
  /\ stmt.query \in Queries \cup {None} /\ stmt.batch \in BatchSizes \cup {DefaultBatch}
  /\ vm.query \in Queries \cup {None}
  /\ stmt.prepared => vm # NoVm
  /\ binder \in {None, Half} \/ \E ps \in Bindings : Len(binder) <= Len(ps)
  /\ call.op \in {"none", "export", "next", "update", "ingest"}
  /\ call.op \in {"export", "next"} => Len(call.rows) <= call.size
  /\ \A r \in Readers :
       /\ readers[r].open \/ readers[r] = NoReader
       /\ readers[r].ended = "end" => readers[r].done

\* A result that the driver's loops can deliver: parameters that can be bound,
\* each of which yields one row.
Regular(due) ==
  \A k \in DOMAIN due :
    due[k][2] # None => Size[due[k][1]] = 1 /\ due[k][2] \notin Unbindable

\* A stream of such a result yields the rows of its query for the parameters it
\* was executed with, as BindNext converts them, in their order, and when
\* StatementReaderGetNext says that it has ended they have all been read, however
\* they fall into batches and whatever was bound, prepared, executed and read to
\* its end, or to an error, before.
ResultIsFaithful ==
  \A r \in Readers :
    readers[r].open /\ Regular(readers[r].due) =>
      /\ IsPrefixOf(readers[r].got, readers[r].due)
      /\ readers[r].ended = "end" => readers[r].got = readers[r].due

\* The end of a stream is the end of its result ("if no error and the array is
\* released, the stream has ended", ArrowArrayStream.get_next).
EndIsComplete ==
  \A r \in Readers : readers[r].ended = "end" => readers[r].got = readers[r].due

\* SqliteStatementExecuteQuery without a stream, and bulk ingestion, report
\* success when every row of parameters was executed, as BindNext converts it, and
\* otherwise an error after executing the first ones.  rows_affected of an
\* ingestion is the number of rows it has inserted; otherwise it is the number of
\* result rows, none for an INSERT.
ReportIsTrue ==
  said.status # "none" =>
    /\ IsPrefixOf(said.ran, ConvertedRows(said.due))
    /\ said.status = "ok" => Len(said.ran) = Len(said.due)
    /\ said.status = "error" => Len(said.ran) < Len(said.due) \/ said.due = <<>>
    /\ said.op = "ingest" => said.count = Len(said.ran)
    /\ said.op = "update" /\ said.status = "ok" =>
         said.count = Len(said.ran) * Size[stmt.query]

\* StatementReaderGetNext never steps a sqlite3_stmt that was finalized, and
\* never binds from a binder that was released, also when callers ask a stream
\* that has ended again after the statement was prepared anew.
NoFault == ~fault

=============================================================================
