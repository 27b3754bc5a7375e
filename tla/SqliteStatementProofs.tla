----------------------- MODULE SqliteStatementProofs -----------------------
(***************************************************************************)
(* Proofs about the statements of the SQLite driver, for any queries,      *)
(* parameters, batch sizes and number of streams.                          *)
(*                                                                         *)
(* The invariants are in three layers: ReportInv needs nothing, HandleInv  *)
(* that every value fits its column, ResultInv also that a failing step    *)
(* says so and that callers read a stream before they release it.          *)
(***************************************************************************)
EXTENDS SqliteStatement, TLAPS

\* A leaf that names no prover is for these, in this order.
USE Zenon, SMT, Z3

-----------------------------------------------------------------------------
(* The types of the structs.                                               *)

StmtType ==
  [alive : BOOLEAN, query : Queries \cup {None}, target : BOOLEAN, append : BOOLEAN,
   prepared : BOOLEAN, batch : Nat \ {0}]

VmType ==
  [query : Queries \cup {None}, at : Nat, bound : Params \cup {None}, failed : BOOLEAN]

ReaderType ==
  [open : BOOLEAN, dead : BOOLEAN, binder : BOOLEAN, batch : Seq(RowValues) \cup {None},
   done : BOOLEAN, size : Nat \ {0}, got : Seq(RowValues), due : Seq(RowValues),
   ended : {"no", "end", "error"}]

CallType ==
  [op : {"none", "export", "next", "update", "ingest"}, reader : Readers \cup {None},
   rows : Seq(RowValues), due : Seq(RowValues), bound : BOOLEAN, size : Nat \ {0},
   count : Nat]

Types ==
  /\ stmt \in StmtType
  /\ vm \in VmType
  /\ binder \in Seq(Params) \cup {None, Half}
  /\ readers \in [Readers -> ReaderType]
  /\ call \in CallType
  /\ given \in Seq(Params) \cup {None}
  /\ fault \in BOOLEAN

-----------------------------------------------------------------------------
(* The invariant of updates and ingestion.                                 *)

\* The sqlite3_stmt is that of the query once it is prepared (SetTargetTable
\* clears the query alone), and one without parameters has none bound.
Prepared ==
  /\ stmt.prepared /\ stmt.query # None => vm.query = stmt.query
  /\ vm.query \notin Takes => vm.bound = None

\* The parameters that were given are in the statement's binder, and no stream
\* uses it.
Given ==
  given # None =>
    /\ binder = given
    /\ \A r \in Readers : ~readers[r].binder
    /\ call.op \in {"none", "next"} /\ ~call.bound

\* A stream that is not dead is one of the statement's sqlite3_stmt.
Attached ==
  \A r \in Readers :
    readers[r].open /\ ~readers[r].dead =>
      /\ vm.query \in Queries
      /\ readers[r].binder <=> vm.query \in Takes

\* A loop over rows has a sqlite3_stmt, and a binder if it needs one.
Loops ==
  /\ call.op = "none" => call = NoCall
  /\ call.op \in {"export", "next"} => call.reader \in Readers
  /\ call.op \in {"export", "next", "update"} =>
       vm.query \in Queries /\ (call.bound <=> vm.query \in Takes)
  /\ call.op = "ingest" => call.bound
  /\ call.op = "update" => vm.query = stmt.query
  /\ call.op # "none" /\ call.bound => binder \notin {None, Half}

\* The last n rows of due.
EndsWith(due, b) ==
  /\ Len(b) <= Len(due)
  /\ \A i \in 1..Len(b) : b[i] = due[Len(due) - Len(b) + i]

\* What was executed and what is still to come are all of the parameters, but
\* for the one that failed.
Progress ==
  /\ call.op \in {"update", "ingest"} => IsPrefixOf(call.rows, ConvertedRows(call.due))
  /\ call.op = "ingest" => call.count = Len(call.rows)
  /\ call.op = "update" => vm.failed \/ call.count = Len(call.rows) * Size[vm.query]
  /\ call.op = "update" /\ ~call.bound =>
       call.rows = <<>> /\ call.due = <<None>> /\ call.count = 0
  /\ call.op \in {"update", "ingest"} /\ call.bound =>
       /\ EndsWith(call.due, binder)
       /\ Len(call.rows) + Len(binder) <= Len(call.due)
       /\ call.op = "ingest" \/ ~vm.failed => Len(call.rows) + Len(binder) = Len(call.due)
       /\ call.op = "update" /\ vm.failed =>
            call.rows = <<>> \/ Len(call.rows) + Len(binder) < Len(call.due)

ReportInv ==
  /\ Types /\ Prepared /\ Given /\ Attached /\ Loops /\ Progress
  /\ ReportIsTrue

-----------------------------------------------------------------------------
(* The invariant of the handles, if no value is refused.                   *)

\* What is executed is alone with the sqlite3_stmt.
Alone == call.op \in {"export", "update", "ingest"} => Quiet

\* The stream that is read.
Reading ==
  call.op = "next" =>
    LET r == call.reader IN
    /\ readers[r].open /\ ~readers[r].dead /\ ~readers[r].done
    /\ readers[r].batch = None
    /\ call.bound = readers[r].binder /\ call.size = readers[r].size

\* A stream that ended or that is dead is done; another one with parameters
\* has the binder for itself.
Streams ==
  /\ \A r \in Readers : readers[r].open \/ readers[r] = NoReader
  /\ \A r \in Readers :
       readers[r].ended # "no" \/ readers[r].dead => readers[r].done
  /\ \A r \in Readers :
       readers[r].binder /\ ~readers[r].done => binder \notin {None, Half}
  /\ \A r, s \in Readers : readers[r].binder /\ readers[s].binder => r = s
  /\ call.op = "export" /\ call.bound => \A r \in Readers : ~readers[r].binder

HandleInv == ReportInv /\ Alone /\ Reading /\ Streams /\ ~fault

-----------------------------------------------------------------------------
(* The invariant of results, if also every other failure of a step is an   *)
(* SQLITE_ERROR and every stream is read to its end.                       *)

\* Rows that continue others within a result.
Continues(got, rows, due) ==
  /\ Len(got) + Len(rows) <= Len(due)
  /\ \A i \in 1..Len(got) : got[i] = due[i]
  /\ \A i \in 1..Len(rows) : rows[i] = due[Len(got) + i]

\* The sqlite3_stmt v and the binder b stand before row n + 1 of due.
StandsAt(v, b, n, bound, due) ==
  IF bound
  THEN IF Size[v.query] = 0 THEN due = <<>>
       ELSE /\ n + Len(b) = Len(due)
            /\ \A i \in 1..Len(b) : due[n + i] = <<v.query, Converted(b[i]), 1>>
  ELSE /\ v.at = n
       /\ Len(due) = Size[v.query]
       /\ \A i \in 1..Len(due) : due[i] = <<v.query, None, i>>

\* The rows of the batch that the export has read and nobody else has.
Kept(d) == IF d.batch = None THEN <<>> ELSE d.batch

\* A stream has delivered a prefix of its result, and all of it once it is done.
Delivers(d) ==
  /\ d.ended # "no" => d.batch = None
  /\ Regular(d.due) =>
       /\ Continues(d.got, Kept(d), d.due)
       /\ d.ended # "error" /\ d.done => Len(d.got) + Len(Kept(d)) = Len(d.due)

Results == \A r \in Readers : readers[r].open => Delivers(readers[r])

\* The sqlite3_stmt of a stream that is being read did not fail.
Active == \A r \in Readers : readers[r].open /\ ~readers[r].done => ~vm.failed

\* Between two calls the sqlite3_stmt stands where the stream has stopped.
Waiting ==
  call.op = "none" =>
    \A r \in Readers :
      LET d == readers[r] IN
      d.open /\ ~d.done /\ Regular(d.due) =>
        StandsAt(vm, binder, Len(d.got) + Len(Kept(d)), d.binder, d.due)

\* What the stream of a loop has delivered before, and is to deliver.
LoopGot == IF call.op = "next" THEN readers[call.reader].got ELSE <<>>
LoopDue == IF call.op = "next" THEN readers[call.reader].due ELSE call.due

\* A loop over rows continues the result.
Collects ==
  call.op \in {"export", "next"} =>
    /\ call.op = "export" => ~readers[call.reader].open
    /\ call.rows # <<>> => ~vm.failed
    /\ Regular(LoopDue) =>
         /\ Continues(LoopGot, call.rows, LoopDue)
         /\ StandsAt(vm, binder, Len(LoopGot) + Len(call.rows), call.bound, LoopDue)

\* A sqlite3_stmt without parameters is in the middle of a result only if the
\* result is being read.
AtStart ==
  vm.query \notin Takes /\ vm.at # 0 =>
    call.op = "export" \/ \E r \in Readers : readers[r].open /\ ~readers[r].done

\* Only one result is being read.
OneActive ==
  \A r, s \in Readers :
    readers[r].open /\ readers[r].ended = "no" /\ readers[s].open /\ readers[s].ended = "no"
      => r = s

ResultInv ==
  HandleInv /\ Results /\ Active /\ Waiting /\ Collects /\ AtStart /\ OneActive

-----------------------------------------------------------------------------
(* The operators of the model.                                             *)

\* Nothing is no sequence of parameters and no sequence of rows, nor is half a
\* binder.
LEMMA NoneIsNoSeq ==
  /\ \A b \in Seq(Params) : b # None /\ b # Half /\ b \in Seq(RowValues)
  /\ \A b \in Seq(RowValues) : b # None
  /\ Params \subseteq RowValues /\ None \in RowValues
<1>1. \A b \in Seq(Params) : b \in Seq(RowValues)
  BY SMT DEF RowValues
<1> QED
  BY <1>1, StatementAssumption DEF RowValues

\* The position of a result row among the parameters is within them.
LEMMA DivWithin ==
  ASSUME NEW n \in Nat, NEW m \in Nat, n > 0, NEW j \in 0..(m * n - 1)
  PROVE  (j \div n) \in 0..(m - 1) /\ (j % n) \in 0..(n - 1)
BY Z3

LEMMA TimesNat ==
  ASSUME NEW n \in Nat, NEW m \in Nat
  PROVE  m * n \in Nat /\ (n = 0 => m * n = 0)
BY Z3

\* One execution more counts its rows once more.
LEMMA OnceMore ==
  ASSUME NEW n \in Nat, NEW m \in Nat
  PROVE  (m + 1) * n = m * n + n /\ 0 * n = 0
BY Z3

\* What is bound for a row is a row, and as many are bound as were given.
LEMMA ConvertedType ==
  /\ \A p \in RowValues : Converted(p) \in RowValues
  /\ \A p \in Params : Converted(p) \in Params
  /\ Converted(None) = None
  /\ \A ps \in Seq(RowValues) :
       /\ ConvertedRows(ps) \in Seq(RowValues) /\ Len(ConvertedRows(ps)) = Len(ps)
       /\ \A i \in 1..Len(ps) : ConvertedRows(ps)[i] = Converted(ps[i])
<1>1. \A p \in RowValues : Converted(p) \in RowValues
  BY StatementAssumption, NoneIsNoSeq DEF Converted
<1>2. \A p \in Params : Converted(p) \in Params
  BY StatementAssumption DEF Converted
<1>3. Converted(None) = None
  BY StatementAssumption DEF Converted
<1>4. ASSUME NEW ps \in Seq(RowValues)
      PROVE  /\ ConvertedRows(ps) \in Seq(RowValues) /\ Len(ConvertedRows(ps)) = Len(ps)
             /\ \A i \in 1..Len(ps) : ConvertedRows(ps)[i] = Converted(ps[i])
  <2>1. Len(ps) \in Nat /\ \A i \in 1..Len(ps) : ps[i] \in RowValues
    BY SMT
  <2>2. \A i \in 1..Len(ps) : Converted(ps[i]) \in RowValues
    BY <1>1, <2>1
  <2> QED
    BY <2>1, <2>2, SMT DEF ConvertedRows
<1> QED
  BY <1>1, <1>2, <1>3, <1>4

\* The rows of a result are rows.
LEMMA DueType ==
  ASSUME NEW q \in Queries, NEW ps \in Seq(Params \cup {None})
  PROVE  Due(q, ps) \in Seq(RowValues)
<1> DEFINE n == Size[q]
<1> DEFINE m == Len(ps)
<1>1. n \in Nat /\ m \in Nat
  BY StatementAssumption, SMT
<1>2. m * n \in Nat
  BY <1>1, TimesNat
<1>3. ASSUME NEW k \in 1..(m * n)
      PROVE  <<q, Converted(ps[1 + ((k - 1) \div n)]), 1 + ((k - 1) % n)>> \in RowValues
  <2>1. n > 0
    BY <1>1, <1>3, TimesNat, SMT
  <2>2. k - 1 \in 0..(m * n - 1)
    BY <1>2, SMT
  <2>3. ((k - 1) \div n) \in 0..(m - 1) /\ ((k - 1) % n) \in 0..(n - 1)
    BY <1>1, <2>1, <2>2, DivWithin
  <2> HIDE DEF n, m
  <2>4. 1 + ((k - 1) \div n) \in 1..m /\ 1 + ((k - 1) % n) \in Nat
    BY <1>1, <2>3, SMT
  <2>5. ps[1 + ((k - 1) \div n)] \in Params \cup {None}
    BY <2>4, SMT DEF m
  <2>6. Converted(ps[1 + ((k - 1) \div n)]) \in Params \cup {None}
    BY <2>5, ConvertedType
  <2> QED
    BY <2>4, <2>6 DEF RowValues
<1> HIDE DEF n, m
<1>4. [k \in 1..(m * n) |-> <<q, Converted(ps[1 + ((k - 1) \div n)]), 1 + ((k - 1) % n)>>]
        \in Seq(RowValues)
  BY <1>2, <1>3, SMT
<1> QED
  BY <1>4 DEF Due, n, m

\* What sqlite3_step may return: a row, the end, an error, or a row with a value
\* that does not fit.
LEMMA StepsCases ==
  ASSUME NEW v, NEW s \in Steps(v)
  PROVE  \/ /\ s.rc = "row" /\ v.at < Size[v.query]
            /\ s.vm = [query |-> v.query, at |-> v.at + 1, bound |-> v.bound, failed |-> FALSE]
         \/ /\ s.rc = "done" /\ ~(v.at < Size[v.query])
            /\ s.vm = [query |-> v.query, at |-> 0, bound |-> v.bound, failed |-> FALSE]
         \/ /\ s.rc \in Faults \cap {"error", "other"}
            /\ s.vm = [query |-> v.query, at |-> 0, bound |-> v.bound, failed |-> TRUE]
         \/ /\ s.rc = "value" /\ "value" \in Faults /\ v.at < Size[v.query]
            /\ s.vm = [query |-> v.query, at |-> v.at + 1, bound |-> v.bound, failed |-> FALSE]
<1> DEFINE more == v.at < Size[v.query]
<1> DEFINE After(at, failed) == [query |-> v.query, at |-> at, bound |-> v.bound, failed |-> failed]
<1>1. \/ s = [rc |-> IF more THEN "row" ELSE "done",
              vm |-> After(IF more THEN v.at + 1 ELSE 0, FALSE)]
      \/ \E f \in Faults \cap {"error", "other"} : s = [rc |-> f, vm |-> After(0, TRUE)]
      \/ \E f \in IF more THEN Faults \cap {"value"} ELSE {} :
           s = [rc |-> "value", vm |-> After(v.at + 1, FALSE)]
  BY DEF Steps
<1>2. CASE s = [rc |-> IF more THEN "row" ELSE "done",
                vm |-> After(IF more THEN v.at + 1 ELSE 0, FALSE)]
  <2> HIDE DEF After
  <2>1. CASE more
    <3>1. s.rc = "row" /\ s.vm = After(v.at + 1, FALSE)
      BY <1>2, <2>1
    <3> QED
      BY <2>1, <3>1 DEF After
  <2>2. CASE ~more
    <3>1. s.rc = "done" /\ s.vm = After(0, FALSE)
      BY <1>2, <2>2
    <3> QED
      BY <2>2, <3>1 DEF After
  <2> QED
    BY <2>1, <2>2
<1>3. CASE \E f \in Faults \cap {"error", "other"} : s = [rc |-> f, vm |-> After(0, TRUE)]
  <2> HIDE DEF After
  <2>1. s.rc \in Faults \cap {"error", "other"} /\ s.vm = After(0, TRUE)
    BY <1>3, SMT
  <2> QED
    BY <2>1 DEF After
<1>4. CASE \E f \in IF more THEN Faults \cap {"value"} ELSE {} :
             s = [rc |-> "value", vm |-> After(v.at + 1, FALSE)]
  <2> HIDE DEF After
  <2>1. more /\ "value" \in Faults /\ s.rc = "value" /\ s.vm = After(v.at + 1, FALSE)
    BY <1>4, SMT
  <2> QED
    BY <2>1 DEF After
<1> QED
  BY <1>1, <1>2, <1>3, <1>4

LEMMA StepsFacts ==
  ASSUME NEW v, NEW s \in Steps(v)
  PROVE  /\ s.rc \in {"row", "done", "error", "other", "value"}
         /\ s.rc \in {"error", "other", "value"} => s.rc \in Faults
         /\ s.rc \in {"done", "error"} => s.vm.at = 0
         /\ s.rc = "row" => ~s.vm.failed
<1> DEFINE After(at, failed) == [query |-> v.query, at |-> at, bound |-> v.bound, failed |-> failed]
<1>1. \/ s.rc \in {"row", "value"} /\ s.vm = After(v.at + 1, FALSE)
      \/ s.rc = "done" /\ s.vm = After(0, FALSE)
      \/ s.rc \in {"error", "other"} /\ s.vm = After(0, TRUE)
  BY StepsCases
<1>2. s.rc \in {"error", "other", "value"} => s.rc \in Faults
  BY StepsCases
<1>3. \A at, failed : After(at, failed).at = at /\ After(at, failed).failed = failed
  OBVIOUS
<1> HIDE DEF After
<1> QED
  BY <1>1, <1>2, <1>3

\* sqlite3_step leaves the query and the parameters of a sqlite3_stmt alone.
LEMMA StepsType ==
  ASSUME NEW v \in VmType, v.query \in Queries, NEW s \in Steps(v)
  PROVE  /\ s.vm \in VmType
         /\ s.vm.query = v.query /\ s.vm.bound = v.bound
         /\ RowOf(s.vm) \in RowValues
<1>1. v.at \in Nat /\ v.bound \in Params \cup {None}
  BY DEF VmType
<1>2. /\ s.vm \in VmType
      /\ s.vm.query = v.query /\ s.vm.bound = v.bound
  <2>1. PICK at \in Nat, failed \in BOOLEAN :
          s.vm = [query |-> v.query, at |-> at, bound |-> v.bound, failed |-> failed]
    <3>1. 0 \in Nat /\ v.at + 1 \in Nat
      BY <1>1, SMT
    <3> QED
      BY <3>1, StepsCases
  <2> QED
    BY <1>1, <2>1, SMT DEF VmType
<1>3. /\ s.vm.at \in Nat /\ s.vm.failed \in BOOLEAN
  BY <1>2 DEF VmType
<1> QED
  BY <1>1, <1>2, <1>3 DEF RowOf, RowValues

\* AdbcSqliteBinderBindNext takes the first row of the binder, or nothing.
LEMMA BindNextType ==
  ASSUME NEW v \in VmType, NEW b \in Seq(Params)
  PROVE  LET t == BindNext(b, v) IN
         /\ t.status \in {"finished", "error", "ok"}
         /\ t.vm \in VmType /\ t.vm.query = v.query
         /\ t.binder \in Seq(Params) \cup {None}
         /\ t.status = "finished" => b = <<>> /\ t.vm = v
         /\ t.status = "error" => b # <<>> /\ ~t.vm.failed
         /\ t.status = "ok" =>
              /\ b # <<>> /\ ~v.failed /\ ~t.vm.failed
              /\ t.binder = Tail(b) /\ t.binder \in Seq(Params) /\ t.vm.bound = Converted(Head(b))
              /\ Head(b) \in Params /\ Head(b) \notin Unbindable
         /\ t.status # "ok" => t.vm.bound = v.bound
<1>1. CASE b = <<>>
  BY <1>1 DEF BindNext
<1>2. CASE b # <<>> /\ (v.failed \/ Head(b) \in Unbindable)
  BY <1>2 DEF BindNext, Reset, VmType
<1>3. CASE b # <<>> /\ ~v.failed /\ Head(b) \notin Unbindable
  <2>1. Head(b) \in Params /\ Tail(b) \in Seq(Params)
    BY <1>3, SMT
  <2>2. Converted(Head(b)) \in Params
    BY <2>1, ConvertedType
  <2> QED
    BY <1>3, <2>1, <2>2 DEF BindNext, VmType
<1> QED
  BY <1>1, <1>2, <1>3 DEF VmType

\* The parameters of a turn of a loop.
LEMMA TurnType ==
  ASSUME Types, Prepared, Loops, call.op \in {"export", "next", "update"}
  PROVE  /\ Turn.status \in {"finished", "error", "ok"}
         /\ Turn.vm \in VmType /\ Turn.vm.query = vm.query /\ vm.query \in Queries
         /\ Turn.binder \in Seq(Params) \cup {None, Half}
         /\ vm.query \notin Takes => Turn.vm.bound = None
         /\ ~call.bound => Turn.status = "ok" /\ Turn.binder = binder /\ Turn.vm = vm
         /\ call.bound => /\ binder \in Seq(Params) /\ Turn = BindNext(binder, vm)
                          /\ Turn.status = "ok" => Turn.binder \in Seq(Params)
<1>1. vm \in VmType /\ binder \in Seq(Params) \cup {None, Half} /\ vm.query \in Queries
  BY DEF Types, Loops
<1>2. CASE call.bound
  <2>1. binder \in Seq(Params) /\ Turn = BindNext(binder, vm) /\ vm.query \in Takes
    BY <1>1, <1>2 DEF Loops, Turn
  <2> QED
    BY <1>1, <1>2, <2>1, BindNextType, SMT
<1>3. CASE ~call.bound
  <2>1. Turn = [status |-> "ok", binder |-> binder, vm |-> vm]
    BY <1>3 DEF Turn
  <2>2. Turn.status = "ok" /\ Turn.binder = binder /\ Turn.vm = vm
    BY <2>1
  <2> QED
    BY <1>1, <1>3, <2>2 DEF Prepared
<1> QED
  BY <1>2, <1>3

-----------------------------------------------------------------------------
(* Updates and ingestion.                                                  *)

\* Without a call in progress there is nothing to say about loops.
LEMMA NoLoops ==
  ASSUME call' = NoCall
  PROVE  /\ Loops' /\ Progress'
         /\ call'.op = "none" /\ ~call'.bound
BY DEF NoCall, Loops, Progress

\* Without a report there is nothing to say about it.
LEMMA NoReports ==
  ASSUME said' = NoReport
  PROVE  ReportIsTrue'
BY DEF NoReport, ReportIsTrue

LEMMA NoTypes ==
  /\ NoStmt \in StmtType /\ NoVm \in VmType /\ NoReader \in ReaderType /\ NoCall \in CallType
BY StatementAssumption, SMT DEF NoStmt, NoVm, NoReader, NoCall, StmtType, VmType, ReaderType, CallType

LEMMA ReportInit == Init => ReportInv
<1> SUFFICES ASSUME Init PROVE ReportInv
  OBVIOUS
<1>1. Types
  BY NoTypes DEF Init, Types
<1>2. Prepared /\ Given /\ Attached
  BY DEF Init, Prepared, Given, Attached, NoStmt, NoVm, NoReader
<1>3. Loops /\ Progress
  BY DEF Init, Loops, Progress, NoCall
<1>4. ReportIsTrue
  BY DEF Init, ReportIsTrue, NoReport
<1> QED
  BY <1>1, <1>2, <1>3, <1>4 DEF ReportInv

\* SqliteStatementPrepare: the sqlite3_stmt is the one of the query, and the
\* streams of the one before are dead.
LEMMA PrepareKeeps ==
  ASSUME Types, Prepared, Attached, PrepareFails \/ PrepareSucceeds
  PROVE  /\ stmt' \in StmtType /\ vm' \in VmType /\ readers' \in [Readers -> ReaderType]
         /\ Prepared' /\ Attached'
         /\ \A r \in Readers :
              readers'[r] = readers[r] \/ readers'[r] = [readers[r] EXCEPT !.dead = TRUE]
         /\ PrepareSucceeds => /\ vm'.query = stmt.query /\ stmt'.query = stmt.query
                               /\ stmt.query \in Queries
<1> USE DEF Types
<1>1. CASE UNCHANGED <<stmt, vm, readers>>
  <2>1. Prepared' /\ Attached'
    BY <1>1 DEF Prepared, Attached
  <2>2. PrepareSucceeds => /\ vm'.query = stmt.query /\ stmt'.query = stmt.query
                           /\ stmt.query \in Queries
    BY <1>1 DEF PrepareSucceeds, Prepared, StmtType, NoVm
  <2> QED
    BY <1>1, <2>1, <2>2
<1>2. CASE /\ readers' = Finalized
           /\ \/ vm' = NoVm /\ stmt' = stmt /\ ~stmt.prepared
              \/ /\ vm' = [NoVm EXCEPT !.query = stmt.query] /\ stmt.query # None
                 /\ stmt' = [stmt EXCEPT !.prepared = TRUE]
  <2>1. stmt' \in StmtType /\ vm' \in VmType
    BY <1>2, NoTypes DEF StmtType, VmType, NoVm
  <2>2. \A r \in Readers :
          readers'[r] = readers[r] \/ readers'[r] = [readers[r] EXCEPT !.dead = TRUE]
    BY <1>2 DEF Finalized
  <2>3. readers' \in [Readers -> ReaderType]
    <3>1. \A r \in Readers : [readers[r] EXCEPT !.dead = TRUE] \in ReaderType
      BY DEF ReaderType
    <3> QED
      BY <1>2, <3>1 DEF Finalized
  <2>4. Prepared'
    BY <1>2, SMT DEF Prepared, NoVm, StmtType
  <2>5. \A r \in Readers : readers'[r].open => readers'[r].dead
    <3> SUFFICES ASSUME NEW r \in Readers, readers'[r].open
                 PROVE  readers'[r].dead
      OBVIOUS
    <3>0. readers[r] \in ReaderType
      OBVIOUS
    <3>1. CASE readers[r].open /\ vm # NoVm
      <4>1. readers'[r] = [readers[r] EXCEPT !.dead = TRUE]
        BY <1>2, <3>1 DEF Finalized
      <4> QED
        BY <3>0, <4>1 DEF ReaderType
    <3>2. CASE ~(readers[r].open /\ vm # NoVm)
      <4>1. readers'[r] = readers[r]
        BY <1>2, <3>2 DEF Finalized
      <4>2. vm = NoVm
        BY <3>2, <4>1
      <4>3. vm.query \notin Queries
        BY <4>2, StatementAssumption DEF NoVm
      <4> QED
        BY <4>1, <4>3 DEF Attached
    <3> QED
      BY <3>1, <3>2
  <2>6. Attached'
    BY <2>5 DEF Attached
  <2>7. PrepareSucceeds => /\ vm'.query = stmt.query /\ stmt'.query = stmt.query
                           /\ stmt.query \in Queries
    <3> SUFFICES ASSUME PrepareSucceeds
                 PROVE  /\ vm'.query = stmt.query /\ stmt'.query = stmt.query
                        /\ stmt.query \in Queries
      OBVIOUS
    <3>1. stmt.query \in Queries
      BY DEF PrepareSucceeds, StmtType
    <3>2. CASE stmt.prepared
      <4>1. UNCHANGED <<stmt, vm>>
        BY <3>2 DEF PrepareSucceeds
      <4> QED
        BY <3>1, <3>2, <4>1, StatementAssumption DEF Prepared
    <3>3. CASE ~stmt.prepared
      BY <3>1, <3>3 DEF PrepareSucceeds, NoVm, StmtType
    <3> QED
      BY <3>2, <3>3
  <2> QED
    BY <2>1, <2>2, <2>3, <2>4, <2>6, <2>7
<1> QED
  BY <1>1, <1>2 DEF PrepareFails, PrepareSucceeds

\* Calls that return at once and report nothing.
LEMMA IdleKeeps ==
  ASSUME ReportInv, call' = NoCall, said' = NoReport,
         stmt' \in StmtType, vm' \in VmType, binder' \in Seq(Params) \cup {None, Half},
         readers' \in [Readers -> ReaderType], given' \in Seq(Params) \cup {None},
         fault' \in BOOLEAN, Prepared', Attached',
         given' # None => binder' = given' /\ \A r \in Readers : ~readers'[r].binder
  PROVE  ReportInv'
<1>1. Types'
  BY NoTypes DEF Types
<1>2. Loops' /\ Progress' /\ Given'
  BY NoLoops DEF Given
<1>3. ReportIsTrue'
  BY NoReports
<1> QED
  BY <1>1, <1>2, <1>3 DEF ReportInv

\* Bind, BindFails, and the options of a statement.
LEMMA ReportOptions ==
  ASSUME ReportInv,
         \/ StatementNew \/ StatementRelease \/ SetTargetTable
         \/ \E q \in Queries : SetSqlQuery(q)
         \/ \E append \in BOOLEAN : SetMode(append)
         \/ \E n \in BatchSizes : SetBatchRows(n)
         \/ \E ps \in Bindings : Bind(ps)
         \/ BindFails
  PROVE  ReportInv'
<1> USE DEF ReportInv, Types
<1>1. CASE StatementNew
  <2>1. stmt' \in StmtType /\ ~stmt'.prepared
    BY <1>1, NoTypes DEF StatementNew, StmtType, NoStmt
  <2>2. Types'
    BY <1>1, <2>1 DEF StatementNew
  <2>3. Prepared' /\ Attached' /\ Given'
    BY <1>1, <2>1 DEF StatementNew, Prepared, Attached, Given
  <2>4. Loops' /\ Progress' /\ ReportIsTrue'
    <3>1. call' = NoCall /\ said' = NoReport
      BY <1>1 DEF StatementNew, Idle
    <3> QED
      BY <3>1, NoLoops, NoReports
  <2> QED
    BY <2>2, <2>3, <2>4
<1>2. CASE StatementRelease
  <2>1. Prepared' /\ Attached'
    BY <1>2 DEF StatementRelease, Prepared, Attached, NoStmt, NoVm
  <2> QED
    BY <1>2, <2>1, NoTypes, IdleKeeps DEF StatementRelease, Idle
<1>3. ASSUME NEW s \in StmtType, SetOption(s),
             s.prepared => stmt.prepared /\ (s.query = stmt.query \/ s.query = None)
      PROVE  ReportInv'
  <2>1. Prepared' /\ Attached'
    BY <1>3 DEF SetOption, Prepared, Attached
  <2> QED
    BY <1>3, <2>1, IdleKeeps DEF SetOption, Idle, Given
<1>4. CASE SetTargetTable
  BY <1>3, <1>4 DEF SetTargetTable, StmtType
<1>5. ASSUME NEW q \in Queries, SetSqlQuery(q)
      PROVE  ReportInv'
  BY <1>3, <1>5 DEF SetSqlQuery, StmtType
<1>6. ASSUME NEW append \in BOOLEAN, SetMode(append)
      PROVE  ReportInv'
  BY <1>3, <1>6 DEF SetMode, StmtType
<1>7. ASSUME NEW n \in BatchSizes, SetBatchRows(n)
      PROVE  ReportInv'
  <2>1. n \in Nat \ {0}
    BY StatementAssumption
  <2> QED
    BY <1>3, <1>7, <2>1 DEF SetBatchRows, StmtType
<1>8. ASSUME NEW ps \in Bindings, Bind(ps)
      PROVE  ReportInv'
  <2>1. ps \in Seq(Params)
    BY StatementAssumption
  <2>2. Prepared' /\ Attached'
    BY <1>8 DEF Bind, Prepared, Attached
  <2> QED
    BY <1>8, <2>1, <2>2, IdleKeeps DEF Bind, Idle
<1>9. CASE BindFails
  <2>1. Prepared' /\ Attached'
    BY <1>9 DEF BindFails, Prepared, Attached
  <2> QED
    BY <1>9, <2>1, IdleKeeps DEF BindFails, Idle
<1> QED
  BY <1>1, <1>2, <1>4, <1>5, <1>6, <1>7, <1>8, <1>9

\* Prepare, and executions that fail before their loop.
LEMMA ReportPrepare ==
  ASSUME ReportInv, Prepare \/ ExecuteFails
  PROVE  ReportInv'
<1> USE DEF ReportInv
<1>1. PrepareFails \/ PrepareSucceeds
  BY DEF Prepare, ExecuteFails
<1>2. /\ call = NoCall /\ said' = NoReport
      /\ UNCHANGED <<binder, call, given, fault>>
  BY DEF Prepare, ExecuteFails, ExecuteGuard, Idle
<1>3. /\ stmt' \in StmtType /\ vm' \in VmType /\ readers' \in [Readers -> ReaderType]
      /\ Prepared' /\ Attached'
      /\ \A r \in Readers :
           readers'[r] = readers[r] \/ readers'[r] = [readers[r] EXCEPT !.dead = TRUE]
  BY <1>1, PrepareKeeps
<1>4. ASSUME NEW r \in Readers
      PROVE  readers'[r].binder = readers[r].binder
  <2>1. readers[r] \in ReaderType
    BY DEF Types
  <2>2. [readers[r] EXCEPT !.dead = TRUE].binder = readers[r].binder
    BY <2>1 DEF ReaderType
  <2> QED
    BY <1>3, <2>2
<1> QED
  BY <1>2, <1>3, <1>4, IdleKeeps DEF Types, Given

\* An execution starts with the parameters that were given, if the query has
\* any, and with nothing else bound.
LEMMA StartsBound ==
  ASSUME ReportInv, NEW c, ExecuteStart(c)
  PROVE  /\ stmt.query \in Queries /\ vm'.query = stmt.query /\ stmt'.query = stmt.query
         /\ (binder # None) <=> stmt.query \in Takes
         /\ stmt.query \in Takes => binder = given /\ given \in Seq(Params)
         /\ GivenRows(stmt.query) \in Seq(Params \cup {None})
         /\ stmt.query \in Takes => GivenRows(stmt.query) = binder
         /\ stmt.query \notin Takes => GivenRows(stmt.query) = <<None>>
<1>1. stmt.query \in Queries /\ vm'.query = stmt.query /\ stmt'.query = stmt.query
  BY PrepareKeeps DEF ExecuteStart, ReportInv
<1>2. /\ stmt.query \in Takes => given # None
      /\ binder # None => stmt.query \in Takes
  BY DEF ExecuteStart, ExecuteGuard
<1>3. stmt.query \in Takes => binder = given /\ given \in Seq(Params)
  BY <1>2 DEF ReportInv, Given, Types
<1>4. stmt.query \in Takes => binder # None
  BY <1>3, NoneIsNoSeq
<1>5. stmt.query \in Takes => given \in Seq(Params \cup {None})
  BY <1>3, SMT
<1>6. <<None>> \in Seq(Params \cup {None})
  BY SMT
<1> QED
  BY <1>1, <1>2, <1>3, <1>4, <1>5, <1>6 DEF GivenRows

\* The loop of an execution.
LEMMA StartKeeps ==
  ASSUME ReportInv, NEW c \in CallType, ExecuteStart(c),
         c.op \in {"export", "update"}, c.op = "export" => c.reader \in Readers,
         c.rows = <<>>, c.count = 0, c.bound = (binder # None),
         c.op = "update" => c.due = GivenRows(stmt.query)
  PROVE  ReportInv'
<1> USE DEF ReportInv
<1>1. /\ stmt' \in StmtType /\ vm' \in VmType /\ readers' \in [Readers -> ReaderType]
      /\ Prepared' /\ Attached'
  BY PrepareKeeps DEF ExecuteStart
<1>2. /\ call' = c /\ given' = None /\ said' = NoReport
      /\ UNCHANGED <<binder, fault>>
  BY DEF ExecuteStart
<1>3. Types'
  BY <1>1, <1>2 DEF Types
<1>4. Given'
  BY <1>2 DEF Given
<1>5. Loops'
  <2>1. stmt.query \in Takes => binder \notin {None, Half}
    BY StartsBound, NoneIsNoSeq
  <2> QED
    BY <1>2, <2>1, StartsBound DEF Loops
<1>6. Progress'
  <2>0. 0 = Len(<<>>) * Size[vm'.query]
    <3>1. vm'.query \in Queries /\ Size[vm'.query] \in Nat
      BY StartsBound, StatementAssumption
    <3>2. Len(<<>>) = 0
      BY SMT
    <3> QED
      BY <3>1, <3>2, OnceMore
  <2>1. CASE c.op = "export"
    BY <1>2, <2>1 DEF Progress
  <2>2. CASE c.op = "update" /\ stmt.query \in Takes
    <3>1. /\ binder \in Seq(Params) /\ binder # None /\ c.due = binder
      BY <2>2, StartsBound
    <3>2. Len(binder) \in Nat
      BY <3>1, SMT
    <3>3. IsPrefixOf(<<>>, ConvertedRows(binder)) /\ EndsWith(binder, binder)
      <4>1. ConvertedRows(binder) \in Seq(RowValues)
        BY <3>1, NoneIsNoSeq, ConvertedType
      <4> QED
        BY <3>1, <3>2, <4>1, SMT DEF IsPrefixOf, EndsWith
    <3>4. /\ call'.op = "update" /\ call'.bound /\ call'.rows = <<>> /\ call'.count = 0
          /\ call'.due = binder /\ binder' = binder
      BY <1>2, <2>2, <3>1
    <3>5. Len(<<>>) + Len(binder) = Len(binder)
      BY <3>2, SMT
    <3> QED
      BY <2>0, <3>2, <3>3, <3>4, <3>5, SMT DEF Progress, IsPrefixOf, EndsWith
  <2>3. CASE c.op = "update" /\ stmt.query \notin Takes
    <3>1. /\ binder = None /\ c.due = <<None>>
      BY <2>3, StartsBound
    <3>2. IsPrefixOf(<<>>, ConvertedRows(<<None>>))
      <4>1. <<None>> \in Seq(RowValues)
        BY NoneIsNoSeq, SMT
      <4>2. ConvertedRows(<<None>>) \in Seq(RowValues)
        BY <4>1, ConvertedType
      <4> QED
        BY <4>2, SMT DEF IsPrefixOf
    <3> QED
      BY <1>2, <2>0, <2>3, <3>1, <3>2 DEF Progress
  <2> QED
    BY <2>1, <2>2, <2>3
<1>7. ReportIsTrue'
  BY <1>2, NoReports
<1> QED
  BY <1>1, <1>3, <1>4, <1>5, <1>6, <1>7

LEMMA ReportExecute ==
  ASSUME ReportInv, ExecuteUpdate \/ \E r \in Readers : ExecuteQuery(r)
  PROVE  ReportInv'
<1>1. stmt.batch \in Nat \ {0}
  BY DEF ReportInv, Types, StmtType
<1>2. CASE ExecuteUpdate
  <2> DEFINE c == [op |-> "update", reader |-> None, rows |-> <<>>,
                   due |-> GivenRows(stmt.query), bound |-> binder # None, size |-> stmt.batch,
                   count |-> 0]
  <2>1. ExecuteStart(c)
    BY <1>2 DEF ExecuteUpdate
  <2>2. GivenRows(stmt.query) \in Seq(RowValues)
    <3>1. GivenRows(stmt.query) \in Seq(Params \cup {None})
      BY <2>1, StartsBound
    <3>2. Params \cup {None} \subseteq RowValues
      BY NoneIsNoSeq
    <3> QED
      BY <3>1, <3>2, SMT
  <2>3. c \in CallType
    BY <1>1, <2>2, SMT DEF CallType
  <2>4. /\ c.op = "update" /\ c.rows = <<>> /\ c.count = 0 /\ c.bound = (binder # None)
        /\ c.due = GivenRows(stmt.query)
    OBVIOUS
  <2> HIDE DEF c
  <2> QED
    BY <2>1, <2>3, <2>4, StartKeeps
<1>3. ASSUME NEW r \in Readers, ExecuteQuery(r)
      PROVE  ReportInv'
  <2> DEFINE c == [op |-> "export", reader |-> r, rows |-> <<>>,
                   due |-> Due(stmt.query, GivenRows(stmt.query)),
                   bound |-> binder # None, size |-> stmt.batch,
                   count |-> 0]
  <2>1. ExecuteStart(c)
    BY <1>3 DEF ExecuteQuery
  <2>2. Due(stmt.query, GivenRows(stmt.query)) \in Seq(RowValues)
    <3>1. stmt.query \in Queries /\ GivenRows(stmt.query) \in Seq(Params \cup {None})
      BY <2>1, StartsBound
    <3> QED
      BY <3>1, DueType
  <2>3. c \in CallType
    BY <1>1, <2>2, SMT DEF CallType
  <2>4. /\ c.op = "export" /\ c.rows = <<>> /\ c.count = 0 /\ c.bound = (binder # None)
        /\ c.reader = r
    OBVIOUS
  <2> HIDE DEF c
  <2> QED
    BY <2>1, <2>3, <2>4, StartKeeps
<1> QED
  BY <1>2, <1>3

\* The loop of an export or of a stream ends.
LEMMA ReportLeave ==
  ASSUME ReportInv, call.op \in {"export", "next"},
         NEW done \in BOOLEAN, NEW status \in {"ok", "error"},
         NEW v \in VmType, NEW b \in Seq(Params) \cup {None, Half},
         v.query = vm.query, vm.query \notin Takes => v.bound = None,
         ~call.bound => b = binder,
         LeaveLoop(done, status, v, b)
  PROVE  ReportInv'
<1> USE DEF ReportInv
<1> DEFINE r == call.reader
<1>1. /\ vm' = v /\ binder' = b /\ call' = NoCall
      /\ UNCHANGED <<stmt, exists, given, said, fault>>
  BY DEF LeaveLoop
<1>2. /\ r \in Readers /\ vm.query \in Queries
      /\ call.bound <=> vm.query \in Takes
  BY DEF Loops
<1>3. /\ readers \in [Readers -> ReaderType] /\ call \in CallType
      /\ readers[r] \in ReaderType
  BY <1>2 DEF Types
<1>4. /\ call.rows \in Seq(RowValues) /\ call.due \in Seq(RowValues)
      /\ call.bound \in BOOLEAN /\ call.size \in Nat \ {0}
  BY <1>3 DEF CallType
<1>5. CASE call.op = "next"
  <2> DEFINE ended == IF status = "error" THEN "error"
                      ELSE IF call.rows = <<>> THEN "end" ELSE "no"
  <2> DEFINE e == IF readers[r].ended = "no" THEN ended ELSE readers[r].ended
  <2> DEFINE g == IF status = "ok" THEN readers[r].got \o call.rows ELSE readers[r].got
  <2>1. readers' = [readers EXCEPT ![r].done = done, ![r].ended = e, ![r].got = g]
    BY <1>5 DEF LeaveLoop
  <2>2. e \in {"no", "end", "error"} /\ g \in Seq(RowValues)
    BY <1>3, <1>4, SMT DEF ReaderType
  <2> HIDE DEF e, g, r
  <2>3. readers'[r] = [readers[r] EXCEPT !.done = done, !.ended = e, !.got = g]
    BY <1>2, <1>3, <2>1
  <2>4. /\ readers'[r] \in ReaderType
        /\ readers'[r].open = readers[r].open /\ readers'[r].dead = readers[r].dead
        /\ readers'[r].binder = readers[r].binder
    BY <1>3, <2>2, <2>3 DEF ReaderType
  <2>5. \A s \in Readers : s # r => readers'[s] = readers[s]
    BY <1>2, <1>3, <2>1
  <2>6. readers' \in [Readers -> ReaderType]
    <3>1. DOMAIN readers' = Readers /\ readers' = [s \in Readers |-> readers'[s]]
      BY <1>3, <2>1
    <3> QED
      BY <1>3, <2>4, <2>5, <3>1
  <2>7. Attached' /\ Prepared'
    BY <1>1, <1>2, <2>4, <2>5 DEF Attached, Prepared
  <2>8. Given'
    BY <1>1, <2>4, <2>5, NoLoops DEF Given
  <2>9. Types'
    BY <1>1, <2>6, NoTypes DEF Types
  <2> QED
    BY <1>1, <2>7, <2>8, <2>9, NoLoops DEF ReportIsTrue
<1>6. CASE call.op = "export" /\ status = "error"
  <2>1. readers' = readers
    BY <1>6 DEF LeaveLoop
  <2>2. Attached' /\ Prepared'
    BY <1>1, <2>1 DEF Attached, Prepared
  <2>3. Given'
    BY <1>1, <1>6 DEF Given
  <2>4. Types'
    BY <1>1, <2>1, NoTypes DEF Types
  <2> QED
    BY <1>1, <2>2, <2>3, <2>4, NoLoops DEF ReportIsTrue
<1>7. CASE call.op = "export" /\ status = "ok"
  <2> DEFINE new == [open |-> TRUE, dead |-> FALSE, binder |-> call.bound,
                     batch |-> call.rows, done |-> done, size |-> call.size,
                     got |-> <<>>, due |-> call.due, ended |-> "no"]
  <2>1. readers' = [readers EXCEPT ![r] = new]
    BY <1>7 DEF LeaveLoop
  <2>2. new \in ReaderType /\ new.binder = call.bound
    BY <1>4, SMT DEF ReaderType
  <2> HIDE DEF new, r
  <2>3. readers' \in [Readers -> ReaderType] /\ readers'[r].binder = call.bound
    BY <1>2, <1>3, <2>1, <2>2
  <2>4. \A s \in Readers : s # r => readers'[s] = readers[s]
    BY <1>2, <1>3, <2>1
  <2>5. Attached' /\ Prepared'
    BY <1>1, <1>2, <2>3, <2>4 DEF Attached, Prepared
  <2>6. Given'
    BY <1>1, <1>7 DEF Given
  <2>7. Types'
    BY <1>1, <2>3, NoTypes DEF Types
  <2> QED
    BY <1>1, <2>5, <2>6, <2>7, NoLoops DEF ReportIsTrue
<1> QED
  BY <1>5, <1>6, <1>7

LEMMA ReportLoops ==
  ASSUME ReportInv,
         \/ ReaderFull \/ ReaderBindEnds \/ ReaderBindFails
         \/ ReaderDone \/ ReaderStepFails \/ ReaderRow
  PROVE  ReportInv'
<1> USE DEF ReportInv
<1>1. call.op \in {"export", "next"}
  BY DEF ReaderFull, ReaderBindEnds, ReaderBindFails, ReaderDone, ReaderStepFails, ReaderRow,
         Looping
<1>2. /\ Turn.vm \in VmType /\ Turn.vm.query = vm.query /\ vm.query \in Queries
      /\ Turn.binder \in Seq(Params) \cup {None, Half}
      /\ vm.query \notin Takes => Turn.vm.bound = None
      /\ ~call.bound => Turn.binder = binder
      /\ call.bound /\ Turn.status = "ok" => Turn.binder \in Seq(Params)
  BY <1>1, TurnType
<1>3. ASSUME NEW s \in Steps(Turn.vm)
      PROVE  /\ s.vm \in VmType /\ s.vm.query = vm.query /\ RowOf(s.vm) \in RowValues
             /\ vm.query \notin Takes => s.vm.bound = None
  BY <1>2, <1>3, StepsType
<1>4. CASE ReaderFull
  <2>1. /\ vm \in VmType /\ binder \in Seq(Params) \cup {None, Half}
        /\ vm.query \notin Takes => vm.bound = None
    BY DEF Types, Prepared
  <2> QED
    BY <1>1, <1>4, <2>1, ReportLeave DEF ReaderFull
<1>5. CASE ReaderBindEnds
  BY <1>1, <1>2, <1>5, ReportLeave DEF ReaderBindEnds
<1>6. CASE ReaderBindFails
  <2>1. CASE call.op = "next"
    BY <1>1, <1>2, <1>6, <2>1, ReportLeave DEF ReaderBindFails
  <2>2. CASE call.op # "next"
    BY <1>1, <1>2, <1>6, <2>2, ReportLeave DEF ReaderBindFails
  <2> QED
    BY <2>1, <2>2
<1>7. CASE ReaderDone
  <2>1. PICK s \in Steps(Turn.vm) : LeaveLoop(TRUE, "ok", s.vm, Turn.binder)
    BY <1>7 DEF ReaderDone
  <2> QED
    BY <1>1, <1>2, <1>3, <2>1, ReportLeave
<1>8. CASE ReaderStepFails
  <2>1. PICK s \in Steps(Turn.vm) : LeaveLoop(s.rc = "error", "error", s.vm, Turn.binder)
    BY <1>8 DEF ReaderStepFails
  <2>2. (s.rc = "error") \in BOOLEAN
    OBVIOUS
  <2> QED
    BY <1>1, <1>2, <1>3, <2>1, <2>2, ReportLeave
<1>9. CASE ReaderRow
  <2>1. PICK s \in Steps(Turn.vm) :
          vm' = s.vm /\ call' = [call EXCEPT !.rows = Append(@, RowOf(s.vm))]
    BY <1>9 DEF ReaderRow
  <2>2. /\ binder' = Turn.binder /\ Turn.status = "ok"
        /\ UNCHANGED <<stmt, readers, exists, given, said, fault>>
    BY <1>9 DEF ReaderRow
  <2>3. /\ s.vm \in VmType /\ s.vm.query = vm.query /\ RowOf(s.vm) \in RowValues
        /\ vm.query \notin Takes => s.vm.bound = None
    BY <1>3
  <2>4. call \in CallType
    BY DEF Types
  <2>5. Append(call.rows, RowOf(s.vm)) \in Seq(RowValues)
    BY <2>3, <2>4, SMT DEF CallType
  <2>6. /\ call' \in CallType
        /\ call'.op = call.op /\ call'.bound = call.bound /\ call'.reader = call.reader
    BY <2>1, <2>4, <2>5 DEF CallType
  <2>7. Types'
    BY <1>2, <2>1, <2>2, <2>3, <2>6 DEF Types
  <2>8. Prepared' /\ Attached'
    BY <2>1, <2>2, <2>3 DEF Prepared, Attached
  <2>9. Given'
    BY <1>1, <1>2, <2>2, <2>6 DEF Given
  <2>10. Loops'
    <3>1. call.bound => binder' \notin {None, Half}
      BY <1>2, <2>2, NoneIsNoSeq
    <3> QED
      BY <1>1, <2>1, <2>3, <2>6, <3>1 DEF Loops
  <2>11. Progress' /\ ReportIsTrue'
    BY <1>1, <2>2, <2>6 DEF Progress, ReportIsTrue
  <2> QED
    BY <2>7, <2>8, <2>9, <2>10, <2>11
<1> QED
  BY <1>4, <1>5, <1>6, <1>7, <1>8, <1>9

\* The callbacks of a stream.
LEMMA ReportStreams ==
  ASSUME ReportInv, NEW r \in Readers,
         NextInitial(r) \/ NextEnd(r) \/ NextLoop(r) \/ ReleaseReader(r)
  PROVE  ReportInv'
<1> USE DEF ReportInv
<1>1. /\ readers \in [Readers -> ReaderType] /\ readers[r] \in ReaderType
      /\ call = NoCall /\ said' = NoReport
  BY DEF Types, NextInitial, NextEnd, NextLoop, ReleaseReader, Idle
<1>2. ASSUME readers' \in [Readers -> ReaderType],
             \A s \in Readers : s # r => readers'[s] = readers[s],
             readers'[r].open => readers[r].open /\ readers'[r].dead = readers[r].dead,
             readers'[r].binder = readers[r].binder \/ (~readers'[r].open /\ ~readers'[r].binder),
             stmt' = stmt, vm' = vm, call' = call, given' = given, fault' = fault,
             binder' = binder \/ (binder' = None /\ readers[r].binder)
      PROVE  ReportInv'
  <2>1. Prepared' /\ Attached'
    BY <1>2 DEF Prepared, Attached
  <2>2. given' # None => binder' = given' /\ \A s \in Readers : ~readers'[s].binder
    BY <1>2 DEF Given
  <2> QED
    BY <1>1, <1>2, <2>1, <2>2, IdleKeeps DEF Types
<1>3. CASE NextInitial(r)
  <2> DEFINE d == [readers[r] EXCEPT !.got = @ \o readers[r].batch, !.batch = None]
  <2>1. readers' = [readers EXCEPT ![r] = d]
    BY <1>1, <1>3 DEF NextInitial
  <2>2. readers[r].got \o readers[r].batch \in Seq(RowValues)
    BY <1>1, <1>3, SMT DEF NextInitial, ReaderType
  <2>3. d \in ReaderType
    BY <1>1, <2>2 DEF ReaderType
  <2>4. d.open = readers[r].open /\ d.dead = readers[r].dead /\ d.binder = readers[r].binder
    BY <1>1 DEF ReaderType
  <2> HIDE DEF d
  <2>5. /\ readers' \in [Readers -> ReaderType] /\ readers'[r] = d
        /\ \A s \in Readers : s # r => readers'[s] = readers[s]
    BY <1>1, <2>1, <2>3
  <2>6. /\ stmt' = stmt /\ vm' = vm /\ call' = call /\ given' = given /\ fault' = fault
        /\ binder' = binder
    BY <1>3 DEF NextInitial
  <2> HIDE DEF ReportInv
  <2> QED
    BY <1>2, <2>4, <2>5, <2>6
<1>4. CASE NextEnd(r)
  <2> DEFINE d == [readers[r] EXCEPT !.ended = IF @ = "no" THEN "end" ELSE @]
  <2>1. readers' = [readers EXCEPT ![r] = d]
    BY <1>1, <1>4 DEF NextEnd
  <2>2. d \in ReaderType
    BY <1>1 DEF ReaderType
  <2>3. d.open = readers[r].open /\ d.dead = readers[r].dead /\ d.binder = readers[r].binder
    BY <1>1 DEF ReaderType
  <2> HIDE DEF d
  <2>4. /\ readers' \in [Readers -> ReaderType] /\ readers'[r] = d
        /\ \A s \in Readers : s # r => readers'[s] = readers[s]
    BY <1>1, <2>1, <2>2
  <2>5. /\ stmt' = stmt /\ vm' = vm /\ call' = call /\ given' = given /\ fault' = fault
        /\ binder' = binder
    BY <1>4 DEF NextEnd
  <2> HIDE DEF ReportInv
  <2> QED
    BY <1>2, <2>3, <2>4, <2>5
<1>5. CASE ReleaseReader(r)
  <2>1. NoReader \in ReaderType /\ ~NoReader.open /\ ~NoReader.binder
    BY NoTypes DEF NoReader
  <2>2. /\ readers' \in [Readers -> ReaderType] /\ readers'[r] = NoReader
        /\ \A s \in Readers : s # r => readers'[s] = readers[s]
    BY <1>1, <1>5, <2>1 DEF ReleaseReader
  <2>3. /\ stmt' = stmt /\ vm' = vm /\ call' = call /\ given' = given /\ fault' = fault
        /\ binder' = binder \/ (binder' = None /\ readers[r].binder)
    BY <1>5 DEF ReleaseReader
  <2> HIDE DEF ReportInv
  <2> QED
    BY <1>2, <2>1, <2>2, <2>3
<1>6. CASE NextLoop(r)
  <2> DEFINE gone == readers[r].dead \/ (readers[r].binder /\ binder \in {None, Half})
  <2>1. /\ UNCHANGED <<stmt, vm, binder, readers, exists, given>>
        /\ fault' = (fault \/ gone)
        /\ readers[r].open
    BY <1>6 DEF NextLoop
  <2>2. Prepared' /\ Attached'
    BY <2>1 DEF Prepared, Attached
  <2>3. gone \in BOOLEAN /\ fault' \in BOOLEAN
    BY <1>1, <2>1 DEF Types, ReaderType
  <2>4. CASE gone
    <3>1. call' = NoCall
      BY <1>6, <2>4 DEF NextLoop
    <3> QED
      BY <1>1, <2>1, <2>2, <2>3, <3>1, IdleKeeps DEF Types, Given
  <2>5. CASE ~gone
    <3> DEFINE c == [op |-> "next", reader |-> r, rows |-> <<>>, due |-> <<>>,
                     bound |-> readers[r].binder, size |-> readers[r].size, count |-> 0]
    <3>1. call' = c
      BY <1>6, <2>5 DEF NextLoop
    <3>2. /\ c \in CallType /\ c.op = "next" /\ c.reader = r
          /\ c.bound = readers[r].binder
      BY <1>1, SMT DEF CallType, ReaderType
    <3> HIDE DEF c
    <3>3. Types'
      BY <2>1, <2>3, <3>1, <3>2 DEF Types
    <3>4. Given'
      BY <2>1, <3>1, <3>2 DEF Given
    <3>5. Loops'
      BY <2>1, <2>5, <3>1, <3>2 DEF Loops, Attached
    <3>6. Progress' /\ ReportIsTrue'
      BY <1>1, <3>1, <3>2, NoReports DEF Progress
    <3> QED
      BY <2>2, <3>3, <3>4, <3>5, <3>6
  <2> QED
    BY <2>4, <2>5
<1> QED
  BY <1>3, <1>4, <1>5, <1>6

\* A call returns: what it says is true if what it executed is a prefix of what
\* was to be executed, and all of it exactly if it says "ok".
LEMMA ReportsTruly ==
  ASSUME ReportInv, NEW status \in {"ok", "error"}, NEW ran \in Seq(RowValues),
         NEW count, call.op = "ingest" => count = Len(ran),
         call.op = "update" /\ status = "ok" => count = Len(ran) * Size[vm.query],
         Report(status, ran, count), call.op \in {"update", "ingest"},
         IsPrefixOf(ran, ConvertedRows(call.due)),
         status = "ok" => Len(ran) = Len(call.due),
         status = "error" => Len(ran) < Len(call.due) \/ call.due = <<>>,
         vm' \in VmType, vm'.query = vm.query, vm.query \notin Takes => vm'.bound = None,
         stmt' = stmt, readers' = readers, given' = given, fault' = fault
  PROVE  ReportInv'
<1> USE DEF ReportInv
<1>1. call.due \in Seq(RowValues)
  BY DEF Types, CallType
<1>2. /\ said' = [op |-> call.op, status |-> status, ran |-> ran, due |-> call.due,
                  count |-> count]
      /\ call' = NoCall /\ binder' = None
  BY DEF Report
<1>3. given = None
  BY DEF Given
<1>4. Types'
  BY <1>2, NoTypes DEF Types
<1>5. Prepared' /\ Attached' /\ Given'
  BY <1>2, <1>3 DEF Prepared, Attached, Given
<1>8. /\ said'.op = call.op /\ said'.status = status /\ said'.ran = ran
      /\ said'.due = call.due /\ said'.count = count
  BY <1>2
<1>9. ReportIsTrue'
  <2>1. call.op = "update" => vm.query = stmt'.query
    BY DEF Loops
  <2> QED
    BY <1>8, <2>1 DEF ReportIsTrue, IsPrefixOf
<1> QED
  BY <1>2, <1>4, <1>5, <1>9, NoLoops

\* The first row of the binder is the next one of due.
LEMMA TakesNext ==
  ASSUME NEW rows \in Seq(RowValues), NEW due \in Seq(RowValues), NEW b \in Seq(Params), b # <<>>,
         IsPrefixOf(rows, ConvertedRows(due)), EndsWith(due, b), Len(rows) + Len(b) = Len(due)
  PROVE  LET ran == Append(rows, Converted(Head(b))) IN
         /\ ran \in Seq(RowValues) /\ Len(ran) = Len(rows) + 1
         /\ IsPrefixOf(ran, ConvertedRows(due))
         /\ Len(ran) + Len(Tail(b)) = Len(due)
<1> DEFINE row == Converted(Head(b))
<1> DEFINE all == ConvertedRows(due)
<1>0. all \in Seq(RowValues) /\ Len(all) = Len(due) /\ \A i \in 1..Len(due) : all[i] = Converted(due[i])
  BY ConvertedType
<1>1. /\ Len(rows) \in Nat /\ Len(b) \in Nat \ {0} /\ Len(due) \in Nat
      /\ Len(Tail(b)) = Len(b) - 1 /\ Head(b) = b[1] /\ Head(b) \in Params
  BY SMT
<1>2. Head(b) = due[Len(rows) + 1]
  <2>1. 1 \in 1..Len(b) /\ Len(due) - Len(b) + 1 = Len(rows) + 1
    BY <1>1, SMT
  <2> QED
    BY <1>1, <2>1 DEF EndsWith
<1>3. row \in RowValues /\ row = all[Len(rows) + 1]
  <2>1. Len(rows) + 1 \in 1..Len(due)
    BY <1>1, SMT
  <2>2. row \in RowValues
    BY <1>1, ConvertedType, NoneIsNoSeq
  <2> QED
    BY <1>0, <1>2, <2>1, <2>2
<1> HIDE DEF row, all
<1>4. Append(rows, row) \in Seq(RowValues) /\ Len(Append(rows, row)) = Len(rows) + 1
  BY <1>1, <1>3, SMT
<1>5. ASSUME NEW i \in 1..(Len(rows) + 1)
      PROVE  Append(rows, row)[i] = all[i]
  <2>1. CASE i = Len(rows) + 1
    BY <1>1, <1>3, <2>1, SMT
  <2>2. CASE i \in 1..Len(rows)
    <3>1. rows[i] = all[i]
      BY <2>2 DEF IsPrefixOf, all
    <3> QED
      BY <1>1, <1>3, <2>2, <3>1, SMT
  <2> QED
    BY <1>1, <2>1, <2>2, SMT
<1>6. IsPrefixOf(Append(rows, row), all)
  BY <1>0, <1>1, <1>4, <1>5, SMT DEF IsPrefixOf
<1>7. Len(Append(rows, row)) + Len(Tail(b)) = Len(due)
  BY <1>1, <1>4, SMT
<1> QED
  BY <1>4, <1>6, <1>7 DEF row, all

\* What is left of the binder is still the end of due.
LEMMA TailEndsWith ==
  ASSUME NEW due \in Seq(RowValues), NEW b \in Seq(Params), b # <<>>, EndsWith(due, b)
  PROVE  EndsWith(due, Tail(b)) /\ Len(Tail(b)) = Len(b) - 1
<1>1. /\ Len(b) \in Nat \ {0} /\ Len(due) \in Nat
      /\ Tail(b) \in Seq(Params) /\ Len(Tail(b)) = Len(b) - 1
  BY SMT
<1>2. ASSUME NEW i \in 1..Len(Tail(b))
      PROVE  Tail(b)[i] = due[Len(due) - Len(Tail(b)) + i]
  <2>1. Tail(b)[i] = b[i + 1] /\ i + 1 \in 1..Len(b)
    BY <1>1, SMT
  <2>2. b[i + 1] = due[Len(due) - Len(b) + (i + 1)]
    BY <2>1 DEF EndsWith
  <2>3. Len(due) - Len(b) + (i + 1) = Len(due) - Len(Tail(b)) + i
    BY <1>1, SMT
  <2> QED
    BY <2>1, <2>2, <2>3
<1> QED
  BY <1>1, <1>2, SMT DEF EndsWith

\* The loop goes on: one row less is bound.
LEMMA TurnKeeps ==
  ASSUME ReportInv, call.op \in {"update", "ingest"}, call.bound,
         binder \in Seq(Params), binder # <<>>,
         NEW rows \in Seq(RowValues), NEW count \in Nat,
         call' = [call EXCEPT !.rows = rows, !.count = count],
         call.op = "ingest" => count = Len(rows),
         call.op = "update" => vm'.failed \/ count = Len(rows) * Size[vm.query],
         binder' = Tail(binder), vm' \in VmType, vm'.query = vm.query,
         vm.query \notin Takes => vm'.bound = None,
         stmt' = stmt, readers' = readers, given' = given, said' = said, fault' = fault,
         IsPrefixOf(rows, ConvertedRows(call.due)),
         \/ Len(rows) + Len(Tail(binder)) = Len(call.due) /\ ~(call.op = "update" /\ vm'.failed)
         \/ /\ Len(rows) + Len(Tail(binder)) < Len(call.due)
            /\ call.op = "update" /\ vm'.failed
  PROVE  ReportInv'
<1> USE DEF ReportInv
<1>1. call \in CallType /\ call.due \in Seq(RowValues)
  BY DEF Types, CallType
<1>2. /\ call' \in CallType /\ call'.op = call.op /\ call'.bound = call.bound
      /\ call'.due = call.due /\ call'.rows = rows /\ call'.reader = call.reader
      /\ call'.count = count
  BY <1>1 DEF CallType
<1>3. /\ Tail(binder) \in Seq(Params) /\ Tail(binder) \notin {None, Half}
  <2>1. Tail(binder) \in Seq(Params)
    BY SMT
  <2> QED
    BY <2>1, NoneIsNoSeq
<1>4. EndsWith(call.due, binder)
  BY DEF Progress
<1>5. EndsWith(call.due, Tail(binder))
  BY <1>1, <1>4, TailEndsWith
<1>6. given = None
  BY DEF Given
<1>7. Types'
  BY <1>2, <1>3 DEF Types
<1>8. Prepared' /\ Attached' /\ Given'
  BY <1>6 DEF Prepared, Attached, Given
<1>9. Loops'
  BY <1>2, <1>3 DEF Loops
<1>10. Progress'
  <2>1. EndsWith(call'.due, binder') /\ IsPrefixOf(call'.rows, ConvertedRows(call'.due))
    BY <1>2, <1>5
  <2>2. /\ Len(call'.rows) = Len(rows) /\ Len(binder') = Len(Tail(binder))
        /\ Len(call'.due) = Len(call.due)
    BY <1>2
  <2>3. Len(rows) \in Nat /\ Len(Tail(binder)) \in Nat /\ Len(call.due) \in Nat
    BY <1>1, <1>3, SMT
  <2> QED
    BY <1>2, <2>1, <2>2, <2>3, SMT DEF Progress, EndsWith, IsPrefixOf
<1>11. ReportIsTrue'
  BY DEF ReportIsTrue
<1> QED
  BY <1>7, <1>8, <1>9, <1>10, <1>11

\* One turn of the loop of an update.
LEMMA ReportUpdate ==
  ASSUME ReportInv, UpdateTurn
  PROVE  ReportInv'
<1> USE DEF ReportInv
<1>1. /\ call.op = "update" /\ call \in CallType
      /\ call.rows \in Seq(RowValues) /\ call.due \in Seq(RowValues)
      /\ IsPrefixOf(call.rows, ConvertedRows(call.due)) /\ call.count \in Nat
      /\ vm.failed \/ call.count = Len(call.rows) * Size[vm.query]
  BY DEF UpdateTurn, Types, CallType, Progress
<1>2. /\ stmt' = stmt /\ readers' = readers /\ given' = given /\ fault' = fault
  BY DEF UpdateTurn
<1>3. /\ Turn.status \in {"finished", "error", "ok"}
      /\ Turn.vm \in VmType /\ Turn.vm.query = vm.query /\ vm.query \in Queries
      /\ vm.query \notin Takes => Turn.vm.bound = None
      /\ ~call.bound => Turn.status = "ok" /\ Turn.binder = binder /\ Turn.vm = vm
      /\ call.bound => binder \in Seq(Params) /\ Turn = BindNext(binder, vm)
      /\ call.bound <=> vm.query \in Takes
  BY <1>1, TurnType DEF Loops
<1>4. vm \in VmType /\ vm.failed \in BOOLEAN
  BY DEF Types, VmType
<1>5. Len(call.rows) \in Nat /\ Len(call.due) \in Nat /\ Size[vm.query] \in Nat
  <2>1. Size[vm.query] \in Nat
    BY <1>3, StatementAssumption
  <2> QED
    BY <1>1, <2>1, SMT
<1>6. ASSUME NEW v \in VmType, v.query = vm.query, vm.query \notin Takes => v.bound = None,
             NEW status \in {"ok", "error"}, NEW ran \in Seq(RowValues),
             IsPrefixOf(ran, ConvertedRows(call.due)), NEW rows,
             ~v.failed /\ status = "ok" => rows = Len(ran) * Size[vm.query],
             v.failed \/ status = "error" => Len(ran) < Len(call.due) \/ call.due = <<>>,
             ~v.failed /\ status = "ok" => Len(ran) = Len(call.due),
             UpdateEnds(status, ran, rows, v)
      PROVE  ReportInv'
  <2> DEFINE st == IF v.failed THEN "error" ELSE status
  <2>1. Report(st, ran, rows) /\ vm' = Reset(v)
    BY <1>6 DEF UpdateEnds
  <2>2. /\ vm' \in VmType /\ vm'.query = vm.query
        /\ vm.query \notin Takes => vm'.bound = None
    BY <1>6, <2>1 DEF Reset, VmType
  <2>3. st \in {"ok", "error"} /\ (st = "ok" => Len(ran) = Len(call.due))
        /\ (st = "ok" => rows = Len(ran) * Size[vm.query])
        /\ (st = "error" => Len(ran) < Len(call.due) \/ call.due = <<>>)
    BY <1>6 DEF VmType
  <2> HIDE DEF st, ReportInv
  <2> QED
    BY <1>1, <1>2, <1>6, <2>1, <2>2, <2>3, ReportsTruly
<1>7. CASE ~call.bound
  <2>1. call.rows = <<>> /\ call.count = 0 /\ call.due = <<None>> /\ vm.bound = None /\ vm.query \notin Takes
    BY <1>1, <1>3, <1>7 DEF Progress, Prepared
  <2>2. PICK failed \in MayFail, n \in 0..Size[vm.query] :
          LET v == [query |-> vm.query, at |-> 0, bound |-> vm.bound, failed |-> failed]
          IN /\ ~failed => n = Size[vm.query]
             /\ UpdateEnds("ok", IF failed THEN call.rows ELSE Append(call.rows, v.bound),
                           call.count + n, v)
    BY <1>3, <1>7 DEF UpdateTurn
  <2> DEFINE v == [query |-> vm.query, at |-> 0, bound |-> vm.bound, failed |-> failed]
  <2> DEFINE ran == IF failed THEN <<>> ELSE <<None>>
  <2>3. failed \in BOOLEAN
    BY <2>2 DEF MayFail
  <2>4. /\ v \in VmType /\ v.query = vm.query /\ v.bound = None /\ v.failed = failed
    BY <1>4, <2>1, <2>3 DEF VmType
  <2>5. UpdateEnds("ok", ran, call.count + n, v)
    <3>1. Append(<<>>, None) = <<None>>
      BY SMT
    <3> QED
      BY <2>1, <2>2, <3>1
  <2>6. /\ ran \in Seq(RowValues) /\ IsPrefixOf(ran, ConvertedRows(call.due))
        /\ failed => Len(ran) < Len(call.due)
        /\ ~failed => Len(ran) = Len(call.due)
    <3>1. /\ ConvertedRows(<<None>>) \in Seq(RowValues)
          /\ Len(ConvertedRows(<<None>>)) = 1 /\ ConvertedRows(<<None>>)[1] = None
      <4>1. <<None>> \in Seq(RowValues) /\ Len(<<None>>) = 1 /\ <<None>>[1] = None
        BY NoneIsNoSeq, SMT
      <4>2. 1 \in 1..1
        BY SMT
      <4> QED
        BY <4>1, <4>2, ConvertedType
    <3> QED
      BY <2>1, <2>3, <3>1, NoneIsNoSeq, SMT DEF IsPrefixOf
  <2>7. ~failed => call.count + n = Len(ran) * Size[vm.query]
    <3> SUFFICES ASSUME ~failed PROVE 0 + Size[vm.query] = Len(<<None>>) * Size[vm.query]
      BY <2>1, <2>2
    <3> QED
      BY <1>5, Z3
  <2> HIDE DEF v, ran, ReportInv
  <2> QED
    BY <1>6, <2>1, <2>4, <2>5, <2>6, <2>7
<1>8. CASE call.bound
  <2> DEFINE t == BindNext(binder, vm)
  <2>1. /\ binder \in Seq(Params) /\ Turn = t /\ Len(binder) \in Nat
        /\ EndsWith(call.due, binder) /\ Len(call.rows) + Len(binder) <= Len(call.due)
        /\ ~vm.failed => Len(call.rows) + Len(binder) = Len(call.due)
        /\ vm.failed => call.rows = <<>> \/ Len(call.rows) + Len(binder) < Len(call.due)
    BY <1>1, <1>3, <1>8, SMT DEF Progress
  <2>2. /\ t.vm \in VmType /\ t.vm.query = vm.query
        /\ t.status = "finished" => binder = <<>> /\ t.vm = vm
        /\ t.status = "error" => binder # <<>> /\ ~t.vm.failed
        /\ t.status = "ok" =>
             /\ binder # <<>> /\ ~vm.failed /\ t.binder = Tail(binder)
             /\ t.vm.bound = Converted(Head(binder)) /\ t.vm.bound \in Params
    <3>1. /\ t.vm \in VmType /\ t.vm.query = vm.query
          /\ t.status = "finished" => binder = <<>> /\ t.vm = vm
          /\ t.status = "error" => binder # <<>> /\ ~t.vm.failed
          /\ t.status = "ok" =>
               /\ binder # <<>> /\ ~vm.failed /\ t.binder = Tail(binder)
               /\ t.vm.bound = Converted(Head(binder)) /\ Head(binder) \in Params
      BY <1>4, <2>1, BindNextType
    <3> HIDE DEF t
    <3> QED
      BY <3>1, ConvertedType
  <2> HIDE DEF t
  <2>3. CASE t.status = "finished"
    <3>1. UpdateEnds("ok", call.rows, call.count, vm)
      BY <1>1, <2>1, <2>2, <2>3 DEF UpdateTurn
    <3>2. Len(binder) = 0
      BY <2>2, <2>3, SMT
    <3>3. vm.failed => Len(call.rows) < Len(call.due) \/ call.due = <<>>
      BY <1>1, <1>5, <2>1, <3>2, SMT
    <3>4. ~vm.failed => Len(call.rows) = Len(call.due)
      BY <1>5, <2>1, <3>2, SMT
    <3>5. vm.query \notin Takes => vm.bound = None
      BY DEF Prepared
    <3> HIDE DEF ReportInv
    <3> QED
      BY <1>1, <1>4, <1>6, <3>1, <3>3, <3>4, <3>5
  <2>4. CASE t.status = "error"
    <3>1. UpdateEnds("error", call.rows, call.count, t.vm)
      BY <1>1, <2>1, <2>2, <2>4 DEF UpdateTurn
    <3>2. Len(binder) > 0
      BY <2>1, <2>2, <2>4, SMT
    <3>3. Len(call.rows) < Len(call.due)
      BY <1>5, <2>1, <3>2, SMT
    <3>4. vm.query \notin Takes => t.vm.bound = None
      BY <1>3, <2>1
    <3> HIDE DEF ReportInv
    <3> QED
      BY <1>1, <1>6, <2>2, <3>1, <3>3, <3>4
  <2>5. CASE t.status = "ok"
    <3> DEFINE row == Converted(Head(binder))
    <3>1. PICK failed \in MayFail, n \in 0..Size[vm.query] :
            LET v == [query |-> t.vm.query, at |-> 0, bound |-> t.vm.bound, failed |-> failed]
                ran == IF failed THEN call.rows ELSE Append(call.rows, v.bound)
            IN /\ ~failed => n = Size[vm.query]
               /\ call' = [call EXCEPT !.rows = ran, !.count = @ + n]
               /\ vm' = v /\ binder' = t.binder /\ said' = said
      BY <1>8, <2>1, <2>5 DEF UpdateTurn
    <3> DEFINE ran == IF failed THEN call.rows ELSE Append(call.rows, row)
    <3>2. failed \in BOOLEAN
      BY <3>1 DEF MayFail
    <3>3. vm' = [query |-> vm.query, at |-> 0, bound |-> row, failed |-> failed]
      BY <2>2, <2>5, <3>1
    <3>4. vm' \in VmType /\ vm'.query = vm.query /\ vm'.failed = failed
      BY <1>4, <2>2, <2>5, <3>2, <3>3 DEF VmType
    <3>5. /\ call' = [call EXCEPT !.rows = ran, !.count = call.count + n]
          /\ binder' = Tail(binder) /\ said' = said
      BY <2>2, <2>5, <3>1
    <3>6. binder # <<>> /\ Len(call.rows) + Len(binder) = Len(call.due)
      BY <2>1, <2>2, <2>5
    <3>7. /\ Append(call.rows, row) \in Seq(RowValues)
          /\ Len(Append(call.rows, row)) = Len(call.rows) + 1
          /\ IsPrefixOf(Append(call.rows, row), ConvertedRows(call.due))
          /\ Len(Append(call.rows, row)) + Len(Tail(binder)) = Len(call.due)
      BY <1>1, <2>1, <3>6, TakesNext
    <3>8. Len(call.rows) + Len(Tail(binder)) < Len(call.due)
      BY <1>5, <2>1, <3>6, SMT
    <3>9. /\ ran \in Seq(RowValues) /\ IsPrefixOf(ran, ConvertedRows(call.due))
          /\ failed => Len(ran) + Len(Tail(binder)) < Len(call.due)
          /\ ~failed => Len(ran) + Len(Tail(binder)) = Len(call.due)
      BY <1>1, <3>2, <3>7, <3>8
    <3>10. vm.query \in Takes
      BY <1>3, <1>8
    <3>11. call.count + n \in Nat
      BY <1>1, <1>5, SMT
    <3>12. vm'.failed \/ call.count + n = Len(ran) * Size[vm.query]
      <4> SUFFICES ASSUME ~failed
                   PROVE  call.count + n = Len(Append(call.rows, row)) * Size[vm.query]
        BY <3>2, <3>4
      <4>1. call.count = Len(call.rows) * Size[vm.query] /\ n = Size[vm.query]
        BY <1>1, <2>2, <2>5, <3>1
      <4>2. (Len(call.rows) + 1) * Size[vm.query] = Len(call.rows) * Size[vm.query] + Size[vm.query]
        BY <1>5, OnceMore
      <4> QED
        BY <3>7, <4>1, <4>2
    <3> HIDE DEF ran, row, ReportInv
    <3> QED
      BY <1>1, <1>2, <1>8, <2>1, <3>2, <3>4, <3>5, <3>6, <3>9, <3>10, <3>11, <3>12, TurnKeeps
  <2> QED
    BY <1>3, <1>8, <2>1, <2>3, <2>4, <2>5
<1> QED
  BY <1>1, <1>7, <1>8 DEF CallType

\* Bulk ingestion.
LEMMA ReportIngest ==
  ASSUME ReportInv, IngestRefused \/ IngestStart \/ IngestTurn
  PROVE  ReportInv'
<1> USE DEF ReportInv
<1>1. CASE IngestRefused
  <2>1. /\ call = NoCall /\ call' = NoCall /\ binder' = None /\ given' = None
        /\ stmt' = stmt /\ vm' = vm /\ readers' = readers /\ fault' = fault
        /\ said' = [op |-> "ingest", status |-> "error", ran |-> <<>>, count |-> 0,
                    due |-> IF given = None THEN <<>> ELSE given]
    BY <1>1 DEF IngestRefused, IngestGuard, Idle
  <2> DEFINE due == IF given = None THEN <<>> ELSE given
  <2>2. due \in Seq(Params)
    BY SMT DEF Types
  <2>3. /\ said'.op = "ingest" /\ said'.status = "error" /\ said'.ran = <<>>
        /\ said'.count = 0 /\ said'.due = due
    BY <2>1
  <2> HIDE DEF due
  <2>4. /\ IsPrefixOf(<<>>, ConvertedRows(due)) /\ Len(<<>>) = 0
        /\ Len(<<>>) < Len(due) \/ due = <<>>
    <3>1. ConvertedRows(due) \in Seq(RowValues)
      BY <2>2, NoneIsNoSeq, ConvertedType
    <3> QED
      BY <2>2, <3>1, SMT DEF IsPrefixOf
  <2>5. ReportIsTrue'
    BY <2>3, <2>4 DEF ReportIsTrue, IsPrefixOf
  <2>6. Types' /\ Prepared' /\ Attached' /\ Given'
    BY <2>1, NoTypes DEF Types, Prepared, Attached, Given
  <2> QED
    BY <2>1, <2>5, <2>6, NoLoops
<1>2. CASE IngestStart
  <2> DEFINE c == [op |-> "ingest", reader |-> None, rows |-> <<>>, due |-> given,
                   bound |-> TRUE, size |-> stmt.batch, count |-> 0]
  <2>1. /\ binder # None /\ given = binder /\ call' = c /\ given' = None /\ said' = NoReport
        /\ stmt' = stmt /\ vm' = vm /\ readers' = readers /\ fault' = fault /\ binder' = binder
    BY <1>2 DEF IngestStart, IngestGuard
  <2>2. /\ binder \in Seq(Params) /\ binder \in Seq(RowValues) /\ Len(binder) \in Nat
        /\ binder \notin {None, Half}
    BY <2>1, NoneIsNoSeq, SMT DEF Types
  <2>3. c \in CallType
    BY <2>1, <2>2, SMT DEF CallType, Types, StmtType
  <2>4. c.op = "ingest" /\ c.rows = <<>> /\ c.due = binder /\ c.bound /\ c.count = 0
    BY <2>1
  <2> HIDE DEF c
  <2>5. Types' /\ Prepared' /\ Attached' /\ Given'
    BY <2>1, <2>3 DEF Types, Prepared, Attached, Given
  <2>6. Loops'
    BY <2>1, <2>2, <2>4 DEF Loops
  <2>7. /\ IsPrefixOf(<<>>, ConvertedRows(binder)) /\ EndsWith(binder, binder)
        /\ Len(<<>>) + Len(binder) = Len(binder) /\ Len(<<>>) = 0
    <3>1. ConvertedRows(binder) \in Seq(RowValues)
      BY <2>2, ConvertedType
    <3> QED
      BY <2>2, <3>1, SMT DEF IsPrefixOf, EndsWith
  <2>8. Progress'
    BY <2>1, <2>2, <2>4, <2>7, SMT DEF Progress, IsPrefixOf, EndsWith
  <2> QED
    BY <2>1, <2>5, <2>6, <2>8, NoReports
<1>3. CASE IngestTurn
  <2> DEFINE t == BindNext(binder, NoVm)
  <2>1. /\ call.op = "ingest" /\ call.bound /\ binder \in Seq(Params)
        /\ stmt' = stmt /\ vm' = vm /\ readers' = readers /\ given' = given /\ fault' = fault
    BY <1>3 DEF IngestTurn, Loops, Types
  <2>2. /\ call.rows \in Seq(RowValues) /\ call.due \in Seq(RowValues)
        /\ IsPrefixOf(call.rows, ConvertedRows(call.due)) /\ call.count = Len(call.rows)
        /\ EndsWith(call.due, binder) /\ Len(call.rows) + Len(binder) = Len(call.due)
        /\ Len(call.rows) \in Nat /\ Len(call.due) \in Nat /\ Len(binder) \in Nat
    BY <2>1, SMT DEF Types, CallType, Progress
  <2>3. /\ t.status \in {"finished", "error", "ok"}
        /\ t.status = "finished" => binder = <<>>
        /\ t.status # "finished" => binder # <<>>
        /\ t.status = "ok" => t.binder = Tail(binder) /\ t.vm.bound = Converted(Head(binder))
    BY <2>1, NoTypes, BindNextType
  <2> HIDE DEF t
  <2>4. vm \in VmType /\ (vm.query \notin Takes => vm.bound = None)
    BY DEF Types, Prepared
  <2>5. ASSUME NEW status \in {"ok", "error"},
               Report(status, call.rows, call.count),
               status = "ok" => binder = <<>>, status = "error" => binder # <<>>
        PROVE  ReportInv'
    <3>1. status = "ok" => Len(call.rows) = Len(call.due)
      BY <2>2, <2>5, SMT
    <3>2. status = "error" => Len(call.rows) < Len(call.due)
      BY <2>1, <2>2, <2>5, SMT
    <3> HIDE DEF ReportInv
    <3> QED
      BY <2>1, <2>2, <2>4, <2>5, <3>1, <3>2, ReportsTruly
  <2>6. CASE /\ t.status # "ok"
             /\ Report(IF t.status = "finished" THEN "ok" ELSE "error", call.rows, call.count)
    <3>1. CASE t.status = "finished"
      BY <2>3, <2>5, <2>6, <3>1
    <3>2. CASE t.status # "finished"
      BY <2>3, <2>5, <2>6, <3>2
    <3> QED
      BY <3>1, <3>2
  <2>7. CASE t.status = "ok" /\ Report("error", call.rows, call.count)
    BY <2>3, <2>5, <2>7
  <2>8. CASE /\ t.status = "ok"
             /\ call' = [call EXCEPT !.rows = Append(@, t.vm.bound), !.count = @ + 1]
             /\ binder' = t.binder /\ said' = said
    <3> DEFINE ran == Append(call.rows, Converted(Head(binder)))
    <3>1. /\ call' = [call EXCEPT !.rows = ran, !.count = call.count + 1]
          /\ binder' = Tail(binder) /\ binder # <<>>
      BY <2>3, <2>8
    <3>2. /\ ran \in Seq(RowValues) /\ IsPrefixOf(ran, ConvertedRows(call.due))
          /\ Len(ran) = call.count + 1 /\ call.count + 1 \in Nat
          /\ Len(ran) + Len(Tail(binder)) = Len(call.due)
      <4>1. call.count + 1 \in Nat /\ call.count = Len(call.rows)
        BY <2>2, SMT
      <4>2. /\ ran \in Seq(RowValues) /\ Len(ran) = Len(call.rows) + 1
            /\ IsPrefixOf(ran, ConvertedRows(call.due))
            /\ Len(ran) + Len(Tail(binder)) = Len(call.due)
        BY <2>1, <2>2, <3>1, TakesNext
      <4> HIDE DEF ran
      <4> QED
        BY <4>1, <4>2
    <3> HIDE DEF ran, ReportInv
    <3> QED
      BY <2>1, <2>4, <2>8, <3>1, <3>2, TurnKeeps
  <2> QED
    BY <1>3, <2>6, <2>7, <2>8 DEF IngestTurn, t
<1> QED
  BY <1>1, <1>2, <1>3

LEMMA ReportStep == ReportInv /\ [Next]_vars => ReportInv'
<1> SUFFICES ASSUME ReportInv, [Next]_vars PROVE ReportInv'
  OBVIOUS
<1>1. CASE Next
  BY <1>1, ReportOptions, ReportPrepare, ReportExecute, ReportLoops, ReportStreams,
     ReportUpdate, ReportIngest DEF Next
<1>2. CASE UNCHANGED vars
  BY <1>2, SMT DEF vars, ReportInv, Types, Prepared, Given, Attached, Loops, Progress,
     ReportIsTrue, EndsWith, IsPrefixOf
<1> QED
  BY <1>1, <1>2

\* Updates and bulk ingestion report success only when every row of their
\* parameters was executed, as BindNext converts it, and an error only when one was
\* not or there was none, with the number of rows inserted or, for a successful
\* update, of result rows, whatever fails and however callers interleave streams.
THEOREM ReportsAreTrue == Spec => []ReportIsTrue
<1>1. ReportInv => ReportIsTrue
  BY DEF ReportInv
<1> QED
  BY ReportInit, ReportStep, <1>1, PTL DEF Spec

-----------------------------------------------------------------------------
(* The handles.                                                            *)

LEMMA HandleInit == Init => HandleInv
<1> SUFFICES ASSUME Init PROVE HandleInv
  OBVIOUS
<1>1. ReportInv
  BY ReportInit
<1>2. call.op = "none" /\ \A r \in Readers : readers[r] = NoReader
  BY DEF Init, NoCall
<1>3. Alone /\ Reading
  BY <1>2 DEF Alone, Reading
<1>4. Streams
  <2>1. \A r \in Readers :
          ~readers[r].binder /\ ~readers[r].dead /\ readers[r].ended = "no"
    <3>1. ~NoReader.binder /\ ~NoReader.dead /\ NoReader.ended = "no"
      BY DEF NoReader
    <3> QED
      BY <1>2, <3>1
  <2> QED
    BY <1>2, <2>1 DEF Streams
<1> QED
  BY <1>1, <1>3, <1>4 DEF HandleInv, Init

\* A step without a loop that leaves the streams alone, and their binder too if
\* one may still use it.
LEMMA HandleIdle ==
  ASSUME HandleInv, ReportInv', call' = NoCall, readers' = readers, fault' = fault,
         binder' = binder \/ \A r \in Readers : readers[r].binder => readers[r].done
  PROVE  HandleInv'
<1>1. call'.op = "none"
  BY DEF NoCall
<1>2. Alone' /\ Reading'
  BY <1>1 DEF Alone, Reading
<1>3. Streams'
  BY <1>1 DEF HandleInv, Streams
<1> QED
  BY <1>2, <1>3 DEF HandleInv

\* When nothing is being read every stream is done with its parameters.
LEMMA QuietIsDone ==
  ASSUME HandleInv, Quiet, NEW r \in Readers
  PROVE  /\ readers[r].open => readers[r].done
         /\ readers[r].binder => readers[r].done
<1>1. readers[r].open => readers[r].done
  BY DEF HandleInv, Streams, Quiet
<1>2. ~readers[r].open => ~readers[r].binder
  BY SMT DEF HandleInv, Streams, NoReader
<1> QED
  BY <1>1, <1>2

LEMMA HandleOptions ==
  ASSUME HandleInv, ReportInv',
         \/ StatementNew \/ StatementRelease \/ SetTargetTable
         \/ \E q \in Queries : SetSqlQuery(q)
         \/ \E append \in BOOLEAN : SetMode(append)
         \/ \E n \in BatchSizes : SetBatchRows(n)
         \/ \E ps \in Bindings : Bind(ps)
         \/ BindFails
         \/ IngestRefused
  PROVE  HandleInv'
<1>1. call' = NoCall /\ readers' = readers /\ fault' = fault
  <2>1. Idle => call = NoCall
    BY DEF Idle
  <2> QED
    BY <2>1 DEF StatementNew, StatementRelease, SetTargetTable, SetSqlQuery, SetMode,
       SetBatchRows, SetOption, Bind, BindFails, IngestRefused, IngestGuard
<1>2. \/ binder' = binder
      \/ \A r \in Readers : ~readers[r].binder
      \/ \A r \in Readers : ~readers[r].open
      \/ Quiet
  BY DEF StatementNew, StatementRelease, SetTargetTable, SetSqlQuery, SetMode, SetBatchRows,
         SetOption, Bind, BindFails, IngestRefused, IngestGuard
<1>3. (\A r \in Readers : ~readers[r].open) => Quiet
  BY DEF Quiet
<1>4. binder' = binder \/ \A r \in Readers : readers[r].binder => readers[r].done
  BY <1>2, <1>3, QuietIsDone
<1> QED
  BY <1>1, <1>4, HandleIdle

\* A statement is prepared while nothing is being read: only streams that are
\* done lose their sqlite3_stmt.
LEMMA HandlePrepared ==
  ASSUME HandleInv, Quiet, PrepareFails \/ PrepareSucceeds, binder' = binder
  PROVE  /\ Quiet'
         /\ \A r \in Readers : readers'[r].open \/ readers'[r] = NoReader
         /\ \A r \in Readers :
              /\ readers'[r].ended # "no" \/ readers'[r].dead => readers'[r].done
              /\ readers'[r].binder /\ ~readers'[r].done => binder' \notin {None, Half}
              /\ readers'[r].binder = readers[r].binder
<1> SUFFICES ASSUME NEW r \in Readers
             PROVE  /\ readers'[r].open => readers'[r].ended # "no"
                    /\ readers'[r].open \/ readers'[r] = NoReader
                    /\ readers'[r].ended # "no" \/ readers'[r].dead => readers'[r].done
                    /\ readers'[r].binder /\ ~readers'[r].done => binder' \notin {None, Half}
                    /\ readers'[r].binder = readers[r].binder
  BY DEF Quiet
<1>1. readers[r] \in ReaderType
  BY DEF HandleInv, ReportInv, Types
<1>2. /\ readers[r].open => readers[r].ended # "no"
      /\ readers[r].open \/ readers[r] = NoReader
      /\ readers[r].ended # "no" \/ readers[r].dead => readers[r].done
      /\ readers[r].binder /\ ~readers[r].done => binder \notin {None, Half}
      /\ readers[r].open => readers[r].done
  BY QuietIsDone DEF HandleInv, Streams, Quiet
<1>3. CASE readers'[r] = readers[r]
  BY <1>2, <1>3
<1>4. CASE readers'[r] # readers[r]
  <2>1. readers' = Finalized
    BY <1>4 DEF PrepareFails, PrepareSucceeds
  <2>2. readers[r].open /\ readers'[r] = [readers[r] EXCEPT !.dead = TRUE]
    BY <1>4, <2>1 DEF Finalized
  <2>3. /\ readers'[r].open /\ readers'[r].ended = readers[r].ended
        /\ readers'[r].done = readers[r].done /\ readers'[r].binder = readers[r].binder
    BY <1>1, <2>2, SMT DEF ReaderType
  <2> QED
    BY <1>2, <2>2, <2>3
<1> QED
  BY <1>3, <1>4

LEMMA HandleExecute ==
  ASSUME HandleInv, ReportInv',
         Prepare \/ ExecuteFails \/ ExecuteUpdate \/ \E r \in Readers : ExecuteQuery(r)
  PROVE  HandleInv'
<1>1. /\ Quiet /\ (PrepareFails \/ PrepareSucceeds) /\ binder' = binder /\ fault' = fault
      /\ \/ call' = NoCall
         \/ /\ call'.op \in {"export", "update"} /\ call'.bound = (binder # None)
            /\ \E c : ExecuteStart(c)
  <2>1. CASE Prepare
    BY <2>1 DEF Prepare, Idle
  <2>2. CASE ExecuteFails
    BY <2>2 DEF ExecuteFails, ExecuteGuard, Idle
  <2>3. CASE ExecuteUpdate
    BY <2>3 DEF ExecuteUpdate, ExecuteStart, ExecuteGuard
  <2>4. CASE \E r \in Readers : ExecuteQuery(r)
    BY <2>4, SMT DEF ExecuteQuery, ExecuteStart, ExecuteGuard
  <2> QED
    BY <2>1, <2>2, <2>3, <2>4
<1>2. /\ Quiet'
      /\ \A r \in Readers : readers'[r].open \/ readers'[r] = NoReader
      /\ \A r \in Readers :
           /\ readers'[r].ended # "no" \/ readers'[r].dead => readers'[r].done
           /\ readers'[r].binder /\ ~readers'[r].done => binder' \notin {None, Half}
           /\ readers'[r].binder = readers[r].binder
  BY <1>1, HandlePrepared
<1>3. ASSUME call'.op = "export", call'.bound
      PROVE  \A r \in Readers : ~readers'[r].binder
  <2>0. call' # NoCall
    BY <1>3, SMT DEF NoCall
  <2>1. PICK c : ExecuteStart(c)
    BY <1>1, <2>0
  <2>2. binder # None
    BY <1>1, <1>3, <2>0
  <2>3. given \in Seq(Params)
    BY <2>1, <2>2, StartsBound DEF HandleInv
  <2>4. given # None
    BY <2>3, NoneIsNoSeq
  <2> QED
    BY <1>2, <2>4 DEF HandleInv, ReportInv, Given
<1>4. Alone'
  BY <1>2 DEF Alone
<1>5. Reading'
  BY <1>1, SMT DEF Reading, NoCall
<1>6. \A r, s \in Readers : readers'[r].binder /\ readers'[s].binder => r = s
  BY <1>2 DEF HandleInv, Streams
<1>7. Streams'
  BY <1>2, <1>3, <1>6 DEF Streams
<1> QED
  BY <1>1, <1>4, <1>5, <1>7 DEF HandleInv

\* The loop of an export or of a stream ends: it is done unless its batch is
\* full, and then the binder is still there.
LEMMA HandleLeave ==
  ASSUME HandleInv, ReportInv', call.op \in {"export", "next"},
         NEW done \in BOOLEAN, NEW status \in {"ok", "error"}, NEW v, NEW b,
         LeaveLoop(done, status, v, b),
         ~call.bound => b = binder,
         ~done => status = "ok" /\ call.rows # <<>> /\ b = binder
  PROVE  HandleInv'
<1> DEFINE r == call.reader
<1>1. /\ call' = NoCall /\ call'.op = "none" /\ binder' = b /\ fault' = fault
  BY DEF LeaveLoop, NoCall
<1>2. /\ r \in Readers /\ readers \in [Readers -> ReaderType] /\ readers[r] \in ReaderType
      /\ call.bound => binder \notin {None, Half}
  BY DEF HandleInv, ReportInv, Loops, Types
<1>3. Alone' /\ Reading'
  BY <1>1 DEF Alone, Reading
<1>4. /\ \A s \in Readers : readers[s].open \/ readers[s] = NoReader
      /\ \A s \in Readers : readers[s].ended # "no" \/ readers[s].dead => readers[s].done
      /\ \A s \in Readers : readers[s].binder /\ ~readers[s].done => binder \notin {None, Half}
      /\ \A s, q \in Readers : readers[s].binder /\ readers[q].binder => s = q
      /\ call.op = "export" /\ call.bound => \A s \in Readers : ~readers[s].binder
  BY DEF HandleInv, Streams
<1>5. CASE call.op = "next"
  <2> DEFINE ended == IF status = "error" THEN "error"
                      ELSE IF call.rows = <<>> THEN "end" ELSE "no"
  <2> DEFINE e == IF readers[r].ended = "no" THEN ended ELSE readers[r].ended
  <2> DEFINE g == IF status = "ok" THEN readers[r].got \o call.rows ELSE readers[r].got
  <2>1. readers' = [readers EXCEPT ![r].done = done, ![r].ended = e, ![r].got = g]
    BY <1>5 DEF LeaveLoop
  <2>2. /\ readers[r].open /\ ~readers[r].dead /\ ~readers[r].done
        /\ call.bound = readers[r].binder
    BY <1>5 DEF HandleInv, Reading
  <2>3. readers[r].ended = "no"
    BY <1>2, <1>4, <2>2
  <2>4. ~done => e = "no"
    BY <2>3
  <2> HIDE DEF e, g, r
  <2>5. readers'[r] = [readers[r] EXCEPT !.done = done, !.ended = e, !.got = g]
    BY <1>2, <2>1
  <2>6. /\ readers'[r].open /\ ~readers'[r].dead /\ readers'[r].done = done
        /\ readers'[r].ended = e /\ readers'[r].binder = readers[r].binder
    BY <1>2, <2>2, <2>5 DEF ReaderType
  <2>7. \A s \in Readers : s # r => readers'[s] = readers[s]
    BY <1>2, <2>1
  <2>8. \A s \in Readers : readers'[s].binder = readers[s].binder
    BY <2>6, <2>7
  <2>9. \A s \in Readers : readers'[s].open \/ readers'[s] = NoReader
    BY <1>4, <2>6, <2>7
  <2>10. \A s \in Readers : readers'[s].ended # "no" \/ readers'[s].dead => readers'[s].done
    BY <1>4, <2>4, <2>6, <2>7
  <2>11. ASSUME NEW s \in Readers, readers'[s].binder, ~readers'[s].done
         PROVE  binder' \notin {None, Half}
    <3>1. CASE s = r
      BY <1>1, <1>2, <2>2, <2>6, <2>11, <3>1
    <3>2. CASE s # r
      <4>1. ~readers[r].binder
        BY <1>2, <1>4, <2>8, <2>11, <3>2
      <4> QED
        BY <1>1, <1>4, <2>2, <2>7, <2>11, <3>2, <4>1
    <3> QED
      BY <3>1, <3>2
  <2>12. Streams'
    BY <1>1, <1>4, <2>8, <2>9, <2>10, <2>11 DEF Streams
  <2> QED
    BY <1>1, <1>3, <2>12 DEF HandleInv
<1>6. CASE call.op = "export" /\ status = "error"
  <2>1. readers' = readers /\ done
    BY <1>6 DEF LeaveLoop
  <2>2. ASSUME NEW s \in Readers, readers[s].binder, ~readers[s].done
        PROVE  binder' \notin {None, Half}
    BY <1>1, <1>4, <1>6, <2>2
  <2>3. Streams'
    BY <1>1, <1>4, <2>1, <2>2 DEF Streams
  <2> QED
    BY <1>1, <1>3, <2>3 DEF HandleInv
<1>7. CASE call.op = "export" /\ status = "ok"
  <2> DEFINE new == [open |-> TRUE, dead |-> FALSE, binder |-> call.bound,
                     batch |-> call.rows, done |-> done, size |-> call.size,
                     got |-> <<>>, due |-> call.due, ended |-> "no"]
  <2>1. readers' = [readers EXCEPT ![r] = new]
    BY <1>7 DEF LeaveLoop
  <2>2. /\ new.open /\ ~new.dead /\ new.binder = call.bound /\ new.done = done
        /\ new.ended = "no"
    OBVIOUS
  <2> HIDE DEF new, r
  <2>3. readers'[r] = new /\ \A s \in Readers : s # r => readers'[s] = readers[s]
    BY <1>2, <2>1
  <2>4. /\ \A s \in Readers : readers'[s].open \/ readers'[s] = NoReader
        /\ \A s \in Readers : readers'[s].ended # "no" \/ readers'[s].dead => readers'[s].done
    BY <1>4, <2>2, <2>3
  <2>5. ASSUME NEW s \in Readers, readers'[s].binder, ~readers'[s].done
        PROVE  binder' \notin {None, Half}
    <3>1. CASE s = r
      BY <1>1, <1>2, <2>2, <2>3, <2>5, <3>1
    <3>2. CASE s # r
      BY <1>1, <1>4, <1>7, <2>3, <2>5, <3>2
    <3> QED
      BY <3>1, <3>2
  <2>6. ASSUME NEW s \in Readers, NEW q \in Readers, readers'[s].binder, readers'[q].binder
        PROVE  s = q
    BY <1>4, <1>7, <2>2, <2>3, <2>6
  <2>7. Streams'
    BY <1>1, <2>4, <2>5, <2>6 DEF Streams
  <2> QED
    BY <1>1, <1>3, <2>7 DEF HandleInv
<1> QED
  BY <1>5, <1>6, <1>7

LEMMA HandleLoops ==
  ASSUME HandleInv, ReportInv', "value" \notin Faults,
         \/ ReaderFull \/ ReaderBindEnds \/ ReaderBindFails
         \/ ReaderDone \/ ReaderStepFails \/ ReaderRow
  PROVE  HandleInv'
<1>1. call.op \in {"export", "next"}
  BY DEF ReaderFull, ReaderBindEnds, ReaderBindFails, ReaderDone, ReaderStepFails, ReaderRow,
         Looping
<1>2. call \in CallType /\ Types /\ Prepared /\ Loops
  BY DEF HandleInv, ReportInv, Types
<1>3. ~call.bound => Turn.binder = binder
  BY <1>1, <1>2, TurnType
<1>4. CASE ReaderFull
  <2>1. call.rows # <<>> /\ LeaveLoop(FALSE, "ok", vm, binder)
    BY <1>2, <1>4 DEF ReaderFull, CallType
  <2> QED
    BY <1>1, <2>1, HandleLeave
<1>5. CASE ReaderBindEnds
  BY <1>1, <1>3, <1>5, HandleLeave DEF ReaderBindEnds
<1>6. CASE ReaderBindFails
  <2>1. PICK status \in {"ok", "error"} : LeaveLoop(TRUE, status, Turn.vm, Turn.binder)
    BY <1>6 DEF ReaderBindFails
  <2> QED
    BY <1>1, <1>3, <2>1, HandleLeave
<1>7. CASE ReaderDone
  <2>1. PICK s \in Steps(Turn.vm) : LeaveLoop(TRUE, "ok", s.vm, Turn.binder)
    BY <1>7 DEF ReaderDone
  <2> QED
    BY <1>1, <1>3, <2>1, HandleLeave
<1>8. CASE ReaderStepFails
  <2>1. PICK s \in Steps(Turn.vm) :
          s.rc \in {"error", "value"} /\ LeaveLoop(s.rc = "error", "error", s.vm, Turn.binder)
    BY <1>8 DEF ReaderStepFails
  <2>2. s.rc = "error"
    BY <2>1, StepsCases
  <2>3. LeaveLoop(TRUE, "error", s.vm, Turn.binder)
    BY <2>1, <2>2
  <2> QED
    BY <1>1, <1>3, <2>3, HandleLeave
<1>9. CASE ReaderRow
  <2>1. /\ readers' = readers /\ fault' = fault /\ binder' = Turn.binder
        /\ Turn.status = "ok"
        /\ call'.op = call.op /\ call'.bound = call.bound /\ call'.reader = call.reader
        /\ call'.size = call.size
    BY <1>2, <1>9 DEF ReaderRow, CallType
  <2>2. binder \notin {None, Half} => binder' \notin {None, Half}
    BY <1>1, <1>2, <1>3, <2>1, TurnType, NoneIsNoSeq
  <2>3. Alone'
    BY <2>1 DEF HandleInv, Alone, Quiet
  <2>4. Reading'
    BY <2>1 DEF HandleInv, Reading
  <2>5. Streams'
    BY <2>1, <2>2 DEF HandleInv, Streams
  <2> QED
    BY <2>1, <2>3, <2>4, <2>5 DEF HandleInv
<1> QED
  BY <1>4, <1>5, <1>6, <1>7, <1>8, <1>9

LEMMA HandleStreams ==
  ASSUME HandleInv, ReportInv', NEW r \in Readers,
         NextInitial(r) \/ NextEnd(r) \/ NextLoop(r) \/ ReleaseReader(r)
  PROVE  HandleInv'
<1>1. readers \in [Readers -> ReaderType] /\ readers[r] \in ReaderType
  BY DEF HandleInv, ReportInv, Types
<1>2. /\ \A s \in Readers : readers[s].open \/ readers[s] = NoReader
      /\ \A s \in Readers : readers[s].ended # "no" \/ readers[s].dead => readers[s].done
      /\ \A s \in Readers : readers[s].binder /\ ~readers[s].done => binder \notin {None, Half}
      /\ \A s, q \in Readers : readers[s].binder /\ readers[q].binder => s = q
  BY DEF HandleInv, Streams
<1>3. ASSUME \A s \in Readers : s # r => readers'[s] = readers[s],
             \/ readers'[r] = NoReader
             \/ /\ readers'[r].open /\ readers'[r].binder = readers[r].binder
                /\ readers'[r].done = readers[r].done /\ readers'[r].dead = readers[r].dead
                /\ readers'[r].ended = readers[r].ended \/ readers[r].done,
             call' = NoCall, fault' = fault,
             binder' = binder \/ (readers[r].binder /\ readers'[r] = NoReader)
      PROVE  HandleInv'
  <2>1. ~NoReader.binder /\ ~NoReader.dead /\ NoReader.ended = "no"
    BY DEF NoReader
  <2>2. call'.op = "none"
    BY <1>3 DEF NoCall
  <2>3. Alone' /\ Reading'
    BY <2>2 DEF Alone, Reading
  <2>4. ASSUME NEW s \in Readers
        PROVE  /\ readers'[s].open \/ readers'[s] = NoReader
               /\ readers'[s].ended # "no" \/ readers'[s].dead => readers'[s].done
               /\ readers'[s].binder => readers[s].binder
               /\ readers'[s].binder /\ ~readers'[s].done => binder' \notin {None, Half}
    <3>1. CASE s = r
      BY <1>2, <1>3, <2>1, <3>1
    <3>2. CASE s # r
      BY <1>2, <1>3, <3>2
    <3> QED
      BY <3>1, <3>2
  <2>5. Streams'
    BY <1>2, <2>2, <2>4 DEF Streams
  <2> QED
    BY <1>3, <2>3, <2>5 DEF HandleInv
<1>4. CASE NextInitial(r)
  <2>1. readers'[r] = [readers[r] EXCEPT !.got = @ \o readers[r].batch, !.batch = None]
    BY <1>1, <1>4 DEF NextInitial
  <2>2. /\ readers'[r].open /\ readers'[r].binder = readers[r].binder
        /\ readers'[r].done = readers[r].done /\ readers'[r].dead = readers[r].dead
        /\ readers'[r].ended = readers[r].ended
    BY <1>1, <1>4, <2>1 DEF NextInitial, ReaderType
  <2>3. /\ \A s \in Readers : s # r => readers'[s] = readers[s]
        /\ call' = NoCall /\ fault' = fault /\ binder' = binder
    BY <1>1, <1>4 DEF NextInitial, Idle
  <2> QED
    BY <1>3, <2>2, <2>3
<1>5. CASE NextEnd(r)
  <2>1. readers'[r] = [readers[r] EXCEPT !.ended = IF @ = "no" THEN "end" ELSE @]
    BY <1>1, <1>5 DEF NextEnd
  <2>2. /\ readers'[r].open /\ readers'[r].binder = readers[r].binder
        /\ readers'[r].done = readers[r].done /\ readers'[r].dead = readers[r].dead
        /\ readers[r].done
    BY <1>1, <1>5, <2>1 DEF NextEnd, ReaderType
  <2>3. /\ \A s \in Readers : s # r => readers'[s] = readers[s]
        /\ call' = NoCall /\ fault' = fault /\ binder' = binder
    BY <1>1, <1>5 DEF NextEnd, Idle
  <2> QED
    BY <1>3, <2>2, <2>3
<1>6. CASE ReleaseReader(r)
  <2>1. /\ readers'[r] = NoReader /\ \A s \in Readers : s # r => readers'[s] = readers[s]
        /\ call' = NoCall /\ fault' = fault
        /\ binder' = binder \/ readers[r].binder
    BY <1>1, <1>6 DEF ReleaseReader, Idle
  <2> QED
    BY <1>3, <2>1
<1>7. CASE NextLoop(r)
  <2>1. /\ readers[r].open /\ ~readers[r].done /\ readers[r].batch = None
        /\ readers' = readers /\ binder' = binder
    BY <1>7 DEF NextLoop
  <2>2. ~(readers[r].dead \/ (readers[r].binder /\ binder \in {None, Half}))
    BY <1>2, <2>1
  <2> DEFINE c == [op |-> "next", reader |-> r, rows |-> <<>>, due |-> <<>>,
                   bound |-> readers[r].binder, size |-> readers[r].size, count |-> 0]
  <2>3. call' = c /\ ~fault'
    <3>1. call' = c
      BY <1>7, <2>2 DEF NextLoop
    <3>2. ~fault'
      BY <1>7, <2>2 DEF NextLoop, HandleInv
    <3> QED
      BY <3>1, <3>2
  <2>4. /\ c.op = "next" /\ c.reader = r /\ c.bound = readers[r].binder
        /\ c.size = readers[r].size
    OBVIOUS
  <2> HIDE DEF c
  <2>5. Alone' /\ Reading'
    BY <2>1, <2>2, <2>3, <2>4 DEF Alone, Reading
  <2>6. Streams'
    BY <1>2, <2>1, <2>3, <2>4 DEF Streams
  <2> QED
    BY <2>3, <2>5, <2>6 DEF HandleInv
<1> QED
  BY <1>4, <1>5, <1>6, <1>7

\* A turn of the loop of an update, or of an ingestion, ends the call or goes on
\* with it.
LEMMA TurnsShape ==
  ASSUME call \in CallType
  PROVE  /\ UpdateTurn => vm'.at = 0 /\ call'.op \in {"none", call.op}
         /\ IngestTurn => call'.op \in {"none", call.op}
<1>0. /\ NoCall.op = "none"
      /\ \A rows, n : [call EXCEPT !.rows = rows, !.count = n].op = call.op
  BY DEF NoCall, CallType
<1>1. ASSUME NEW status, NEW ran, NEW rows, NEW v, UpdateEnds(status, ran, rows, v)
      PROVE  vm'.at = 0 /\ call'.op = "none"
  BY <1>0, <1>1 DEF UpdateEnds, Report, Reset
<1>2. ASSUME UpdateTurn
      PROVE  vm'.at = 0 /\ call'.op \in {"none", call.op}
  <2>1. CASE Turn.status # "ok"
    BY <1>1, <1>2, <2>1 DEF UpdateTurn
  <2>2. CASE Turn.status = "ok"
    <3> DEFINE V(failed) == [query |-> Turn.vm.query, at |-> 0, bound |-> Turn.vm.bound,
                             failed |-> failed]
               ran(failed) == IF failed THEN call.rows ELSE Append(call.rows, V(failed).bound)
    <3>1. PICK failed \in MayFail, n \in 0..Size[vm.query] :
            IF call.bound
            THEN /\ call' = [call EXCEPT !.rows = ran(failed), !.count = @ + n]
                 /\ vm' = V(failed)
            ELSE UpdateEnds("ok", ran(failed), call.count + n, V(failed))
      BY <1>2, <2>2 DEF UpdateTurn
    <3>2. V(failed).at = 0
      OBVIOUS
    <3> HIDE DEF V, ran
    <3>3. CASE call.bound
      BY <1>0, <3>1, <3>2, <3>3
    <3>4. CASE ~call.bound
      BY <1>1, <3>1, <3>4
    <3> QED
      BY <3>3, <3>4
  <2> QED
    BY <2>1, <2>2
<1>3. ASSUME IngestTurn
      PROVE  call'.op \in {"none", call.op}
  <2> DEFINE t == BindNext(binder, NoVm)
  <2> DEFINE c == [call EXCEPT !.rows = Append(@, t.vm.bound), !.count = @ + 1]
  <2>1. call' = NoCall \/ call' = c
    BY <1>3 DEF IngestTurn, Report
  <2>2. c.op = call.op
    BY <1>0
  <2> HIDE DEF c
  <2> QED
    BY <1>0, <2>1, <2>2
<1> QED
  BY <1>2, <1>3

\* Updates and ingestion use the binder while nothing is being read.
LEMMA HandleUpdates ==
  ASSUME HandleInv, ReportInv', UpdateTurn \/ IngestStart \/ IngestTurn
  PROVE  HandleInv'
<1>1. readers' = readers /\ fault' = fault /\ Quiet
  BY DEF HandleInv, Alone, UpdateTurn, IngestStart, IngestGuard, IngestTurn
<1>2. call \in CallType
  BY DEF HandleInv, ReportInv, Types
<1>3. call'.op \in {"none", "update", "ingest"}
  <2>2. CASE UpdateTurn
    <3>1. call'.op \in {"none", call.op}
      BY <1>2, <2>2, TurnsShape
    <3> QED
      BY <2>2, <3>1 DEF UpdateTurn
  <2>3. CASE IngestStart
    BY <2>3 DEF IngestStart
  <2>4. CASE IngestTurn
    <3>1. call'.op \in {"none", call.op}
      BY <1>2, <2>4, TurnsShape
    <3> QED
      BY <2>4, <3>1 DEF IngestTurn
  <2> QED
    BY <2>2, <2>3, <2>4
<1>4. Alone' /\ Reading'
  BY <1>1, <1>3 DEF Alone, Reading, Quiet
<1>5. \A r \in Readers : readers[r].binder => readers[r].done
  BY <1>1, QuietIsDone
<1>6. Streams'
  BY <1>1, <1>3, <1>5 DEF HandleInv, Streams
<1> QED
  BY <1>1, <1>4, <1>6 DEF HandleInv

LEMMA HandleStep ==
  ASSUME "value" \notin Faults
  PROVE  HandleInv /\ [Next]_vars => HandleInv'
<1> SUFFICES ASSUME HandleInv, [Next]_vars PROVE HandleInv'
  OBVIOUS
<1>1. ReportInv'
  BY ReportStep DEF HandleInv
<1>2. CASE Next
  BY <1>1, <1>2, HandleOptions, HandleExecute, HandleLoops, HandleStreams, HandleUpdates DEF Next
<1>3. CASE UNCHANGED vars
  BY <1>1, <1>3 DEF vars, HandleInv, Alone, Quiet, Reading, Streams
<1> QED
  BY <1>2, <1>3

\* If every value fits its column, StatementReaderGetNext never steps a
\* sqlite3_stmt that was finalized and never binds from a binder that was
\* released, for any number of streams, whatever else fails and whether or not
\* streams are abandoned.
THEOREM StreamsAreSafe ==
  ASSUME "value" \notin Faults
  PROVE  Spec => []NoFault
<1>1. HandleInv => NoFault
  BY DEF HandleInv, NoFault
<1>2. HandleInv /\ [Next]_vars => HandleInv'
  BY HandleStep
<1> QED
  BY HandleInit, <1>1, <1>2, PTL DEF Spec

-----------------------------------------------------------------------------
(* Results.                                                                *)

LEMMA DivOne ==
  ASSUME NEW j \in Nat
  PROVE  (j \div 1) = j /\ (j % 1) = 0
BY Z3

LEMMA DivSmall ==
  ASSUME NEW n \in Nat, n > 0, NEW j \in 0..(n - 1)
  PROVE  (j \div n) = 0 /\ (j % n) = j
BY Z3

LEMMA TimesOne ==
  ASSUME NEW n \in Nat
  PROVE  1 * n = n /\ n * 1 = n
BY Z3

\* The result of a query without parameters.
LEMMA DueUnbound ==
  ASSUME NEW q \in Queries
  PROVE  /\ Len(Due(q, <<None>>)) = Size[q]
         /\ \A i \in 1..Size[q] : Due(q, <<None>>)[i] = <<q, None, i>>
<1> DEFINE n == Size[q]
<1>1. n \in Nat
  BY StatementAssumption
<1>2. Len(<<None>>) * n = n
  BY <1>1, TimesOne
<1>3. Due(q, <<None>>) =
        [k \in 1..n |-> <<q, Converted(<<None>>[1 + ((k - 1) \div n)]), 1 + ((k - 1) % n)>>]
  BY <1>2 DEF Due
<1> HIDE DEF n
<1>4. Len(Due(q, <<None>>)) = n
  BY <1>1, <1>3, SMT
<1>5. ASSUME NEW i \in 1..n
      PROVE  Due(q, <<None>>)[i] = <<q, None, i>>
  <2>1. n > 0 /\ i - 1 \in 0..(n - 1)
    BY <1>1, SMT
  <2>2. ((i - 1) \div n) = 0 /\ ((i - 1) % n) = i - 1
    BY <1>1, <2>1, DivSmall
  <2>3. 1 + ((i - 1) \div n) = 1 /\ 1 + ((i - 1) % n) = i
    BY <2>2, SMT
  <2>4. Due(q, <<None>>)[i] = <<q, Converted(<<None>>[1 + ((i - 1) \div n)]), 1 + ((i - 1) % n)>>
    BY <1>3
  <2>5. <<None>>[1] = None
    BY SMT
  <2> QED
    BY <2>3, <2>4, <2>5, ConvertedType
<1> QED
  BY <1>4, <1>5 DEF n

\* The result of a query with parameters, if the loops can deliver it.
LEMMA DueBound ==
  ASSUME NEW q \in Queries, NEW ps \in Seq(Params), Regular(Due(q, ps))
  PROVE  \/ Size[q] = 0 /\ Due(q, ps) = <<>>
         \/ /\ Size[q] # 0 /\ Len(Due(q, ps)) = Len(ps)
            /\ \A i \in 1..Len(ps) : Due(q, ps)[i] = <<q, Converted(ps[i]), 1>>
<1> DEFINE n == Size[q]
<1> DEFINE m == Len(ps)
<1> DEFINE due == Due(q, ps)
<1>1. n \in Nat /\ m \in Nat /\ m * n \in Nat
  BY StatementAssumption, TimesNat, SMT
<1>2. due = [k \in 1..(m * n) |-> <<q, Converted(ps[1 + ((k - 1) \div n)]), 1 + ((k - 1) % n)>>]
  BY DEF Due
<1> HIDE DEF n, m, due
<1>3. CASE n = 0
  <2>1. m * n = 0
    BY <1>1, <1>3, TimesNat
  <2>2. due = <<>>
    BY <1>2, <2>1, SMT
  <2> QED
    BY <1>3, <2>2 DEF n, due
<1>4. CASE n # 0 /\ m = 0
  <2>1. m * n = 0
    BY <1>1, <1>4, OnceMore
  <2>2. due = <<>>
    BY <1>2, <2>1, SMT
  <2> QED
    BY <1>4, <2>2, SMT DEF n, m, due
<1>5. CASE n # 0 /\ m # 0
  <2>1. n = 1
    <3>1. 1 \in 1..(m * n)
      BY <1>1, <1>5, Z3
    <3>2. ((1 - 1) \div n) = 0
      BY <1>1, <1>5, DivSmall, SMT
    <3>3. due[1] = <<q, Converted(ps[1]), 1 + ((1 - 1) % n)>>
      BY <1>2, <3>1, <3>2, SMT
    <3>4. ps[1] \in Params
      BY <1>1, <1>5, SMT DEF m
    <3>5. Converted(ps[1]) # None
      BY <3>4, ConvertedType, StatementAssumption
    <3>6. 1 \in DOMAIN due /\ due[1][1] = q /\ due[1][2] = Converted(ps[1])
      BY <1>2, <3>1, <3>3
    <3> QED
      BY <3>5, <3>6 DEF Regular, due, n
  <2>2. m * n = m
    BY <1>1, <2>1, TimesOne
  <2>3. Len(due) = m
    BY <1>1, <1>2, <2>2, SMT
  <2>4. ASSUME NEW i \in 1..m
        PROVE  due[i] = <<q, Converted(ps[i]), 1>>
    <3>1. i - 1 \in Nat
      BY <1>1, SMT
    <3>2. ((i - 1) \div 1) = i - 1 /\ ((i - 1) % 1) = 0
      BY <3>1, DivOne
    <3>3. due[i] = <<q, Converted(ps[1 + ((i - 1) \div 1)]), 1 + ((i - 1) % 1)>>
      BY <1>2, <2>1, <2>2
    <3>4. 1 + ((i - 1) \div 1) = i /\ 1 + ((i - 1) % 1) = 1
      BY <1>1, <3>2, SMT
    <3> QED
      BY <3>3, <3>4
  <2> QED
    BY <1>5, <2>3, <2>4 DEF n, m, due
<1> QED
  BY <1>3, <1>4, <1>5

\* One more row of the result.
LEMMA ContinuesRow ==
  ASSUME LoopGot \in Seq(RowValues), call.rows \in Seq(RowValues), LoopDue \in Seq(RowValues),
         NEW x \in RowValues, Continues(LoopGot, call.rows, LoopDue),
         Len(LoopGot) + Len(call.rows) < Len(LoopDue),
         x = LoopDue[Len(LoopGot) + Len(call.rows) + 1]
  PROVE  /\ Continues(LoopGot, Append(call.rows, x), LoopDue)
         /\ Len(Append(call.rows, x)) = Len(call.rows) + 1
<1> DEFINE got == LoopGot
<1> DEFINE rows == call.rows
<1> DEFINE due == LoopDue
<1>0. /\ got \in Seq(RowValues) /\ rows \in Seq(RowValues) /\ due \in Seq(RowValues)
      /\ Continues(got, rows, due) /\ Len(got) + Len(rows) < Len(due)
      /\ x = due[Len(got) + Len(rows) + 1]
  OBVIOUS
<1> HIDE DEF got, rows, due
<1>1. /\ Len(got) \in Nat /\ Len(rows) \in Nat /\ Len(due) \in Nat
      /\ Len(Append(rows, x)) = Len(rows) + 1
  BY <1>0, SMT
<1>2. ASSUME NEW i \in 1..(Len(rows) + 1)
      PROVE  Append(rows, x)[i] = due[Len(got) + i]
  <2>1. CASE i = Len(rows) + 1
    <3>1. Append(rows, x)[i] = x /\ Len(got) + i = Len(got) + Len(rows) + 1
      BY <1>0, <1>1, <2>1, SMT
    <3> QED
      BY <1>0, <3>1
  <2>2. CASE i \in 1..Len(rows)
    BY <1>0, <1>1, <2>2, SMT DEF Continues
  <2> QED
    BY <1>1, <2>1, <2>2, SMT
<1>3. Continues(got, Append(rows, x), due)
  BY <1>0, <1>1, <1>2, SMT DEF Continues
<1> QED
  BY <1>1, <1>3 DEF got, rows, due

\* The rows of a batch are handed out.
LEMMA ContinuesJoin ==
  ASSUME NEW got \in Seq(RowValues), NEW rows \in Seq(RowValues), NEW due \in Seq(RowValues),
         Continues(got, rows, due)
  PROVE  /\ Continues(got \o rows, <<>>, due)
         /\ got \o rows \in Seq(RowValues) /\ Len(got \o rows) = Len(got) + Len(rows)
<1>1. /\ Len(got) \in Nat /\ Len(rows) \in Nat /\ Len(due) \in Nat
      /\ got \o rows \in Seq(RowValues) /\ Len(got \o rows) = Len(got) + Len(rows)
  BY SMT
<1>2. ASSUME NEW i \in 1..(Len(got) + Len(rows))
      PROVE  (got \o rows)[i] = due[i]
  <2>1. CASE i \in 1..Len(got)
    <3>1. (got \o rows)[i] = got[i]
      BY <1>1, <2>1, SMT
    <3> QED
      BY <2>1, <3>1 DEF Continues
  <2>2. CASE i \notin 1..Len(got)
    <3>1. i - Len(got) \in 1..Len(rows) /\ (got \o rows)[i] = rows[i - Len(got)]
      BY <1>1, <2>2, SMT
    <3>2. rows[i - Len(got)] = due[Len(got) + (i - Len(got))]
      BY <3>1 DEF Continues
    <3>3. Len(got) + (i - Len(got)) = i
      BY <1>1, SMT
    <3> QED
      BY <3>1, <3>2, <3>3
  <2> QED
    BY <2>1, <2>2
<1> QED
  BY <1>1, <1>2, SMT DEF Continues

\* What was delivered does not depend on what is being collected.
LEMMA ContinuesLess ==
  ASSUME NEW got \in Seq(RowValues), NEW rows \in Seq(RowValues), NEW due \in Seq(RowValues),
         Continues(got, rows, due)
  PROVE  Continues(got, <<>>, due)
<1>1. Len(got) \in Nat /\ Len(rows) \in Nat /\ Len(due) \in Nat /\ Len(<<>>) = 0
  BY SMT
<1> QED
  BY <1>1, SMT DEF Continues

\* Nothing is before the start of a result.
LEMMA ContinuesNothing ==
  ASSUME NEW due \in Seq(RowValues)
  PROVE  Continues(<<>>, <<>>, due)
BY SMT DEF Continues

\* What a stream has delivered is a prefix of its result.
LEMMA ContinuesIsPrefix ==
  ASSUME NEW got \in Seq(RowValues), NEW rows \in Seq(RowValues), NEW due \in Seq(RowValues),
         Continues(got, rows, due)
  PROVE  IsPrefixOf(got, due) /\ (Len(got) = Len(due) => got = due)
<1>1. Len(got) \in Nat /\ Len(rows) \in Nat /\ Len(due) \in Nat
  BY SMT
<1>2. Len(got) <= Len(due) /\ \A i \in 1..Len(got) : got[i] = due[i]
  BY <1>1, SMT DEF Continues
<1>3. ASSUME Len(got) = Len(due)
      PROVE  got = due
  <2>1. /\ DOMAIN got = 1..Len(got) /\ DOMAIN due = 1..Len(got)
        /\ got = [i \in DOMAIN got |-> got[i]] /\ due = [i \in DOMAIN due |-> due[i]]
    BY <1>3, SMT
  <2> QED
    BY <1>2, <2>1
<1> QED
  BY <1>2, <1>3 DEF IsPrefixOf

\* The loops: a row that sqlite3_step returns is the next one of the result.
LEMMA RowIsNext ==
  ASSUME vm \in VmType, vm.query \in Queries, call.bound \in BOOLEAN,
         call.bound => binder \in Seq(Params), ~call.bound => vm.bound = None,
         NEW n \in Nat, NEW due \in Seq(RowValues), n <= Len(due),
         StandsAt(vm, binder, n, call.bound, due),
         Turn.status = "ok", NEW s \in Steps(Turn.vm), s.rc = "row", Regular(due)
  PROVE  /\ n < Len(due) /\ RowOf(s.vm) = due[n + 1]
         /\ StandsAt(s.vm, Turn.binder, n + 1, call.bound, due)
         /\ ~s.vm.failed
<1>1. Size[vm.query] \in Nat /\ vm.at \in Nat /\ Len(due) \in Nat
  BY StatementAssumption, SMT DEF VmType
<1>2. /\ Turn.vm.at < Size[Turn.vm.query]
      /\ s.vm = [query |-> Turn.vm.query, at |-> Turn.vm.at + 1, bound |-> Turn.vm.bound,
                 failed |-> FALSE]
  BY StepsCases
<1>3. CASE call.bound
  <2>1. Turn = BindNext(binder, vm) /\ binder \in Seq(Params)
    BY <1>3 DEF Turn
  <2>2. binder # <<>> /\ ~vm.failed /\ Head(binder) \notin Unbindable
    BY <2>1, BindNextType
  <2>3. Turn = [status |-> "ok", binder |-> Tail(binder),
             vm |-> [query |-> vm.query, at |-> 0, bound |-> Converted(Head(binder)), failed |-> FALSE]]
    BY <2>1, <2>2 DEF BindNext
  <2>4. /\ Turn.binder = Tail(binder) /\ Turn.vm.query = vm.query /\ Turn.vm.at = 0 /\ Turn.vm.bound = Converted(Head(binder))
    BY <2>3
  <2>5. /\ s.vm.query = Turn.vm.query /\ s.vm.at = Turn.vm.at + 1 /\ s.vm.bound = Turn.vm.bound
        /\ s.vm.failed = FALSE
    <3> DEFINE w == s.vm
               u == Turn.vm
    <3>1. w = [query |-> u.query, at |-> u.at + 1, bound |-> u.bound, failed |-> FALSE]
      BY <1>2
    <3> HIDE DEF w, u
    <3>2. w.query = u.query /\ w.at = u.at + 1 /\ w.bound = u.bound /\ w.failed = FALSE
      BY <3>1
    <3> QED
      BY <3>2 DEF w, u
  <2>6. /\ s.vm.query = vm.query /\ s.vm.at = 1 /\ s.vm.bound = Converted(Head(binder)) /\ s.vm.failed = FALSE
    <3>1. 0 + 1 = 1
      BY SMT
    <3> QED
      BY <2>4, <2>5, <3>1
  <2>7. Size[vm.query] # 0
    BY <1>1, <1>2, <2>4, SMT
  <2>8. /\ n + Len(binder) = Len(due)
        /\ \A i \in 1..Len(binder) : due[n + i] = <<vm.query, Converted(binder[i]), 1>>
    BY <1>3, <2>7 DEF StandsAt
  <2>9. /\ Len(binder) \in Nat \ {0} /\ Head(binder) = binder[1] /\ Len(Tail(binder)) = Len(binder) - 1
        /\ \A i \in 1..(Len(binder) - 1) : Tail(binder)[i] = binder[i + 1]
    BY <2>1, <2>2, SMT
  <2>10. n < Len(due) /\ due[n + 1] = <<vm.query, Converted(Head(binder)), 1>>
    BY <1>1, <2>8, <2>9, SMT
  <2>11. RowOf(s.vm) = <<vm.query, Converted(Head(binder)), 1>>
    BY <2>6 DEF RowOf
  <2>12. ASSUME NEW i \in 1..Len(Tail(binder))
         PROVE  due[(n + 1) + i] = <<vm.query, Converted(Tail(binder)[i]), 1>>
    <3>1. i + 1 \in 1..Len(binder) /\ (n + 1) + i = n + (i + 1) /\ Tail(binder)[i] = binder[i + 1]
      BY <2>9, SMT
    <3> QED
      BY <2>8, <3>1
  <2>13. (n + 1) + Len(Tail(binder)) = Len(due)
    BY <2>8, <2>9, SMT
  <2>14. StandsAt(s.vm, Turn.binder, n + 1, call.bound, due)
    <3>1. \A i \in 1..Len(Turn.binder) :
            due[(n + 1) + i] = <<s.vm.query, Converted(Turn.binder[i]), 1>>
      BY <2>4, <2>6, <2>12
    <3>2. (n + 1) + Len(Turn.binder) = Len(due) /\ Size[s.vm.query] # 0
      BY <2>4, <2>6, <2>7, <2>13
    <3> QED
      BY <1>3, <3>1, <3>2 DEF StandsAt
  <2> QED
    BY <2>6, <2>10, <2>11, <2>14
<1>4. CASE ~call.bound
  <2>1. Turn.vm = vm /\ Turn.binder = binder
    BY <1>4 DEF Turn
  <2>2. /\ s.vm.query = vm.query /\ s.vm.at = vm.at + 1 /\ s.vm.bound = None
        /\ s.vm.failed = FALSE /\ vm.at < Size[vm.query]
    BY <1>2, <1>4, <2>1, SMT
  <2>3. /\ vm.at = n /\ Len(due) = Size[vm.query]
        /\ \A i \in 1..Len(due) : due[i] = <<vm.query, None, i>>
    BY <1>4 DEF StandsAt
  <2>4. n < Len(due) /\ n + 1 \in 1..Len(due)
    BY <1>1, <2>2, <2>3, SMT
  <2>5. RowOf(s.vm) = <<vm.query, None, n + 1>>
    BY <2>2, <2>3 DEF RowOf
  <2>6. StandsAt(s.vm, Turn.binder, n + 1, call.bound, due)
    BY <1>4, <2>2, <2>3 DEF StandsAt
  <2> QED
    BY <2>2, <2>3, <2>4, <2>5, <2>6
<1> QED
  BY <1>3, <1>4

\* The loops: when sqlite3_step has no row left the result is complete.
LEMMA DoneIsAll ==
  ASSUME vm \in VmType, vm.query \in Queries, call.bound \in BOOLEAN,
         call.bound => binder \in Seq(Params),
         NEW n \in Nat, NEW due \in Seq(RowValues), n <= Len(due),
         StandsAt(vm, binder, n, call.bound, due),
         Turn.status = "ok", NEW s \in Steps(Turn.vm), s.rc = "done"
  PROVE  n = Len(due)
<1>1. Size[vm.query] \in Nat /\ vm.at \in Nat /\ Len(due) \in Nat
  BY StatementAssumption, SMT DEF VmType
<1>2. ~(Turn.vm.at < Size[Turn.vm.query])
  BY StepsCases
<1>3. CASE call.bound
  <2>1. Turn = BindNext(binder, vm) /\ binder \in Seq(Params)
    BY <1>3 DEF Turn
  <2>2. binder # <<>> /\ ~vm.failed /\ Head(binder) \notin Unbindable
    BY <2>1, BindNextType
  <2>3. Turn = [status |-> "ok", binder |-> Tail(binder),
             vm |-> [query |-> vm.query, at |-> 0, bound |-> Converted(Head(binder)), failed |-> FALSE]]
    BY <2>1, <2>2 DEF BindNext
  <2>4. Turn.vm.query = vm.query /\ Turn.vm.at = 0
    BY <2>3
  <2>5. Size[vm.query] = 0
    BY <1>1, <1>2, <2>4, SMT
  <2>6. due = <<>>
    BY <1>3, <2>5 DEF StandsAt
  <2> QED
    BY <2>6, SMT
<1>4. CASE ~call.bound
  <2>1. Turn.vm = vm
    BY <1>4 DEF Turn
  <2> QED
    BY <1>1, <1>2, <1>4, <2>1, SMT DEF StandsAt
<1> QED
  BY <1>3, <1>4

\* The loops: when no parameters are left the result is complete.
LEMMA BindEndIsAll ==
  ASSUME NEW v, NEW n \in Nat, NEW due \in Seq(RowValues), n <= Len(due),
         StandsAt(v, <<>>, n, TRUE, due)
  PROVE  n = Len(due)
<1>1. Len(due) \in Nat /\ Len(<<>>) = 0
  BY SMT
<1> QED
  BY <1>1, SMT DEF StandsAt

\* The loops: the parameters of a regular result can be bound.
LEMMA BindFailsIsAll ==
  ASSUME NEW v \in VmType, NEW b \in Seq(Params),
         NEW n \in Nat, NEW due \in Seq(RowValues), n <= Len(due), Regular(due),
         StandsAt(v, b, n, TRUE, due), ~v.failed, BindNext(b, v).status = "error"
  PROVE  n = Len(due)
<1>1. Len(due) \in Nat
  BY SMT
<1>2. b # <<>>
  BY BindNextType
<1>3. Head(b) \in Unbindable
  BY <1>2 DEF BindNext
<1>4. CASE Size[v.query] = 0
  BY <1>1, <1>4, SMT DEF StandsAt
<1>5. CASE Size[v.query] # 0
  <2>1. /\ n + Len(b) = Len(due)
        /\ \A i \in 1..Len(b) : due[n + i] = <<v.query, Converted(b[i]), 1>>
    BY <1>5 DEF StandsAt
  <2>2. Len(b) \in Nat \ {0} /\ Head(b) = b[1] /\ Head(b) \in Params
    BY <1>2, SMT
  <2>3. Converted(Head(b)) = Head(b)
    BY <1>3, StatementAssumption DEF Converted
  <2>4. n + 1 \in DOMAIN due /\ due[n + 1] = <<v.query, Head(b), 1>>
    BY <1>1, <2>1, <2>2, <2>3, SMT
  <2>5. due[n + 1][2] = Head(b) /\ Head(b) # None
    BY <2>2, <2>4, StatementAssumption, SMT
  <2> QED
    BY <1>3, <2>4, <2>5 DEF Regular
<1> QED
  BY <1>4, <1>5

\* During a loop every other stream is done.
LEMMA OthersDone ==
  ASSUME ResultInv, call.op \in {"export", "next"}, NEW s \in Readers, readers[s].open,
         call.op = "next" => s # call.reader
  PROVE  readers[s].done /\ readers[s].ended # "no"
<1>1. HandleInv
  BY DEF ResultInv
<1>2. CASE call.op = "export"
  <2>1. Quiet
    BY <1>1, <1>2 DEF HandleInv, Alone
  <2> QED
    BY <1>1, <2>1, QuietIsDone DEF Quiet
<1>3. CASE call.op = "next"
  <2>1. /\ call.reader \in Readers
        /\ readers[call.reader].open /\ ~readers[call.reader].done
    BY <1>1, <1>3 DEF HandleInv, ReportInv, Loops, Reading
  <2>2. readers[call.reader].ended = "no"
    BY <1>1, <2>1 DEF HandleInv, Streams
  <2>3. readers[s].ended # "no"
    BY <1>3, <2>1, <2>2 DEF ResultInv, OneActive
  <2> QED
    BY <1>1, <2>3 DEF HandleInv, Streams
<1> QED
  BY <1>2, <1>3

\* The types of a loop over rows.
LEMMA LoopTypes ==
  ASSUME HandleInv, call.op \in {"export", "next"}
  PROVE  /\ call \in CallType /\ call.reader \in Readers
         /\ LoopGot \in Seq(RowValues) /\ LoopDue \in Seq(RowValues) /\ call.rows \in Seq(RowValues)
         /\ vm \in VmType /\ vm.query \in Queries /\ call.bound \in BOOLEAN
         /\ call.bound => binder \in Seq(Params)
         /\ ~call.bound => vm.bound = None
         /\ Types /\ Prepared /\ Loops
<1>1. /\ Types /\ Prepared /\ Loops /\ call \in CallType /\ call.reader \in Readers
      /\ vm \in VmType /\ vm.query \in Queries
      /\ call.bound <=> vm.query \in Takes
      /\ call.bound => binder \notin {None, Half}
  BY DEF HandleInv, ReportInv, Types, Loops
<1>2. /\ call.rows \in Seq(RowValues) /\ call.due \in Seq(RowValues) /\ call.bound \in BOOLEAN
  BY <1>1 DEF CallType
<1>3. readers[call.reader].got \in Seq(RowValues) /\ readers[call.reader].due \in Seq(RowValues)
  BY <1>1 DEF Types, ReaderType
<1>4. LoopGot \in Seq(RowValues) /\ LoopDue \in Seq(RowValues)
  BY <1>2, <1>3, SMT DEF LoopGot, LoopDue
<1> QED
  BY <1>1, <1>2, <1>4 DEF Types, Prepared

\* A loop over rows ends: the stream has what was collected, which is all of
\* the result if the stream is done without an error.
LEMMA ResultLeave ==
  ASSUME ResultInv, HandleInv', call.op \in {"export", "next"},
         NEW done \in BOOLEAN, NEW status \in {"ok", "error"}, NEW v, NEW b,
         LeaveLoop(done, status, v, b),
         done /\ status = "ok" /\ Regular(LoopDue) =>
           Len(LoopGot) + Len(call.rows) = Len(LoopDue),
         ~done => status = "ok" /\ call.rows # <<>> /\ v = vm /\ b = binder,
         v.query \notin Takes /\ v.at # 0 => ~done
  PROVE  ResultInv'
<1> DEFINE r == call.reader
<1>1. /\ HandleInv /\ Results /\ Collects /\ OneActive
  BY DEF ResultInv
<1>2. /\ call \in CallType /\ r \in Readers
      /\ LoopGot \in Seq(RowValues) /\ LoopDue \in Seq(RowValues) /\ call.rows \in Seq(RowValues)
  BY <1>1, LoopTypes
<1>3. /\ call' = NoCall /\ call'.op = "none" /\ vm' = v /\ binder' = b
  BY DEF LeaveLoop, NoCall
<1>4. readers \in [Readers -> ReaderType] /\ readers[r] \in ReaderType
  BY <1>1, <1>2 DEF HandleInv, ReportInv, Types
<1>5. /\ call.rows # <<>> => ~vm.failed
      /\ Regular(LoopDue) =>
           /\ Continues(LoopGot, call.rows, LoopDue)
           /\ StandsAt(vm, binder, Len(LoopGot) + Len(call.rows), call.bound, LoopDue)
  BY <1>1 DEF Collects
<1>6. Collects'
  BY <1>3 DEF Collects
\* What is to be shown of the stream itself.
<1>7. ASSUME \A s \in Readers : s # r => readers'[s] = readers[s],
             readers'[r].open => Delivers(readers'[r]),
             readers'[r].open /\ ~readers'[r].done => ~done,
             ~done => readers'[r].open /\ ~readers'[r].done,
             ~done /\ Regular(readers'[r].due) =>
               StandsAt(vm, binder, Len(readers'[r].got) + Len(Kept(readers'[r])),
                        readers'[r].binder, readers'[r].due)
      PROVE  ResultInv'
  <2>1. ASSUME NEW s \in Readers, s # r, readers'[s].open
        PROVE  readers[s].open /\ readers'[s] = readers[s] /\ readers[s].done
               /\ readers[s].ended # "no"
    BY <1>7, <2>1, OthersDone
  <2>2. Results'
    BY <1>1, <1>7, <2>1 DEF Results
  <2>3. Active'
    BY <1>3, <1>5, <1>7, <2>1 DEF Active
  <2>4. Waiting'
    BY <1>3, <1>7, <2>1 DEF Waiting
  <2>5. AtStart'
    BY <1>2, <1>3, <1>7 DEF AtStart
  <2>6. OneActive'
    BY <2>1 DEF OneActive
  <2> QED
    BY <1>6, <2>2, <2>3, <2>4, <2>5, <2>6 DEF ResultInv
<1>8. CASE call.op = "next"
  <2> DEFINE ended == IF status = "error" THEN "error"
                      ELSE IF call.rows = <<>> THEN "end" ELSE "no"
  <2> DEFINE e == IF readers[r].ended = "no" THEN ended ELSE readers[r].ended
  <2> DEFINE g == IF status = "ok" THEN readers[r].got \o call.rows ELSE readers[r].got
  <2>1. readers' = [readers EXCEPT ![r].done = done, ![r].ended = e, ![r].got = g]
    BY <1>8 DEF LeaveLoop
  <2>2. /\ readers[r].open /\ ~readers[r].done /\ readers[r].batch = None
        /\ call.bound = readers[r].binder
    BY <1>1, <1>8 DEF HandleInv, Reading
  <2>3. readers[r].ended = "no"
    BY <1>1, <1>2, <2>2 DEF HandleInv, Streams
  <2>4. status = "error" => e = "error"
    BY <2>3
  <2>5. LoopGot = readers[r].got /\ LoopDue = readers[r].due
    BY <1>8 DEF LoopGot, LoopDue
  <2>6. Regular(LoopDue) => Continues(g, <<>>, LoopDue)
    <3>1. CASE status = "ok"
      BY <1>2, <1>5, <2>5, <3>1, ContinuesJoin
    <3>2. CASE status = "error"
      <4>1. g = LoopGot
        BY <2>5, <3>2
      <4>2. Continues(LoopGot, call.rows, LoopDue) => Continues(LoopGot, <<>>, LoopDue)
        BY <1>2, ContinuesLess
      <4> QED
        BY <1>5, <4>1, <4>2
    <3> QED
      BY <3>1, <3>2
  <2>7. status = "ok" => Len(g) = Len(LoopGot) + Len(call.rows)
    <3>1. status = "ok" => g = LoopGot \o call.rows
      BY <2>5
    <3>2. Len(LoopGot \o call.rows) = Len(LoopGot) + Len(call.rows)
      BY <1>2, SMT
    <3> QED
      BY <3>1, <3>2
  <2>8. g \in Seq(RowValues) /\ Len(g) \in Nat /\ Len(<<>>) = 0
    <3>1. g = LoopGot \o call.rows \/ g = LoopGot
      BY <2>5
    <3> HIDE DEF g
    <3>2. LoopGot \o call.rows \in Seq(RowValues)
      BY <1>2, SMT
    <3>3. g \in Seq(RowValues)
      BY <1>2, <3>1, <3>2
    <3> QED
      BY <3>3, SMT
  <2> HIDE DEF e, g, r
  <2>9. readers'[r] = [readers[r] EXCEPT !.done = done, !.ended = e, !.got = g]
    BY <1>2, <1>4, <2>1
  <2>10. /\ readers'[r].open /\ readers'[r].done = done /\ readers'[r].ended = e
         /\ readers'[r].got = g /\ readers'[r].binder = readers[r].binder
         /\ readers'[r].batch = None /\ readers'[r].due = LoopDue
    BY <1>4, <2>2, <2>5, <2>9 DEF ReaderType
  <2>11. \A s \in Readers : s # r => readers'[s] = readers[s]
    BY <1>2, <1>4, <2>1
  <2>12. Kept(readers'[r]) = <<>>
    BY <2>10 DEF Kept
  <2>13. Delivers(readers'[r])
    <3>1. Regular(LoopDue) /\ e # "error" /\ done => Len(g) + Len(<<>>) = Len(LoopDue)
      BY <2>4, <2>7, <2>8, SMT
    <3> QED
      BY <2>6, <2>10, <2>12, <3>1 DEF Delivers
  <2>14. ~done /\ Regular(LoopDue) =>
           StandsAt(vm, binder, Len(g) + Len(<<>>), call.bound, LoopDue)
    <3>1. ~done => Len(g) + Len(<<>>) = Len(LoopGot) + Len(call.rows)
      BY <2>7, <2>8, SMT
    <3> QED
      BY <1>5, <3>1
  <2> QED
    BY <1>7, <2>2, <2>10, <2>11, <2>12, <2>13, <2>14 DEF r
<1>9. CASE call.op = "export" /\ status = "error"
  <2>1. readers' = readers /\ done /\ ~readers[r].open
    BY <1>1, <1>9 DEF LeaveLoop, Collects
  <2> QED
    BY <1>7, <2>1
<1>10. CASE call.op = "export" /\ status = "ok"
  <2> DEFINE new == [open |-> TRUE, dead |-> FALSE, binder |-> call.bound,
                     batch |-> call.rows, done |-> done, size |-> call.size,
                     got |-> <<>>, due |-> call.due, ended |-> "no"]
  <2>1. readers' = [readers EXCEPT ![r] = new]
    BY <1>10 DEF LeaveLoop
  <2>2. LoopGot = <<>> /\ LoopDue = call.due
    BY <1>10 DEF LoopGot, LoopDue
  <2>3. /\ new.open /\ new.binder = call.bound /\ new.done = done /\ new.batch = call.rows
        /\ new.got = <<>> /\ new.due = LoopDue /\ new.ended = "no"
    BY <2>2
  <2> HIDE DEF new, r
  <2>4. readers'[r] = new /\ \A s \in Readers : s # r => readers'[s] = readers[s]
    BY <1>2, <1>4, <2>1
  <2>5. Kept(new) = call.rows
    BY <1>2, <2>3, NoneIsNoSeq DEF Kept
  <2>6. Delivers(new)
    BY <1>5, <1>10, <2>2, <2>3, <2>5 DEF Delivers
  <2>7. ~done /\ Regular(LoopDue) =>
          StandsAt(vm, binder, Len(<<>>) + Len(call.rows), call.bound, LoopDue)
    BY <1>5, <2>2
  <2> QED
    BY <1>7, <2>3, <2>4, <2>5, <2>6, <2>7 DEF r
<1> QED
  BY <1>8, <1>9, <1>10

LEMMA ResultLoops ==
  ASSUME ResultInv, HandleInv', Faults \cap {"value", "other"} = {},
         \/ ReaderFull \/ ReaderBindEnds \/ ReaderBindFails
         \/ ReaderDone \/ ReaderStepFails \/ ReaderRow
  PROVE  ResultInv'
<1>1. HandleInv /\ Active /\ Collects
  BY DEF ResultInv
<1>2. call.op \in {"export", "next"}
  BY DEF ReaderFull, ReaderBindEnds, ReaderBindFails, ReaderDone, ReaderStepFails, ReaderRow,
         Looping
<1>3. /\ call \in CallType /\ call.reader \in Readers
      /\ LoopGot \in Seq(RowValues) /\ LoopDue \in Seq(RowValues) /\ call.rows \in Seq(RowValues)
      /\ vm \in VmType /\ vm.query \in Queries /\ call.bound \in BOOLEAN
      /\ call.bound => binder \in Seq(Params)
      /\ ~call.bound => vm.bound = None
      /\ Types /\ Prepared /\ Loops
  BY <1>1, <1>2, LoopTypes
<1>4. /\ Turn.vm \in VmType /\ Turn.vm.query = vm.query
      /\ ~call.bound => Turn.status = "ok" /\ Turn.binder = binder /\ Turn.vm = vm
      /\ call.bound => Turn = BindNext(binder, vm)
  BY <1>2, <1>3, TurnType
<1> DEFINE n == Len(LoopGot) + Len(call.rows)
<1>5. n \in Nat
  BY <1>3, SMT
<1>6. /\ call.rows # <<>> => ~vm.failed
      /\ Regular(LoopDue) =>
           /\ Continues(LoopGot, call.rows, LoopDue) /\ n <= Len(LoopDue)
           /\ StandsAt(vm, binder, n, call.bound, LoopDue)
  BY <1>1, <1>2 DEF Collects, Continues
<1> HIDE DEF n
<1>8. call.bound => vm.query \in Takes
  BY <1>2, <1>3 DEF Loops
<1>9. CASE ReaderFull
  <2>1. call.rows # <<>> /\ LeaveLoop(FALSE, "ok", vm, binder)
    BY <1>3, <1>9 DEF ReaderFull, CallType
  <2> QED
    BY <1>2, <2>1, ResultLeave
<1>10. CASE ReaderBindEnds
  <2>1. Turn.status = "finished" /\ LeaveLoop(TRUE, "ok", Turn.vm, Turn.binder)
    BY <1>10 DEF ReaderBindEnds
  <2>2. call.bound /\ binder = <<>>
    BY <1>3, <1>4, <2>1, BindNextType
  <2>3. Regular(LoopDue) => n = Len(LoopDue)
    BY <1>3, <1>5, <1>6, <2>2, BindEndIsAll
  <2>4. Turn.vm.query \in Takes
    BY <1>4, <1>8, <2>2
  <2> QED
    BY <1>2, <2>1, <2>3, <2>4, ResultLeave DEF n
<1>11. CASE ReaderBindFails
  <2>1. Turn.status = "error" /\ call.bound
    BY <1>4, <1>11 DEF ReaderBindFails
  <2>2. Turn.vm.query \in Takes
    BY <1>4, <1>8, <2>1
  <2>3. CASE call.op = "export"
    <3>1. LeaveLoop(TRUE, "error", Turn.vm, Turn.binder)
      BY <1>11, <2>3 DEF ReaderBindFails
    <3> QED
      BY <1>2, <2>2, <3>1, ResultLeave
  <2>4. CASE call.op = "next"
    <3>1. LeaveLoop(TRUE, "ok", Turn.vm, Turn.binder)
      BY <1>11, <2>4 DEF ReaderBindFails
    <3>2. ~vm.failed
      BY <1>1, <1>3, <2>4 DEF HandleInv, Reading, Active
    <3>3. Regular(LoopDue) => n = Len(LoopDue)
      BY <1>3, <1>4, <1>5, <1>6, <2>1, <3>2, BindFailsIsAll
    <3> QED
      BY <1>2, <2>2, <3>1, <3>3, ResultLeave DEF n
  <2> QED
    BY <1>2, <2>3, <2>4
<1>12. CASE ReaderDone
  <2>1. PICK s \in Steps(Turn.vm) : s.rc = "done" /\ LeaveLoop(TRUE, "ok", s.vm, Turn.binder)
    BY <1>12 DEF ReaderDone
  <2>2. Turn.status = "ok"
    BY <1>12 DEF ReaderDone
  <2>3. s.vm.at = 0
    BY <2>1, StepsFacts
  <2>4. ASSUME Regular(LoopDue)
        PROVE  n = Len(LoopDue)
    <3>1. n <= Len(LoopDue) /\ StandsAt(vm, binder, n, call.bound, LoopDue)
      BY <1>6, <2>4
    <3> QED
      BY <1>3, <1>5, <2>1, <2>2, <3>1, DoneIsAll
  <2> QED
    BY <1>2, <2>1, <2>3, <2>4, ResultLeave DEF n
<1>13. CASE ReaderStepFails
  <2>1. PICK s \in Steps(Turn.vm) :
          s.rc \in {"error", "value"} /\ LeaveLoop(s.rc = "error", "error", s.vm, Turn.binder)
    BY <1>13 DEF ReaderStepFails
  <2>2. s.rc = "error" /\ s.vm.at = 0
    BY <2>1, StepsFacts
  <2>3. LeaveLoop(TRUE, "error", s.vm, Turn.binder)
    BY <2>1, <2>2
  <2> QED
    BY <1>2, <2>2, <2>3, ResultLeave
<1>14. CASE ReaderRow
  <2>1. PICK s \in Steps(Turn.vm) :
          /\ s.rc \in {"row", "other"} /\ vm' = s.vm
          /\ call' = [call EXCEPT !.rows = Append(@, RowOf(s.vm))]
    BY <1>14 DEF ReaderRow
  <2>2. /\ Turn.status = "ok" /\ binder' = Turn.binder /\ readers' = readers
    BY <1>14 DEF ReaderRow
  <2>3. s.rc = "row" /\ ~s.vm.failed
    BY <2>1, StepsFacts
  <2>4. s.vm.query = vm.query /\ RowOf(s.vm) \in RowValues
    BY <1>3, <1>4, StepsType
  <2> DEFINE rows == Append(call.rows, RowOf(s.vm))
  <2>5. /\ call'.op = call.op /\ call'.reader = call.reader /\ call'.bound = call.bound
        /\ call'.due = call.due /\ call'.rows = rows
    BY <1>3, <2>1 DEF CallType
  <2>6. LoopGot' = LoopGot /\ LoopDue' = LoopDue
    BY <2>2, <2>5 DEF LoopGot, LoopDue
  <2>7. ASSUME Regular(LoopDue)
        PROVE  /\ Continues(LoopGot, rows, LoopDue)
               /\ StandsAt(vm', binder', Len(LoopGot) + Len(rows), call.bound, LoopDue)
    <3>1. /\ n < Len(LoopDue) /\ RowOf(s.vm) = LoopDue[n + 1]
          /\ StandsAt(s.vm, Turn.binder, n + 1, call.bound, LoopDue)
      <4>1. n <= Len(LoopDue) /\ StandsAt(vm, binder, n, call.bound, LoopDue)
        BY <1>6, <2>7
      <4> QED
        BY <1>3, <1>5, <2>1, <2>2, <2>3, <2>7, <4>1, RowIsNext
    <3>2. Continues(LoopGot, rows, LoopDue) /\ Len(rows) = Len(call.rows) + 1
      <4>1. Continues(LoopGot, call.rows, LoopDue)
        BY <1>6, <2>7
      <4>2. /\ Len(LoopGot) + Len(call.rows) < Len(LoopDue)
            /\ RowOf(s.vm) = LoopDue[Len(LoopGot) + Len(call.rows) + 1]
        BY <3>1 DEF n
      <4>3. LoopGot \in Seq(RowValues) /\ call.rows \in Seq(RowValues) /\ LoopDue \in Seq(RowValues)
        BY <1>3
      <4>4. ASSUME NEW x \in RowValues, x = LoopDue[Len(LoopGot) + Len(call.rows) + 1]
            PROVE  /\ Continues(LoopGot, Append(call.rows, x), LoopDue)
                   /\ Len(Append(call.rows, x)) = Len(call.rows) + 1
        BY <4>1, <4>2, <4>3, <4>4, ContinuesRow
      <4> QED
        BY <2>4, <4>2, <4>4
    <3>3. Len(LoopGot) + Len(rows) = n + 1
      BY <1>3, <3>2, SMT DEF n
    <3> QED
      BY <2>1, <2>2, <3>1, <3>2, <3>3
  <2> HIDE DEF rows
  <2>8. Collects'
    BY <1>1, <1>2, <2>1, <2>2, <2>3, <2>5, <2>6, <2>7 DEF Collects
  <2>9. Results' /\ OneActive'
    BY <2>2 DEF ResultInv, Results, OneActive
  <2>10. Active'
    BY <2>1, <2>2, <2>3 DEF Active
  <2>11. Waiting'
    BY <1>2, <2>5 DEF Waiting
  <2>12. AtStart'
    <3>1. CASE call.op = "export"
      BY <2>5, <3>1 DEF AtStart
    <3>2. CASE call.op = "next"
      <4>1. readers'[call.reader].open /\ ~readers'[call.reader].done
        BY <1>1, <2>2, <3>2 DEF HandleInv, Reading
      <4> QED
        BY <1>3, <4>1 DEF AtStart
    <3> QED
      BY <1>2, <3>1, <3>2
  <2> QED
    BY <2>8, <2>9, <2>10, <2>11, <2>12 DEF ResultInv
<1> QED
  BY <1>9, <1>10, <1>11, <1>12, <1>13, <1>14

LEMMA ResultInit == Init => ResultInv
<1> SUFFICES ASSUME Init PROVE ResultInv
  OBVIOUS
<1>1. HandleInv
  BY HandleInit
<1>2. /\ call.op = "none" /\ vm.at = 0
      /\ \A r \in Readers : ~readers[r].open
  BY DEF Init, NoCall, NoVm, NoReader
<1> QED
  BY <1>1, <1>2 DEF ResultInv, Results, Active, Waiting, Collects, AtStart, OneActive

\* While nothing is being read, nothing depends on the sqlite3_stmt.
LEMMA ResultQuiet ==
  ASSUME ResultInv, Quiet, call.op # "export",
         \A r \in Readers :
           readers'[r] = readers[r] \/ readers'[r] = [readers[r] EXCEPT !.dead = TRUE],
         vm' = vm \/ vm'.at = 0
  PROVE  Results' /\ Active' /\ Waiting' /\ AtStart' /\ OneActive'
<1>1. HandleInv /\ Results /\ AtStart
  BY DEF ResultInv
<1>2. ASSUME NEW r \in Readers
      PROVE  /\ readers'[r].open = readers[r].open /\ readers'[r].done = readers[r].done
             /\ readers'[r].ended = readers[r].ended
             /\ Delivers(readers[r]) => Delivers(readers'[r])
  <2>1. readers[r] \in ReaderType
    BY <1>1 DEF HandleInv, ReportInv, Types
  <2> DEFINE d == [readers[r] EXCEPT !.dead = TRUE]
  <2>2. /\ d.open = readers[r].open /\ d.done = readers[r].done /\ d.ended = readers[r].ended
        /\ d.batch = readers[r].batch /\ d.got = readers[r].got /\ d.due = readers[r].due
    BY <2>1 DEF ReaderType
  <2> HIDE DEF d
  <2>3. Delivers(readers[r]) => Delivers(d)
    BY <2>2 DEF Delivers, Kept
  <2>4. readers'[r] = readers[r] \/ readers'[r] = d
    BY DEF d
  <2> QED
    BY <2>2, <2>3, <2>4
<1>3. ASSUME NEW r \in Readers, readers'[r].open
      PROVE  readers'[r].done /\ readers'[r].ended # "no"
  BY <1>1, <1>2, <1>3, QuietIsDone DEF Quiet
<1>4. Results'
  BY <1>1, <1>2 DEF Results
<1>5. Active' /\ Waiting' /\ OneActive'
  BY <1>3 DEF Active, Waiting, OneActive
<1>6. vm.query \notin Takes => vm.at = 0
  BY <1>1, QuietIsDone DEF AtStart
<1>7. AtStart'
  BY <1>6 DEF AtStart
<1> QED
  BY <1>4, <1>5, <1>7

LEMMA ResultCalls ==
  ASSUME ResultInv, HandleInv',
         \/ StatementRelease \/ Prepare \/ ExecuteFails \/ ExecuteUpdate
         \/ UpdateTurn \/ IngestRefused \/ IngestStart \/ IngestTurn
  PROVE  ResultInv'
<1>1. HandleInv /\ call \in CallType
  BY DEF ResultInv, HandleInv, ReportInv, Types
<1>2. Quiet /\ call.op # "export" /\ call'.op \notin {"export", "next"}
  <2>1. NoCall.op = "none"
    BY DEF NoCall
  <2>2. CASE StatementRelease
    BY <2>1, <2>2 DEF StatementRelease, Idle, Quiet
  <2>3. CASE Prepare
    BY <2>1, <2>3 DEF Prepare, Idle
  <2>4. CASE ExecuteFails
    BY <2>1, <2>4 DEF ExecuteFails, ExecuteGuard, Idle
  <2>5. CASE ExecuteUpdate
    BY <2>1, <2>5 DEF ExecuteUpdate, ExecuteStart, ExecuteGuard, Idle
  <2>6. CASE UpdateTurn
    <3>1. call'.op \in {"none", call.op}
      BY <1>1, <2>6, TurnsShape
    <3>2. call.op = "update"
      BY <2>6 DEF UpdateTurn
    <3> QED
      BY <1>1, <2>1, <3>1, <3>2 DEF HandleInv, Alone
  <2>7. CASE IngestRefused
    BY <2>1, <2>7 DEF IngestRefused, IngestGuard, Idle
  <2>8. CASE IngestStart
    BY <2>1, <2>8 DEF IngestStart, IngestGuard, Idle
  <2>9. CASE IngestTurn
    <3>1. call'.op \in {"none", call.op}
      BY <1>1, <2>9, TurnsShape
    <3>2. call.op = "ingest"
      BY <2>9 DEF IngestTurn
    <3> QED
      BY <1>1, <2>1, <3>1, <3>2 DEF HandleInv, Alone
  <2> QED
    BY <2>2, <2>3, <2>4, <2>5, <2>6, <2>7, <2>8, <2>9
<1>3. /\ \A r \in Readers :
           readers'[r] = readers[r] \/ readers'[r] = [readers[r] EXCEPT !.dead = TRUE]
      /\ vm' = vm \/ vm'.at = 0
  <2>1. CASE PrepareFails \/ PrepareSucceeds
    <3>1. vm' = vm \/ vm'.at = 0
      BY <2>1, SMT DEF PrepareFails, PrepareSucceeds, NoVm
    <3> QED
      BY <1>1, <2>1, <3>1, PrepareKeeps DEF HandleInv, ReportInv
  <2>2. CASE StatementRelease \/ IngestRefused \/ IngestStart \/ IngestTurn
    <3>1. NoVm.at = 0
      BY DEF NoVm
    <3>2. readers' = readers /\ (vm' = vm \/ vm' = NoVm)
      BY <2>2 DEF StatementRelease, IngestRefused, IngestStart, IngestTurn
    <3> QED
      BY <3>1, <3>2
  <2>3. CASE UpdateTurn
    <3>1. readers' = readers
      BY <2>3 DEF UpdateTurn
    <3>2. vm'.at = 0
      BY <1>1, <2>3, TurnsShape
    <3> QED
      BY <3>1, <3>2
  <2> QED
    BY <2>1, <2>2, <2>3 DEF Prepare, ExecuteFails, ExecuteUpdate, ExecuteStart
<1>4. Results' /\ Active' /\ Waiting' /\ AtStart' /\ OneActive'
  BY <1>2, <1>3, ResultQuiet
<1>5. Collects'
  BY <1>2 DEF Collects
<1> QED
  BY <1>4, <1>5 DEF ResultInv

\* An export starts at the first row of its result.
LEMMA ResultExecute ==
  ASSUME ResultInv, HandleInv', NEW r \in Readers, ExecuteQuery(r)
  PROVE  ResultInv'
<1> DEFINE due == Due(stmt.query, GivenRows(stmt.query))
<1> DEFINE c == [op |-> "export", reader |-> r, rows |-> <<>>, due |-> due,
                 bound |-> binder # None, size |-> stmt.batch, count |-> 0]
<1>1. HandleInv /\ ReportInv
  BY DEF ResultInv, HandleInv
<1>2. ExecuteStart(c) /\ ~readers[r].open
  BY DEF ExecuteQuery
<1>3. /\ c.op = "export" /\ c.reader = r /\ c.rows = <<>> /\ c.due = due
      /\ c.bound = (binder # None)
  OBVIOUS
<1> HIDE DEF c
<1>4. /\ stmt.query \in Queries /\ vm'.query = stmt.query
      /\ (binder # None) <=> stmt.query \in Takes
      /\ stmt.query \in Takes => GivenRows(stmt.query) = binder /\ binder \in Seq(Params)
      /\ stmt.query \notin Takes => GivenRows(stmt.query) = <<None>>
      /\ GivenRows(stmt.query) \in Seq(Params \cup {None})
  BY <1>1, <1>2, StartsBound
<1>5. /\ Quiet /\ PrepareSucceeds /\ call = NoCall /\ call' = c /\ binder' = binder
  BY <1>2 DEF ExecuteStart, ExecuteGuard, Idle
<1>6. /\ \A s \in Readers :
           readers'[s] = readers[s] \/ readers'[s] = [readers[s] EXCEPT !.dead = TRUE]
  BY <1>1, <1>5, PrepareKeeps DEF ReportInv
<1>7. vm' = vm \/ vm'.at = 0
  BY <1>5 DEF PrepareSucceeds, NoVm
<1>8. call.op # "export"
  BY <1>5 DEF NoCall
<1>9. Results' /\ Active' /\ Waiting' /\ AtStart' /\ OneActive'
  BY <1>5, <1>6, <1>7, <1>8, ResultQuiet
<1>10. ~readers'[r].open
  <2>1. readers[r] \in ReaderType
    BY <1>1 DEF ReportInv, Types
  <2>2. ~[readers[r] EXCEPT !.dead = TRUE].open
    BY <1>2, <2>1 DEF ReaderType
  <2> QED
    BY <1>2, <1>6, <2>2
<1>11. due \in Seq(RowValues)
  BY <1>4, DueType
<1>12. ASSUME Regular(due)
       PROVE  StandsAt(vm', binder, 0, binder # None, due)
  <2>1. CASE stmt.query \in Takes
    <3>1. due = Due(stmt.query, binder) /\ binder \in Seq(Params) /\ binder # None
      BY <1>4, <2>1
    <3>2. \/ Size[stmt.query] = 0 /\ due = <<>>
          \/ /\ Size[stmt.query] # 0 /\ Len(due) = Len(binder)
             /\ \A i \in 1..Len(binder) : due[i] = <<stmt.query, Converted(binder[i]), 1>>
      BY <1>4, <1>12, <3>1, DueBound, SMT
    <3> HIDE DEF due
    <3>3. Len(binder) \in Nat /\ \A i \in 1..Len(binder) : 0 + i = i
      BY <3>1, SMT
    <3> QED
      BY <1>4, <3>1, <3>2, <3>3, SMT DEF StandsAt
  <2>2. CASE stmt.query \notin Takes
    <3>1. due = Due(stmt.query, <<None>>) /\ binder = None
      BY <1>4, <2>2
    <3>2. /\ Len(due) = Size[stmt.query]
          /\ \A i \in 1..Size[stmt.query] : due[i] = <<stmt.query, None, i>>
      BY <1>4, <3>1, DueUnbound
    <3>3. vm'.at = 0
      <4>1. vm' = vm /\ vm.query \notin Takes => vm.at = 0
        BY <1>1, <1>5, <1>8, QuietIsDone DEF ResultInv, AtStart
      <4> QED
        BY <1>4, <1>7, <2>2, <4>1
    <3> HIDE DEF due
    <3> QED
      BY <1>4, <3>1, <3>2, <3>3 DEF StandsAt
  <2> QED
    BY <2>1, <2>2
<1> HIDE DEF due
<1>13. LoopGot' = <<>> /\ LoopDue' = due
  BY <1>3, <1>5 DEF LoopGot, LoopDue
<1>14. Continues(<<>>, <<>>, due) /\ Len(<<>>) + Len(<<>>) = 0
  BY <1>11, ContinuesNothing, SMT
<1>15. Collects'
  BY <1>3, <1>5, <1>10, <1>12, <1>13, <1>14, SMT DEF Collects
<1> QED
  BY <1>9, <1>15 DEF ResultInv

\* Options and bound parameters do not touch a result that is being read.
LEMMA ResultOptions ==
  ASSUME ResultInv, HandleInv',
         \/ StatementNew \/ SetTargetTable
         \/ \E q \in Queries : SetSqlQuery(q)
         \/ \E append \in BOOLEAN : SetMode(append)
         \/ \E n \in BatchSizes : SetBatchRows(n)
         \/ \E ps \in Bindings : Bind(ps)
         \/ BindFails
  PROVE  ResultInv'
<1>1. call' = call /\ readers' = readers /\ vm' = vm /\ call.op = "none"
  <2>1. NoCall.op = "none"
    BY DEF NoCall
  <2> QED
    BY <2>1 DEF StatementNew, SetTargetTable, SetSqlQuery, SetMode, SetBatchRows,
                SetOption, Bind, BindFails, Idle
<1>2. binder' = binder \/ \A r \in Readers : ~readers[r].binder
  BY DEF StatementNew, SetTargetTable, SetSqlQuery, SetMode, SetBatchRows,
         SetOption, Bind, BindFails
<1>3. Results' /\ Active' /\ AtStart' /\ OneActive'
  BY <1>1 DEF ResultInv, Results, Active, AtStart, OneActive
<1>4. Waiting'
  BY <1>1, <1>2, ZenonT(30) DEF ResultInv, Waiting, StandsAt
<1>5. Collects'
  BY <1>1 DEF Collects
<1> QED
  BY <1>3, <1>4, <1>5 DEF ResultInv

\* A call on one stream leaves the others where they stand.
LEMMA ResultStreams ==
  ASSUME ResultInv, HandleInv', ~Abandons, NEW r \in Readers,
         NextInitial(r) \/ NextEnd(r) \/ NextLoop(r) \/ ReleaseReader(r)
  PROVE  ResultInv'
<1>1. /\ readers \in [Readers -> ReaderType] /\ readers[r] \in ReaderType
      /\ \A s \in Readers : readers[s].ended # "no" => readers[s].done
      /\ \A s, q \in Readers : readers[s].binder /\ readers[q].binder => s = q
  BY DEF ResultInv, HandleInv, ReportInv, Types, Streams
<1>2. Results /\ Active /\ Waiting /\ AtStart /\ OneActive
  BY DEF ResultInv
<1>3. readers[r].open /\ call = NoCall /\ vm' = vm
  BY DEF NextInitial, NextEnd, NextLoop, ReleaseReader, Idle
<1>4. NoCall.op = "none" /\ ~NoReader.open
  BY DEF NoCall, NoReader
<1>5. /\ readers[r].got \in Seq(RowValues) /\ readers[r].due \in Seq(RowValues)
      /\ readers[r].batch # None => readers[r].batch \in Seq(RowValues)
      /\ Delivers(readers[r])
      /\ ~readers[r].done /\ Regular(readers[r].due) =>
           StandsAt(vm, binder, Len(readers[r].got) + Len(Kept(readers[r])),
                    readers[r].binder, readers[r].due)
  BY <1>1, <1>2, <1>3, <1>4 DEF ReaderType, Results, Waiting
<1>6. ASSUME \A s \in Readers : s # r => readers'[s] = readers[s],
             call' = NoCall, readers'[r].open => Delivers(readers'[r]),
             readers'[r].open /\ readers'[r].ended = "no" => readers[r].ended = "no",
             \/ /\ binder' = binder
                /\ readers'[r].done = readers[r].done
                /\ readers'[r].binder = readers[r].binder
                /\ readers'[r].due = readers[r].due
                /\ readers'[r].open
                /\ \/ readers[r].done
                   \/ Len(readers'[r].got) + Len(Kept(readers'[r]))
                        = Len(readers[r].got) + Len(Kept(readers[r]))
             \/ /\ binder' = binder \/ readers[r].binder
                /\ readers[r].done /\ ~readers'[r].open
      PROVE  ResultInv'
  <2>1. Results'
    BY <1>2, <1>6 DEF Results
  <2>2. \A s \in Readers :
          readers'[s].open /\ ~readers'[s].done => readers[s].open /\ ~readers[s].done
    BY <1>3, <1>6
  <2>3. Active'
    BY <1>2, <1>3, <2>2 DEF Active
  <2>4. \A s \in Readers :
          readers[s].open /\ ~readers[s].done => readers'[s].open /\ ~readers'[s].done
    BY <1>3, <1>6
  <2>5. AtStart'
    BY <1>2, <1>3, <1>4, <1>6, <2>4 DEF AtStart
  <2>6. \A s \in Readers :
          /\ readers'[s].open => readers[s].open
          /\ readers'[s].open /\ readers'[s].ended = "no" => readers[s].ended = "no"
    BY <1>3, <1>6
  <2>7. OneActive'
    BY <1>2, <2>6 DEF OneActive
  <2>8. Collects'
    BY <1>4, <1>6 DEF Collects
  <2>9. ASSUME NEW s \in Readers, readers'[s].open, ~readers'[s].done, Regular(readers'[s].due)
        PROVE  StandsAt(vm', binder', Len(readers'[s].got) + Len(Kept(readers'[s])),
                        readers'[s].binder, readers'[s].due)
    <3>1. CASE s = r
      BY <1>3, <1>5, <1>6, <2>9, <3>1
    <3>2. CASE s # r
      <4>1. readers'[s] = readers[s]
        BY <1>6, <3>2
      <4>2. StandsAt(vm, binder, Len(readers[s].got) + Len(Kept(readers[s])),
                     readers[s].binder, readers[s].due)
        BY <1>2, <1>3, <1>4, <2>9, <4>1 DEF Waiting
      <4>3. binder' = binder \/ ~readers[s].binder
        BY <1>1, <1>6, <3>2
      <4> QED
        BY <1>3, <4>1, <4>2, <4>3 DEF StandsAt
    <3> QED
      BY <3>1, <3>2
  <2>10. Waiting'
    BY <2>9 DEF Waiting
  <2> QED
    BY <2>1, <2>3, <2>5, <2>7, <2>8, <2>10 DEF ResultInv
<1>7. CASE NextInitial(r)
  <2> DEFINE d == [readers[r] EXCEPT !.got = @ \o readers[r].batch, !.batch = None]
  <2>1. /\ readers'[r] = d /\ readers[r].batch # None
        /\ \A s \in Readers : s # r => readers'[s] = readers[s]
        /\ call' = NoCall /\ binder' = binder
    BY <1>1, <1>3, <1>7 DEF NextInitial
  <2>2. /\ d.open = readers[r].open /\ d.ended = readers[r].ended
        /\ d.done = readers[r].done /\ d.binder = readers[r].binder
        /\ d.due = readers[r].due /\ d.got = readers[r].got \o readers[r].batch
        /\ d.batch = None
    BY <1>1 DEF ReaderType
  <2> HIDE DEF d
  <2>3. Kept(d) = <<>> /\ Kept(readers[r]) = readers[r].batch /\ Len(<<>>) = 0
    BY <2>1, <2>2 DEF Kept
  <2>4. /\ Len(d.got) = Len(readers[r].got) + Len(readers[r].batch)
        /\ Len(d.got) \in Nat
    <3>1. readers[r].got \in Seq(RowValues) /\ readers[r].batch \in Seq(RowValues)
      BY <1>5, <2>1
    <3> DEFINE got == readers[r].got
    <3> DEFINE batch == readers[r].batch
    <3>2. got \in Seq(RowValues) /\ batch \in Seq(RowValues) /\ d.got = got \o batch
      BY <2>2, <3>1
    <3> HIDE DEF got, batch
    <3>3. Len(got \o batch) = Len(got) + Len(batch) /\ Len(got \o batch) \in Nat
      BY <3>2, SMT
    <3> QED
      BY <3>2, <3>3 DEF got, batch
  <2>5. Len(d.got) + Len(Kept(d)) = Len(readers[r].got) + Len(Kept(readers[r]))
    BY <2>3, <2>4, SMT
  <2>6. Regular(d.due) => Continues(d.got, Kept(d), d.due)
    <3>1. Regular(d.due) => Continues(readers[r].got, readers[r].batch, readers[r].due)
      BY <1>5, <2>2, <2>3 DEF Delivers
    <3>2. readers[r].batch \in Seq(RowValues)
      BY <1>5, <2>1
    <3> QED
      <4>1. ASSUME Regular(d.due)
            PROVE  Continues(readers[r].got \o readers[r].batch, <<>>, readers[r].due)
        BY <1>5, <3>1, <3>2, <4>1, ContinuesJoin
      <4> QED
        BY <2>2, <2>3, <4>1
  <2>7. Delivers(d)
    BY <1>5, <2>2, <2>5, <2>6 DEF Delivers
  <2> QED
    BY <1>3, <1>6, <2>1, <2>2, <2>5, <2>7
<1>8. CASE NextEnd(r)
  <2> DEFINE d == [readers[r] EXCEPT !.ended = IF @ = "no" THEN "end" ELSE @]
  <2>1. /\ readers'[r] = d /\ readers[r].batch = None /\ readers[r].done
        /\ \A s \in Readers : s # r => readers'[s] = readers[s]
        /\ call' = NoCall /\ binder' = binder
    BY <1>1, <1>3, <1>8 DEF NextEnd
  <2>2. /\ d.open = readers[r].open
        /\ d.ended = (IF readers[r].ended = "no" THEN "end" ELSE readers[r].ended)
        /\ d.done = readers[r].done /\ d.binder = readers[r].binder
        /\ d.due = readers[r].due /\ d.got = readers[r].got
        /\ d.batch = readers[r].batch
    BY <1>1 DEF ReaderType
  <2> HIDE DEF d
  <2>3. d.ended # "no" /\ (d.ended # "error" => readers[r].ended # "error")
    BY <2>2
  <2>4. Delivers(d)
    BY <1>5, <2>1, <2>2, <2>3 DEF Delivers, Kept
  <2> QED
    BY <1>3, <1>6, <2>1, <2>2, <2>3, <2>4
<1>9. CASE ReleaseReader(r)
  <2>1. /\ readers'[r] = NoReader /\ readers[r].ended # "no"
        /\ \A s \in Readers : s # r => readers'[s] = readers[s]
        /\ call' = NoCall /\ (binder' = binder \/ readers[r].binder)
    BY <1>1, <1>3, <1>9 DEF ReleaseReader
  <2>2. readers[r].done
    BY <1>1, <2>1
  <2> QED
    BY <1>4, <1>6, <2>1, <2>2
<1>10. CASE NextLoop(r)
  <2>1. /\ readers[r].batch = None /\ ~readers[r].done
        /\ readers' = readers /\ binder' = binder
    BY <1>10 DEF NextLoop
  <2> DEFINE c == [op |-> "next", reader |-> r, rows |-> <<>>, due |-> <<>>,
                   bound |-> readers[r].binder, size |-> readers[r].size, count |-> 0]
  <2>2. call' = c \/ call' = NoCall
    BY <1>10 DEF NextLoop
  <2>3. /\ c.op = "next" /\ c.reader = r /\ c.bound = readers[r].binder /\ c.rows = <<>>
    OBVIOUS
  <2> HIDE DEF c
  <2>4. Results' /\ Active' /\ OneActive'
    BY <1>2, <1>3, <2>1 DEF Results, Active, OneActive
  <2>5. AtStart'
    BY <1>2, <1>3, <1>4, <2>1 DEF AtStart
  <2>6. Waiting'
    BY <1>2, <1>3, <1>4, <2>1 DEF Waiting
  <2>7. Collects'
    <3>1. CASE call' = c
      <4>1. LoopGot' = readers[r].got /\ LoopDue' = readers[r].due
        BY <2>1, <2>3, <3>1 DEF LoopGot, LoopDue
      <4>2. Kept(readers[r]) = <<>>
        BY <2>1 DEF Kept
      <4>3. Regular(readers[r].due) =>
              Continues(readers[r].got, <<>>, readers[r].due)
        BY <1>5, <4>2 DEF Delivers
      <4>4. Regular(readers[r].due) =>
              StandsAt(vm, binder, Len(readers[r].got) + Len(<<>>), readers[r].binder,
                       readers[r].due)
        BY <1>5, <2>1, <4>2
      <4> QED
        BY <1>3, <2>1, <2>3, <3>1, <4>1, <4>3, <4>4 DEF Collects
    <3>2. CASE call' = NoCall
      BY <1>4, <3>2 DEF Collects
    <3> QED
      BY <2>2, <3>1, <3>2
  <2> QED
    BY <2>4, <2>5, <2>6, <2>7 DEF ResultInv
<1> QED
  BY <1>7, <1>8, <1>9, <1>10

LEMMA ResultStep ==
  ASSUME Faults \cap {"value", "other"} = {}, ~Abandons
  PROVE  ResultInv /\ [Next]_vars => ResultInv'
<1> SUFFICES ASSUME ResultInv, [Next]_vars PROVE ResultInv'
  OBVIOUS
<1>1. HandleInv'
  <2>1. "value" \notin Faults
    OBVIOUS
  <2> QED
    BY <2>1, HandleStep DEF ResultInv
<1>2. CASE Next
  BY <1>1, <1>2, ResultOptions, ResultCalls, ResultExecute, ResultLoops, ResultStreams DEF Next
<1>3. CASE UNCHANGED vars
  <2>1. Results' /\ Active' /\ Waiting'
    BY <1>3 DEF vars, ResultInv, Results, Active, Waiting
  <2>2. Collects'
    BY <1>3 DEF vars, ResultInv, Collects, LoopGot, LoopDue
  <2>3. AtStart' /\ OneActive'
    BY <1>3 DEF vars, ResultInv, AtStart, OneActive
  <2> QED
    BY <1>1, <2>1, <2>2, <2>3 DEF ResultInv
<1> QED
  BY <1>2, <1>3

LEMMA DeliveredIsFaithful == ResultInv => ResultIsFaithful
<1> SUFFICES ASSUME ResultInv, NEW r \in Readers, readers[r].open, Regular(readers[r].due)
             PROVE  /\ IsPrefixOf(readers[r].got, readers[r].due)
                    /\ readers[r].ended = "end" => readers[r].got = readers[r].due
  BY DEF ResultIsFaithful
<1>1. /\ readers[r].got \in Seq(RowValues) /\ readers[r].due \in Seq(RowValues)
      /\ Kept(readers[r]) \in Seq(RowValues)
      /\ readers[r].ended # "no" => readers[r].done
  BY SMT DEF ResultInv, HandleInv, ReportInv, Types, Streams, ReaderType, Kept
<1>2. /\ Continues(readers[r].got, Kept(readers[r]), readers[r].due)
      /\ readers[r].ended # "no" => readers[r].batch = None
      /\ readers[r].ended # "error" /\ readers[r].done =>
           Len(readers[r].got) + Len(Kept(readers[r])) = Len(readers[r].due)
  BY DEF ResultInv, Results, Delivers
<1>3. /\ Len(readers[r].got) \in Nat /\ Len(readers[r].due) \in Nat
      /\ Len(Kept(readers[r])) \in Nat
  BY <1>1, SMT
<1>4. IsPrefixOf(readers[r].got, readers[r].due)
  BY <1>1, <1>2, ContinuesIsPrefix
<1>5. ASSUME readers[r].ended = "end"
      PROVE  readers[r].got = readers[r].due
  <2>1. Kept(readers[r]) = <<>>
    BY <1>2, <1>5 DEF Kept
  <2>2. Len(readers[r].got) = Len(readers[r].due)
    BY <1>1, <1>2, <1>3, <1>5, <2>1, SMT
  <2> QED
    BY <1>1, <1>2, <2>2, ContinuesIsPrefix
<1> QED
  BY <1>4, <1>5

\* If a step fails only with an error that sqlite3_step reports as such, every
\* value fits its column, and callers read a stream to its end before they
\* release it, then a stream delivers the rows of its query for the parameters
\* it was executed with, as BindNext converts them, in their order and without a
\* gap, and all of them when it says that it has ended: for any queries,
\* parameters that each yield one row, batch sizes and any number of streams one
\* after another on the same statement.
THEOREM ResultsAreFaithful ==
  ASSUME Faults \cap {"value", "other"} = {}, ~Abandons
  PROVE  Spec => []ResultIsFaithful
<1>1. ResultInv /\ [Next]_vars => ResultInv'
  BY ResultStep
<1> QED
  BY ResultInit, DeliveredIsFaithful, <1>1, PTL DEF Spec
=============================================================================
