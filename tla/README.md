# A TLA+ model of arrow-adbc

ADBC is an API for databases that returns results as Arrow data. The repository
holds the C API (`src/adbc.h`), a driver manager that loads drivers, three
drivers (SQLite in C, PostgreSQL in C++, Flight SQL in Go, which is also
exported to C), and bindings for Go, Python, R, GLib, Ruby and Java.

This directory models the parts in which correctness depends on the order in
which things happen: who owns a handle, what a transaction contains, what a
result stream delivers, and what is reported when a step in the middle fails.

Contents: [the system](#the-system), [the modules](#the-modules),
[the runs](#the-runs), [the proofs](#the-proofs),
[what the code is assumed not to meet](#assumptions-about-callers-and-servers),
[what is not modelled](#what-is-not-modelled).

To run: `tlc -config <cfg> <MC module>` for a run, `tlapm <module>` for the
proofs. `PROJECT.json` lists the runs, maps every definition to its source
lines, and gives for each property a mutation of the model that breaks it.

## The system

| part | source | modules | what makes it hard |
|---|---|---|---|
| C API | `adbc.h` | `Transactions` | the protocol of a handle's life; what autocommit promises |
| Driver manager | `c/driver_manager/adbc_driver_manager.cc` | `DriverTable`, `DriverManager` | a pointer that is the manager's before Init and the driver's after it; failures half-way |
| R package and its test drivers | `r/adbcdrivermanager/src/`, `R/adbc.R` | `RBindings` | finalizers in the order of the garbage collector; who releases a bound stream |
| GLib bindings | `glib/adbc-glib/` | `GLibBindings` | references given up in any order; failed inits |
| Python bindings | `python/adbc_driver_manager/` | `PyHandles` | threads that clone and close at once, two counts for one database |
| SQLite database | `c/driver/sqlite/sqlite.c` | `SqliteDatabase` | an in-memory database that lives as long as someone has it open |
| SQLite connection | `sqlite.c` | `SqliteFile`, `SqliteConnection` | two copies of one fact; calls of two queries; waiting for locks |
| SQLite statement and stream | `sqlite.c`, `statement_reader.c` | `SqliteStatement` | the stream shares the statement's `sqlite3_stmt` and parameters |
| SQLite type inference | `statement_reader.c` | `SqliteInference` | buffers that are rewritten when a wider value comes |
| SQLite catalog | `sqlite.c`, `utils.c` | `SqliteCatalog` | three levels of lists filled through append calls |
| PostgreSQL driver | `c/driver/postgresql/` | `PostgresConnection`, `PostgresTuple`, `PostgresStatement` | one COPY per connection, binary tuples, sessions that end |
| Flight SQL connection and statement | `go/adbc/driver/flightsql/` | `FlightSqlSession` | requests and answers get lost |
| Flight SQL result reader | `record_reader.go` | `RecordReader`, `RecordStream` | goroutines, cancellation, closing of channels |

The parts interact in a chain: a binding calls the driver manager, which calls
a driver, which calls its database; a result stream comes back through the
chain and outlives the call that made it. Two of these links are composed:
`RBindings` and `GLibBindings` extend `DriverManager` and call its actions, so
that what a binding does is what the manager then does. What matters to a
caller is stated once, in abstract modules, and the drivers are shown to
implement it: `Transactions` is the contract of connections (implemented by
all three drivers), `RecordStream` that of a result.

### Properties looked for

- A handle is never used as what it is not, nothing is released under someone
  who uses it, and nothing is leaked (manager, R, GLib, Python).
- Options that were accepted reach the driver (manager).
- With autocommit disabled nothing takes effect before a commit; otherwise
  every update does at once (three drivers, one contract).
- What the caller was told (committed, rolled back, executed, inserted) is so,
  also when a step in the middle failed or an answer was lost.
- A result that ends without an error is complete, in order and with every
  value intact; an error is never lost (three streams).
- Everything that was retained is released exactly once; calls return.

## The modules

Each module begins with a comment that says what its state stands for.

### RecordReader, RecordStream

`RecordReader` is `record_reader.go`. The control states are:

| variable | code | values |
|---|---|---|
| `gpc[e]` | goroutine of endpoint e, lines 125-149 | `doGet`, `next` (rdr.Next), `check` (ctx.Err), `send`, `return`, `exit` (deferred close) |
| `wpc` | goroutine 152-157 | `wait` (group.Wait), `close` |
| `cpc` | the caller | `idle`, `recv` (in Next), `drain` (in Release), `released` |

The channels `chan` and `closed` are Go's: a receive from a closed channel gets
what is left, a send to it is a panic, and so is a second close. The gRPC
streams are external: `DoGet` and `RdrNext` succeed, end or fail as they like,
and must fail eventually once the context is cancelled. `live` counts what was
retained. `Chs` and `Slot` keep the arithmetic of lines 105-124, where the slice of
endpoints is shortened and the slots of `chs` are not.

`RecordStream` is what a caller may rely on: partitions in order, records of a
partition in order, and a verdict `complete`, only if nothing was lost, or
`error`. `RecordReader` is checked to implement it.

### DriverTable, DriverManager

`DriverManager` is the manager's handling of the three handles. A pointer is
the object it points to, `heap` is the set of allocated objects, and `fault`
becomes true when the manager follows a pointer to an object that is gone or
of another kind, or calls a null function of the driver's table. `DriverTable`
has the functions of that table, which are required and which get a stub.
Every driver function is external and may fail if it is in `Failures`. A call
is a step: ADBC objects are not shared between threads
(`docs/source/cpp/concurrency.rst`). Calls that the manager only forwards are
one action per handle, `ConnectionCall` and `StatementCall`, over the set of
functions.

### RBindings, GLibBindings, PyHandles

`RBindings` adds to the manager what R adds: external pointers with
finalizers (`made`, and for each the `older` ones), the R variables (`held`), the pointers that
a pointer keeps alive through its environment (`tag`) and its protected value
(`prot`), and a garbage collector that finalizes whatever cannot be reached.
`owners` says who is to release a bound stream; `MonkeyDriver` is the
package's driver that hands the bound stream out again.

`GLibBindings` has reference counts, the program's references, `priv->initialized` and
the reference of a child to its parent. `Unref` starts the disposal of an
object, which runs up the chain before the program goes on. `crashed` says
that a handle was released under its users or that `gadbc_error_check` called
the release function of an error that nobody had set.

`PyHandles` is the DB-API layer on `_lib.pyx`: each connection has a thread,
and `close` is five steps (`ReleaseConnection`, `CloseChild`, `Dec`,
`CheckOpenChildren`, `ReleaseDatabase`), a clone four. Each step is one
critical section of the code or one call. The database is counted twice, by
`_SharedDatabase._refcount` (`count`) and `AdbcDatabase._open_children`
(`children`); neither count is right all the time.

### Transactions, SqliteFile, SqliteConnection

`SqliteConnection` has one thread per connection and one step per
`sqlite3_step` of the helper `ExecuteQuery`, so that COMMIT of one connection
interleaves with reads and writes of another. SQLite is external (`SqliteFile`) and modelled
as a rollback-journal database: a shared lock while reading, one reserved lock
for the writer, a pending lock while COMMIT waits for readers. `acked` and
`undone` record what callers were told. `Transactions` says what connections
promise: `manual`, `pending` and `durable` map to `active_transaction`, the
rows of the open transaction and the file.

### SqliteStatement

`SqliteStatement` is one statement and the streams it exports. A stream steps
the statement's `sqlite3_stmt` (`vm`) and takes parameters from its binder. A
result row is `<<q, p, i>>`, so that the model can tell which query, which
parameters and which row a delivered row is; types and values are those of
`SqliteInference`. The loops over rows are one step per row (`ReaderRow`, `UpdateTurn`,
`IngestTurn`), and `BindNext`, `Steps` say what the binder and `sqlite3_step` do.
The ghosts `given` and `due` are what the caller has bound
and what the result has to be; they are computed from the calls, not from the
driver's state.

### SqliteInference, SqliteCatalog, SqliteDatabase

`SqliteInference` is the typing of a result. A buffer is a sequence of cells
with a capacity in bytes; a cell names the row it came from and the
conversions it went through (`<<"int", "double", "%e">>`), and a text is as
many cells as it has characters, so that a wrong offset shows as a text with
another row's cells. `InferRow` is one row of the first batch with the three
upcasts, `ReadRow` a row of a later one.

`SqliteCatalog` is GetObjects, GetInfo, GetTableSchema and GetTableTypes. A
builder has a sequence per leaf, the offsets of each list and the length of
each struct, `FinishStruct` checks what nanoarrow checks (children of equal
length), and the answer is decoded from the offsets and compared with one
that is defined from the tables directly. GetTableSchema uses the
definitions of `SqliteInference`. The functions are operators evaluated in one step;
the streams that carry the answers are two actions.

`SqliteDatabase` is New, SetOption, Init and Release of databases and
connections by URI, with SQLite's rule that a shared in-memory database goes
with the last `sqlite3*` that has it open.

### PostgresConnection, PostgresTuple, PostgresStatement

`PostgresConnection` has the driver's fields (`database`, `conn`,
`autocommit`), the server's session (`txn`, `wrote`, `table`) and what callers
were told (`asked`, `acked`, `undone`). The server may end a session at any
time, and may commit without the answer arriving.

`PostgresTuple` has the type mapping, the schema of a result, the parameter
types, and `AppendNext`, which decodes a COPY message byte by byte the way
`TupleReader` moves its cursor: a byte is known by what it is a part of, and a
value read from the wrong bytes is `Garbage`.

`PostgresStatement` has the statements with their one `TupleReader` each, the
streams exported so far, libpq's COPY per connection (`copy`: unread messages
and how it ends) and the execution of bound rows, which is a step per row
(`ExecuteRow`), so that the session can end between two of them.

### FlightSqlSession

`FlightSqlSession` is `cnxn` and `statement` of the Go driver with the server:
a method is one step, and every RPC in it may be refused or executed with its
answer lost (`Faults`); the driver sees the same error. `txns`, `staged`,
`durable` and `handles` are the server's. Row updates are staged in the
transaction under which the server prepared or executed them, which is not
always the connection's current one. The module implements `Transactions` as
well.

## The runs

An MC module with a variable `scenario`, chosen at the start and never
changed, puts several questions about one part of the system into one run.

| run | scenarios | checks | distinct states |
|---|---|---|---|
| `reader` | | `CompleteOrError`, `Ownership`, `ReleaseIsFinal`, `NoPanic`, `ReleaseReturns`, `NextReturns`, `InOrder`, and that the reader implements `RecordStream` | 275,408 |
| `manager` | `handles`, `memory`, `R`, `glib`, `python` | `NoFault`, `DriverOutlives`, `OptionsReachDriver`, `NothingLost`; `FinalizersInOrder`, `StreamsHaveOneOwner` (R); `UnrefIsSafe` (GLib); `DatabaseOutlives`, `LastCloseReleases` (Python) | 967,722 |
| `sqlite_transactions` | `contract`, `returns` | `FlagKept`, `ReportsAreTrue`, `CallsReturn`, and that the connections implement `Transactions` (`ContractKept`) | 51,876 |
| `sqlite_statement` | statements, inference, catalog, databases | `ResultIsFaithful`, `ReportIsTrue`, `NoFault`; `CellsAreFaithful`, `NoOverrun`; `AnswersAreTrue`; `MemoryOutlivesConnections` | 303,671 |
| `flight` | `reports`, `contract` | `ReportsAreTrue`, `RunsLatest`; `NothingIsLost`, and that the connections implement `Transactions` (`ContractIsKept`) | 408,475 |
| `postgres_driver` | `lives`, `results`, `rows` | `CountAgrees`, `ReportsAreTrue`, `StreamIsFaithful`, `NoFault`, `AffectedIsTrue`, and that the connections implement `Transactions` | 326,123 |
| `reader_schemaless`, `glib_unref`, `sqlite_deferred`, `sqlite_parameter_rows`, `postgres_chained`, `postgres_cut` | | one property each, violated; see below | |

`TypeOK` of `RecordReader` and `SqliteConnection`, which the proofs use, is in
their runs. The type invariants of the other modules hold in the same
instances but are not part of the runs.

What the passing runs show, in the words of a caller:

- *Manager.* Whichever driver function fails, the manager casts no pointer to
  what it is not, no option is lost between a failed load and the next Init,
  and the memory it allocates is what the handles refer to. R programs may
  drop objects in any order and GLib programs may unreference them in any
  order. In Python, threads that clone and close connections at the same time
  never release the database under one of them, even if a connection is
  closed twice; if each is closed once, the last one releases it.
- *SQLite.* The stream delivers the result of the query and parameters it was
  made for. A column gets the least type that holds the first batch, in
  whatever order the values come, and every element is the value of its own
  row. The catalog answers are exactly the tables and columns that the filters
  select. What was written to an initialized in-memory database is there until it is
  released.
- *PostgreSQL.* A stream ends cleanly only after the whole result, also when
  the session ends in the middle of COPY; after a failure in the middle of a
  bulk ingestion nobody is told of rows that are not there.
- *Flight SQL.* Whatever RPC fails or answer is lost, what was reported as
  committed is, and what was reported as rolled back is not.

### The six disagreements

- `reader_schemaless`. When the FlightInfo has no schema, `newRecordReader`
  reads it from the first endpoint and shortens `endpoints`, but not `chs`: the
  channel of the first endpoint is overwritten, the last slot stays nil, and
  Next waits for ever.
- `glib_unref`. `gadbc_connection_init` takes its reference to the database
  only when AdbcConnectionInit succeeds, but a failed one has already put the
  driver into the handle. A program that gives up the database first then
  releases the connection with a driver that is gone.
- `sqlite_deferred`. `ExecuteQuery` steps until SQLITE_DONE or SQLITE_ERROR.
  COMMIT of a transaction that violates a deferred constraint answers
  SQLITE_CONSTRAINT each time, and the call never returns.
- `sqlite_parameter_rows`. The loops over the rows of a result bind the next
  row of parameters before each `sqlite3_step`, which resets the statement: a
  query with parameters yields at most one row for each of them, and the
  stream then ends as if it were complete.
- `postgres_chained`. Commit and Rollback begin no new transaction although
  autocommit stays disabled: the next update takes effect at once.
- `postgres_cut`. When the session ends after ExecuteQuery and before the first
  get_next, PQgetCopyData answers with a negative size and a null buffer; the
  comparison with an unsigned constant lets it pass, and the null pointer is
  read.

### Bounds

- Reader: up to three endpoints (a first, a middle and a last one), two records
  each and one slot in a channel, so that a sender blocks with a record in hand
  while one is queued; two references. With three endpoints the caller keeps
  one reference and does not cancel (`Within`).
- Manager: two connections and two statements, so that one is released while
  the other is in use, one option key and two values (an option set twice), and
  drivers with all functions, with the required ones only, and with one
  missing. With every failure at most one statement is in use at a time, and
  an R program makes one connection (`Within`): the second would only repeat
  what the first does.
- Python: three connections, so that one clones while one closes and a third
  is open; two cursors; two closes of each connection.
- SQLite connections: two, with three rows of which one violates a deferred
  constraint; three parties to a lock behave like two, since one holds and the
  others wait.
- SQLite statement: two streams, a query of two rows without parameters and one
  with, parameter sequences of none and two rows, one of them with a row that
  cannot be bound, and batches of one, two and three rows: a batch ends before,
  at and after the end of a result.
- SQLite inference: two columns and three rows of the six kinds of value, with
  first batches of one and two rows: two upcasts in a batch, and values of a
  later batch that fit and do not. GetTableSchema's 64 rows are `SchemaRows`, 2
  in the run, of tables of up to three rows.
- SQLite catalog: four databases with tables, a view, an index and a table with
  keys, and all combinations of depth and filters.
- PostgreSQL: two connections, two statements, two rows and the row that stands
  for CREATE TABLE; a result with two tuples of four columns, one of two
  columns and one of a type without an Arrow type; parameters in one
  batch of two rows, in two batches that then break off, and of a type that the
  driver refuses. `MaxExecutions` bounds the streams a statement exports, which
  is where a behaviour may stop, so deadlock is not checked there.
- Flight SQL: three transactions and two prepared statements of the server, two
  rows; one connection with every fault, two with the ones after which the
  driver can know what happened.

Symmetry is used for handles, rows, transactions and streams, and in no run
with liveness. The guards `Within` speak of how many handles are in use, not
of which, so that symmetry stays sound.

### Fairness

- Go runs a goroutine that can run; a gRPC call whose context was cancelled
  returns. That is all `ReleaseReturns` needs. `NextReturns` has the further
  premise that the server answers.
- A thread inside an SQLite call keeps running. Callers read a result to its
  end whatever else they do (strong fairness: other calls may intervene), and
  end a transaction in which they hold a lock. Without that COMMIT waits for a
  reader that never finishes, which SQLite's locking implies and the driver
  cannot change.

Deadlock is checked in every run but `reader_schemaless`, which is about one,
and the PostgreSQL ones.

## The proofs

TLAPS checks these for every value of the constants. Where a run checks the
same definition, `PROJECT.json` names it with the theorem. The other theorems
state properties that the runs check under another name, for one of the
scenarios (`FlagCorrect` and `FlagKept`, `ImplementsContract` and
`ContractKept`, `NothingLeaks` and `NothingLost`, `ServerIsClean` and
`NothingIsLost`, `ContractHolds` and `ContractIsKept`), or that no run lists any
more (`ErrorsAreReported`, `PartitionsInOrder`, `ConnectionFieldsAgree`). Leaves
are Zenon's unless they name SMT.

### RecordReaderProofs

For any number of endpoints, records, buffer slots and references, provided
that FlightInfos without a schema have at most one endpoint (`Handled`):
`TypeCorrect`, `PanicFree`, `NoSilentTruncation` (`CompleteOrError`),
`ErrorsAreReported` (`FailureReported`), `RecordsAreOwned` (`Ownership`),
`ReleaseLeavesNothing` (`ReleaseIsFinal`), `PartitionsInOrder`,
`DeliveryInOrder` (`InOrder`), and `ReaderIsStream` (`ImplementsStream`), the
refinement of `RecordStream`.

The properties speak of the caller's end of the channels and none is inductive.
`IInv` adds what connects the two ends: `Born` (which goroutines exist),
`Streams` (what a goroutine's position says about its stream, and that a record
read and not sent means a cancelled context), `Group` (the group's error is
that of a failed goroutine, and `reader.err` is it once the waiter is past
`group.Wait`), `Closing` (exactly who has closed which channel), `Contents`
(channel e holds consecutive records, the last ones sent, and received plus
queued is sent), `Position` (channels the caller has passed are closed and
empty) and `Retained` (the live records, as an interval). One lemma for each
action, or group of actions that leave the same parts alone, shows that `IInv` is
kept.

For the refinement, `Simulated` says that a step is one of the stream or changes
nothing that `Verdict` and the mapping show: the goroutines are hidden, a
receive is a delivery, and leaving the last channel is the end, with an error
exactly if a partition is incomplete (`EndIsWhole`). The mapping picks the last
partition that delivered; that there is one, once something was delivered, is
an invariant of its own (`HasLast`).

### DriverManagerProofs

*The manager.* For any handles, options and failing functions, and drivers that
set `StatementBindStream` (`BindStreams`): `HandleInvariance`, `CastsAreRight`
(`NoFault`), `DriverLives` (`DriverOutlives`), `ConnectionFieldsAgree`
(`FieldsAgree`), `OptionsArrive` (`OptionsReachDriver`), `NothingLeaks`
(`NoLeak`). The fourth assumes that ConnectionRelease does not fail, the last
that DatabaseNew and DatabaseRelease do not.

`HInv` lists, for each phase of a handle as its caller sees it, what the fields
are and which objects are allocated. It is inductive as it stands; the
lemmas split a step by the handle it is a call on and show that the others are
not touched. Options and memory are proved on top of it.

*The R package.* For any pointers and streams, and any failing functions but
StatementRelease (`StatementsGo`): `FinalizersAreOrdered`
(`FinalizersInOrder`) and `StreamsAreOwned` (`StreamsHaveOneOwner`). `PtrInv`
says that the environment of a pointer (`tag`) keeps the pointer that its
handle was made from, which is older, and that whatever was made from a doomed
pointer is doomed too: a collection finds it so (`ReachedIsClosed`), and
finalizing the one registered last keeps it so, since nothing left was
made from that one (`NothingMadeFrom`). `InPtrs` ties the handles to the
pointers: a connection with a driver, and a statement that was made from a
connection, are in pointers whose finalizers have yet to run. The protected
value (`prot`) is not needed for this; an environment already keeps what it
protects.

### BindingsProofs

*The GLib bindings.* For any finite sets of connections and statements, and
drivers without the failures that `Reliable` lists: `ReferencesAreSafe`
(`UnrefIsSafe`). `RefInv` says that the count of an object is what the program
holds plus the number of its children, so that an object whose last reference
goes has none; `CnHeld` and `StHeld` say that a
connection with a driver has a reference to the database and a statement one
to its connection. The bindings establish the latter only where an Init
or a Release succeeds, which is what `Reliable` is for; `glib_unref` shows
what one of those failures does. As in R, a step of the bindings is a step on
the manager's handles, so `HInv` holds as well.

*The Python bindings.* For any finite set of connections and any number of
cursors and closes (`Sane`): `DatabaseIsSafe` (`DatabaseOutlives`) and
`LastCloseIsEnough` (`LastCloseReleases`). The count that decides,
`_open_children`, is too low while a connection is in the making: the clone
is open and not yet counted. `PyInv` says exactly who is counted (`Counted`),
that a connection in the making has a maker (`PyPhases`, `Makers`) whose own
connection is open and counted meanwhile, and that nobody is live once a
thread has found the count to be zero (`Outlived`). The lower count,
`_refcount`, need not be right for this, which is why closing a connection
twice does no harm to the others. It is what the release needs: `LastInv` says
that it is the number of those who share the database as long as nobody closed
twice (`Regular`), that whoever goes on to close the database is then alone,
and that while it is open somebody is left who will.

### SqliteConnectionProofs

For any number of connections and rows: `TypeCorrect`; `FlagCorrect`
(`FlagAgrees`) and `ImplementsContract` (`TransactionContract`), unless SQLite
rolls back by itself; `ReportsCorrect` (`ReportsAreTrue`) with automatic
rollbacks too.

`FlagAgrees` holds between calls only, so `FlagInv` says for each call and each
of its queries what flag and transaction are meanwhile. It suffices for the
refinement: each step maps to a step of `Transactions` or a stutter.
`ReportInv` adds where the rows of the call in progress are: in the transaction
before COMMIT or ROLLBACK took place, in the file or nowhere while BEGIN is
executed.

`MemoryIsKept` (`MemoryOutlivesConnections`) is about `SqliteDatabase`, for any
number of databases, connections and entries. `KeptInv` adds that the
`sqlite3*` of an initialized database is open on the URI of its Init, whatever
its option says since; so no Release of another handle is the last on that URI.

### SqliteStatementProofs

For any queries, parameters, batch sizes and number of streams: `ReportsAreTrue`
(`ReportIsTrue`); `StreamsAreSafe` (`NoFault`), if every value fits the type of
its column (`"value" \notin Faults`); `ResultsAreFaithful` (`ResultIsFaithful`),
if also a failing step says so (`"other" \notin Faults`) and callers read a
stream to its end (`~Abandons`). TLC finds counterexamples to the last two
without these assumptions, which are the ones listed under SQLite statement
below.

The invariants are in three layers. `ReportInv` relates the rows executed so
far, what is left in the binder and what the caller has given (`Progress`),
while an update runs row by row. `HandleInv` adds who uses the one
`sqlite3_stmt` and the one binder: what is executed is alone with them
(`Alone`), the stream being read is open and has not ended (`Reading`), and a
stream with parameters has the binder for itself (`Streams`). `ResultInv`
relates a stream to the position of the `sqlite3_stmt`: what was delivered and
what is in the batch continue each other within the result (`Results`,
`Collects`), the `sqlite3_stmt` and the binder stand right behind them, also
between two calls (`Waiting`), a statement that nobody reads is at its start
(`AtStart`), and only one result is being read (`OneActive`).

### PostgresProofs and PostgresReportProofs

For any finite set of connections and any number of statements, rows and
parameters, with every failure of the model: `CountIsRight` (`CountAgrees`);
and for callers that set autocommit again after a commit or rollback
(`"chained" \notin Habits`) `ImplementsContract` (`TransactionContract`) and
`ReportsStayTrue` (`ReportsAreTrue`). Batches of parameters are assumed to be
non-empty (`BindingsAssumption`).

For transactions, `PostgresProofs` reduces a step of a statement to what it does to its
connection: COPY, streams and tuples play no part in these theorems. `TxnInv`
says for each connection how `autocommit` and the server's session belong
together (`Mode`), that the row an execution is at is one of its batch
(`CallTypes`) and that it may write where it is (`Turns`); each step is then a
step of `Transactions` or a stutter. The sessions are counted with the
cardinality theorems of the library.

`PostgresReportProofs` follows a row. While it waits in bound parameters
(`Held`) nobody has written it; while its call runs (`InCall`) at most the
call's own connection has; when the call returns the row is in a transaction
(`Sessions`), in the table, or lost with the session; and what the caller
believes of the transaction (`Asks`) is pending unless a statement has failed.
`RowInv` is needed because `ReportsAreTrue` alone does not say that the rows
reported by a commit are the ones committed. `AffectedStaysTrue`
(`AffectedIsTrue`) needs no assumption: `CountInv` says that a call in progress
has written as many rows as it has counted, plus those of the batch it is in,
and which they are, so that the next row is a new one.

For streams, `PostgresProofs` follows the messages of COPY. `ReadsAreSafe` (`NoFault`)
holds if callers take turns on a connection and the server does not end a
session before the first message of a result is read
(`Habits \cap {"overlap", "cut"} = {}`): a result that was not
read is on its own connection, has a message, and no other statement of that
connection has one (`Unread`). `StreamsStayFaithful` (`StreamIsFaithful`) also
needs that a stream is released before its statement is executed again
(`"late"`) and that rows are of the kind that the reader decodes
(`Decodable`, see the assumptions below): `StreamInv` says for the stream of
each statement what is delivered and, while the result is unread, that the
messages are the whole result or a beginning of it that ends in an error
(`Delivers`). What the byte cursor of `PostgresTuple` makes of one row enters as
`Decodable`; `postgres_driver` decodes its results itself.

### FlightSqlProofs

For any number of connections, statements, transactions, prepared statements
and rows: `ReportsStayTrue` (`ReportsAreTrue`) for all `Faults` and `Habits`;
`LatestRuns` (`RunsLatest`) for callers that do not prepare a statement twice;
`ServerIsClean` (`NothingIsLeft`) if answers that name a transaction or a
prepared statement arrive, closing is not refused (`Traced`) and callers are
`Tidy`; `ContractHolds` (`TransactionContract`) if BeginTransaction succeeds
(`NeverRefused`) and no statement prepared in an earlier transaction is run
(`"keepPrepared"`).

`SessionInv` says that a connection in autocommit mode has no transaction
(`Modes`), that a staged row belongs to one open transaction and was never
reported (`Staging`), and that the transaction of a prepared statement, while
it is open, is its connection's (`Prepared`). The last is what makes an update
through a prepared statement in autocommit mode take effect when it is
reported: its transaction, if it had one, has ended, and the server refuses.
`Latest` says that the caller's query, the driver's and that of the server's prepared
statement are the same, which the failing closes in SetSqlQuery must not break.

The last two theorems share a lemma (`ConnectionMoves`) that reduces the six
operations of a connection, with all that can happen to their requests, to five
things that can happen to its transaction: it stays, ends unheard of, is
replaced, ends for good, or one begins. For the contract no two connections have the
same transaction, and one with autocommit disabled has one (`TxnsDistinct`):
a commit then moves the rows of its own connection and of no other.

### Only model-checked

- Liveness: `ReleaseReturns`, `NextReturns`, `CallsReturn`. The proof system
  does not reason about fairness and ENABLED.
- `SqliteInference` (`CellsAreFaithful`, `NoOverrun`), `SqliteCatalog`
  (`AnswersAreTrue`) and the decoding of a row in `PostgresTuple`. They are folds
  over rows, tables and bytes, and a proof would be by induction over them,
  which the provers cannot do. Recursive operators are out of their reach as
  well; the modules with theorems use none.

## Assumptions about callers and servers

Where the code holds a property only under an assumption, the model has a
constant or a guard for it, and the runs and theorems state it. What happens
without:

Flight SQL reader (`Cancellable`, and the proviso `~parent`)
- A caller's cancellation between `rdr.Next()` and `ctx.Err()`
  (`record_reader.go:142`) drops a record while `rdr.Err()` is nil: the stream
  ends without an error. `CompleteOrError` and `RecordStream` speak of streams
  whose caller has not cancelled.

Driver manager (`Failures`, `Tables`)
- If the driver's DatabaseNew fails in AdbcDatabaseInit, the temporary struct is
  lost (`adbc_driver_manager.cc:307`).
- If ConnectionRelease refuses, `private_driver` is cleared and `private_data`
  is not (line 473): the handle is then taken for one that is not initialized.
- `StatementBindStream` is neither required nor given a default (line 809): a
  driver without it makes the manager call a null pointer.

R package (`RFailures`, and the guards of the explicit releases)
- The finalizers and the New functions pass an `AdbcError` on the stack that
  they have not initialized; a driver or a manager that fails without setting
  it leaves the code reading it. Such failures are left out.
- `RAdbcConnectionRollback` calls AdbcConnectionCommit, and `adbc_commit` and
  `adbc_rollback` drop the status. The manager only forwards both, so the model
  of handles does not tell them apart.
- A second execution of the monkey driver's statement returns a stream that
  was released, with status OK.

GLib bindings (`GLibFailures`, `Reliable`, and the guards of release and new)
- `gadbc_error_check` and `gadbc_error_warn` call `error->release` without
  looking whether the error was set. The manager's own INVALID_STATE and the
  stubs' NOT_IMPLEMENTED do not set it, so reporting them calls a null
  function (`crashed`).
- `gadbc_connection_init` passes a null handle for a released database, and a
  second call keeps a reference to the database that nobody gives up.
- `gadbc_statement_execute` stores through `c_abi_array_stream` (line 196),
  which its documentation calls optional (`statement.c:164`).

Python bindings (the guards `Idle`, `MaxCloses`)
- A connection closed twice while a clone is open makes `_refcount` too low.
  `AdbcDatabase.close` then raises in the thread that closes next, and the
  database is never released: a leak, but never a release too early.
- Cloning a connection that is closed, or closing the `AdbcDatabase` directly
  from another thread, may release it under a connection in the making
  (`_lib.pyx:526`).
- A failed `set_autocommit` in `adbc_clone` loses the connection and its
  count; closing an AdbcStatement twice takes its connection's count down twice.

SQLite connection (`EarlyOptions`, `AutoRollbacks`, `Deferred`)
- Disabling autocommit before ConnectionInit prepares BEGIN on a null
  `sqlite3*`, and the loop at `sqlite.c:110` then has no statement to step.
- After an update that makes SQLite roll back, `active_transaction` stays 1 and
  Commit fails until the next Rollback or SetOption (line 1109).

SQLite statement (`Abandons`, `Faults`, `Size`, `Unbindable`, and the guards of
`Bind`, `StatementRelease` and `Quiet`)
- A stream that is released before its end leaves the `sqlite3_stmt` in the
  middle; executing the prepared statement again continues there
  (`sqlite.c:1326`; `Abandons = TRUE`).
- Any result of `sqlite3_step` but SQLITE_DONE and SQLITE_ERROR is taken for a
  row (`statement_reader.c:409`, `856`; `"other" \in Faults`): a constraint
  violation of an INSERT that is executed with a stream is not reported.
- A value that does not fit the inferred type fails the batch and not the
  stream, which goes on after it when asked again (`"value" \in Faults`;
  `failed` in `SqliteInference`).
- A parameter that cannot be bound in a later batch ends the stream without an
  error, because an inner `status` shadows the one returned
  (`statement_reader.c:388-398`). `Regular` leaves such results out.
- Releasing a stream releases the parameters that may have been bound since
  (`statement_reader.c:461`); executing again while a stream is being read takes
  its rows. adbc.h:1045 invalidates such streams.
- After a failed query the remaining parameters stay bound, and queries without
  parameters fail until they are replaced; finalizing after a failed step
  reports that failure a second time, for the next query (`sqlite.c:1190`).

SQLite catalog and database (`CatalogFaults`)
- The constraint functions append a constraint's type to the array of names:
  the struct's children then differ in length, and GetObjects at column depth
  fails for every database that lists a table with a key (`Keyed`).
- The loops over tables, columns and keys take a failing `sqlite3_step` for
  the end (`"columns"` of `CatalogFaults`): a shorter answer without an error.
- GetObjects without a table type lists whatever `sqlite_master` holds,
  indexes and triggers too.
- Text in a column of numbers makes them texts by `"%e"`, six digits.
- `connection_count` is never counted up, so a database with open connections
  can be released; a URI set after Init holds for later connections only.

PostgreSQL (`Habits`, `Columns`, `Result`)
- `"chained"`: going on after Commit or Rollback without setting autocommit
  again (the run `postgres_chained`).
- `"overlap"`: using a connection while a result of it is unread. Every query is
  run twice, once for its schema and once as COPY (`statement.cc:805`), and a
  COPY in progress makes the other calls fail.
- `"late"`: releasing a stream after its statement was executed again releases
  the `TupleReader` of the new one, which is the statement's only one.
- `"cut"`: a session that ends before a result is read (`postgres_cut`).
- A NULL of a type with a fixed length, and an int2, move the cursor by the
  wrong number of bytes: the columns after it are read from the wrong place.
  The results of the run have such columns at the end only.
- `SetParamTypes` knows OIDs for int64 and string only, although
  `docs/source/driver/cpp/postgresql.rst` says "Parameter binding and bulk
  ingestion support int16, int32, int64, and string."
- `rows_affected` of an update without parameters is 0. `open_connections_` is
  a plain integer: connections of one database are opened one after another.

Flight SQL session (`Faults`, `Habits`)
- If BeginTransaction fails after a Commit, the connection is in autocommit
  mode although the caller disabled it (`flightsql_adbc.go:1380`, `1411`, `649`).
- A prepared statement keeps the transaction in which it was prepared
  (`flightsql_statement.go:254`): what it writes later is not in the current one.
- Close leaves the transaction open on the server (`flightsql_adbc.go:1479`),
  and preparing twice the first prepared statement (`flightsql_statement.go:269`).

## What is not modelled

- Flight SQL options, timeouts and client cache. The cache holds 20 clients
  for five minutes and closes a client when it is evicted, also one that a
  stream still uses (`flightsql_adbc.go:473`), and the timeout interceptor
  cancels a stream's context on return: whether that is noticed depends on
  gRPC, which is outside the repository.
- The Flight SQL catalog functions: assembly of batches from the server's
  answers; they change no state. Those of PostgreSQL are not implemented in
  the source.
- The C export of the Flight SQL driver: each function checks its handle and
  forwards one call to what `FlightSqlSession` models.
- The Go `database/sql` adapter: one ADBC call or a fixed sequence of them per
  method, by one caller at a time. BeginTx undoes nothing when a later option
  is refused, and `rows.Next` takes an error of the reader for its end.
- The Go driver manager wrapper: one call per method. Its database has a
  finalizer, and a connection does not refer to its database
  (`wrapper.go:97`): a program that drops the database may have it released
  while the connection is in use.
- The Java and Ruby packages: JDBC and gRPC adapters whose behaviour is that of
  libraries outside the repository, and block helpers over GLib.
- Of the modelled parts: loading of shared libraries (one outcome of Init),
  logging, error texts, names of columns, the string builder of `utils.c`,
  R's conversion of errors, and the conversions between Python rows and Arrow.
- The vendored libraries (nanoarrow, fmt, SQLite, libpq), which are external
  actions where a driver depends on what they do, and the validation suites,
  which are quoted.
