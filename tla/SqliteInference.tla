--------------------------- MODULE SqliteInference ---------------------------
(***************************************************************************)
(* How a result stream of the SQLite driver types its columns, from        *)
(* src/c/driver/sqlite/statement_reader.c.                                 *)
(*                                                                         *)
(* SQLite types values, Arrow types columns.  The first batch is read into *)
(* raw buffers that start as int64 and are rewritten when a wider value    *)
(* comes (int64 <: double <: string); later batches must fit the types     *)
(* that the first has left.  A value is known by its row and by the        *)
(* conversions it went through, a text is a sequence of units that each    *)
(* name the value they came from, and the buffers have the sizes that the  *)
(* code gives them, in bytes.                                              *)
(***************************************************************************)
EXTENDS Integers, Sequences, SequencesExt

CONSTANTS
  Columns,     \* how many columns the result has
  InferRows,   \* values of adbc.sqlite.query.batch_rows
  MaxRows      \* a bound: the rows of a result

ASSUME InferenceAssumption ==
  /\ Columns \in Nat /\ MaxRows \in Nat
  /\ InferRows \subseteq Nat \ {0}

VARIABLES
  result,      \* the rows that sqlite3_step has yielded
  infer,       \* the buffers of the first batch, one per column
  typed        \* StatementReader: phase, batch size, types, batches

inferVars == <<result, infer, typed>>

-----------------------------------------------------------------------------
(* Values and buffers.                                                     *)

\* sqlite3_column_type, and the length of a text.
Value(kind, size) == [kind |-> kind, size |-> size]
Values == {Value(k, 2) : k \in {"null", "int", "float", "text", "blob"}} \cup {Value("text", 0)}

\* How long the text of a converted value is: PRId64, %e, or as it is.
Width(form, size) ==
  CASE Last(form) = "PRId64" -> 1
    [] Last(form) = "%e" -> 3
    [] OTHER -> size

Cell(row, form) == [row |-> row, form |-> form]
Text(row, form, size) == [j \in 1..Width(form, size) |-> Cell(row, form)]
Element(row, form) == <<Cell(row, form)>>
Missing == Element(0, <<"null">>)
EIO == Element(0, <<"EIO">>)

NewColumn(rows) ==
  [type |-> "int64", validity |-> <<>>, data |-> <<>>, binary |-> <<>>,
   capacity |-> 8 * rows, overrun |-> FALSE]

\* The bytes of the data buffer: int64 and double values, or int32 offsets.
Bytes(col) == Len(col.data) * (IF col.type = "string" THEN 4 ELSE 8)

\* ArrowBufferAppendUnsafe: nothing grows.
AppendUnsafe(col, element) ==
  LET longer == [col EXCEPT !.data = Append(@, element)] IN
  [longer EXCEPT !.overrun = @ \/ Bytes(longer) > col.capacity]

\* ArrowBufferAppend: the buffer grows.
AppendSafe(col, element) ==
  LET longer == [col EXCEPT !.data = Append(@, element)] IN
  IF Bytes(longer) <= col.capacity THEN longer
  ELSE [longer EXCEPT !.capacity = IF 2 * @ > Bytes(longer) THEN 2 * @ ELSE Bytes(longer)]

-----------------------------------------------------------------------------
(* The first batch.                                                        *)

UpcastInt64ToDouble(col) ==
  [col EXCEPT !.type = "double",
              !.data = [k \in DOMAIN @ |-> [@[k] EXCEPT !.form = Append(@, "double")]]]

\* StatementReaderAppendInt64ToBinary and StatementReaderAppendDoubleToBinary.
AppendToBinary(col, cell, how) ==
  LET text == Text(cell.row, Append(cell.form, how), 0) IN
  [AppendUnsafe(col, Last(col.data) + Len(text)) EXCEPT !.binary = @ \o text]

\* StatementReaderUpcastInt64ToBinary and StatementReaderUpcastDoubleToBinary:
\* the offsets are given the capacity of the buffer that they replace, or, in
\* the mutant, its size.
UpcastToBinaryTight(col) ==
  LET how == IF col.type = "int64" THEN "PRId64" ELSE "%e"
      start == [col EXCEPT !.type = "string", !.data = <<0>>, !.binary = <<>>,
                           !.capacity = Bytes(col)]
  IN FoldLeft(LAMBDA c, cell : AppendToBinary(c, cell, how), start, col.data)
UpcastToBinary(col) ==
  LET how == IF col.type = "int64" THEN "PRId64" ELSE "%e"
      start == [col EXCEPT !.type = "string", !.data = <<0>>, !.binary = <<>>]
  IN FoldLeft(LAMBDA c, cell : AppendToBinary(c, cell, how), start, col.data)

InferNull(col, row) ==
  LET c == [col EXCEPT !.validity = Append(@, FALSE)] IN
  IF c.type = "string" THEN AppendSafe(c, Last(c.data))
  ELSE AppendUnsafe(c, Cell(row, <<"zero">>))

InferInteger(col, row) ==
  LET c == [col EXCEPT !.validity = Append(@, TRUE)] IN
  CASE c.type = "int64" -> AppendUnsafe(c, Cell(row, <<"int">>))
    [] c.type = "double" -> AppendUnsafe(c, Cell(row, <<"int", "double">>))
    [] c.type = "string" -> AppendToBinary(c, Cell(row, <<"int">>), "PRId64")

InferFloat(col, row) ==
  LET c == [col EXCEPT !.validity = Append(@, TRUE)] IN
  CASE c.type = "int64" -> AppendUnsafe(UpcastInt64ToDouble(c), Cell(row, <<"float">>))
    [] c.type = "double" -> AppendUnsafe(c, Cell(row, <<"float">>))
    [] c.type = "string" -> AppendToBinary(c, Cell(row, <<"float">>), "%e")

InferText(col, row, size) ==
  LET c == [col EXCEPT !.validity = Append(@, TRUE)]
      wide == IF c.type = "string" THEN c ELSE UpcastToBinary(c)
  IN [AppendSafe(wide, Last(wide.data) + size)
        EXCEPT !.binary = @ \o Text(row, <<"text">>, size)]

\* StatementReaderInferOneValue, of anything but a BLOB.
InferOneValue(col, row, value) ==
  CASE value.kind = "null" -> InferNull(col, row)
    [] value.kind = "int" -> InferInteger(col, row)
    [] value.kind = "float" -> InferFloat(col, row)
    [] value.kind = "text" -> InferText(col, row, value.size)

\* What StatementReaderInferFinalize makes of a column's buffers.
Finalize(col) ==
  [k \in 1..Len(col.validity) |->
     IF ~col.validity[k] THEN Missing
     ELSE IF col.type = "string" THEN SubSeq(col.binary, col.data[k] + 1, col.data[k + 1])
     ELSE <<col.data[k]>>]

-----------------------------------------------------------------------------
(* The batches after it.                                                   *)

\* StatementReaderGetOneValue: the element, or EIO.  The mutant appends a null
\* for a value that does not fit.
GetOneValueLax(type, row, value) ==
  CASE value.kind = "null" -> Missing
    [] type = "int64" -> IF value.kind = "int" THEN Element(row, <<"int">>) ELSE Missing
    [] type = "double" /\ value.kind = "int" -> Element(row, <<"int", "double">>)
    [] type = "double" /\ value.kind = "float" -> Element(row, <<"float">>)
    [] type = "double" /\ value.kind \in {"text", "blob"} -> Missing
    [] type = "string" -> Text(row, <<value.kind, "column_text">>, value.size)
GetOneValue(type, row, value) ==
  CASE value.kind = "null" -> Missing
    [] type = "int64" -> IF value.kind = "int" THEN Element(row, <<"int">>) ELSE EIO
    [] type = "double" /\ value.kind = "int" -> Element(row, <<"int", "double">>)
    [] type = "double" /\ value.kind = "float" -> Element(row, <<"float">>)
    [] type = "double" /\ value.kind \in {"text", "blob"} -> EIO
    [] type = "string" -> Text(row, <<value.kind, "column_text">>, value.size)

-----------------------------------------------------------------------------
(* The stream.                                                             *)

NoStream == [phase |-> "none", size |-> 0, types |-> <<>>, out |-> <<>>,
             first |-> 0, got |-> <<>>, failed |-> FALSE]

InferInit ==
  /\ result = <<>>
  /\ infer = <<>>
  /\ typed = NoStream

\* AdbcSqliteExportReader and StatementReaderInitializeInfer.
ExportReader(size) ==
  /\ typed.phase = "none"
  /\ typed' = [NoStream EXCEPT !.phase = "infer", !.size = size]
  /\ infer' = [c \in 1..Columns |-> NewColumn(size)]
  /\ UNCHANGED result

\* A row of the first batch.  A BLOB fails the export, which frees the buffers.
InferRow(row) ==
  /\ typed.phase = "infer" /\ Len(result) < typed.size /\ Len(result) < MaxRows
  /\ result' = Append(result, row)
  /\ IF \E c \in 1..Columns : row[c].kind = "blob"
     THEN /\ typed' = [NoStream EXCEPT !.phase = "refused"]
          /\ infer' = <<>>
     ELSE /\ infer' = [c \in 1..Columns |-> InferOneValue(infer[c], Len(result'), row[c])]
          /\ UNCHANGED typed

\* SQLITE_DONE, or batch_size rows: StatementReaderInferFinalize moves the
\* buffers to the batch that the first get_next hands out.
InferFinalize ==
  LET batch == [c \in 1..Columns |-> Finalize(infer[c])] IN
  /\ typed.phase = "infer"
  /\ typed' = [typed EXCEPT !.phase = IF Len(result) < typed.size THEN "done" ELSE "read",
                            !.types = [c \in 1..Columns |-> infer[c].type],
                            !.first = Len(result),
                            !.got = [k \in 1..Len(result) |-> [c \in 1..Columns |-> batch[c][k]]]]
  /\ UNCHANGED <<result, infer>>

\* A row of a later batch.  The batch of a value that does not fit is dropped
\* and get_next fails; a full one is handed out.
ReadRow(row) ==
  LET cells == [c \in 1..Columns |-> GetOneValue(typed.types[c], Len(result) + 1, row[c])]
      out == Append(typed.out, cells)
  IN /\ typed.phase = "read" /\ Len(result) < MaxRows
     /\ result' = Append(result, row)
     /\ typed' =
          IF \E c \in 1..Columns : cells[c] = EIO
          THEN [typed EXCEPT !.out = <<>>, !.failed = TRUE]
          ELSE IF Len(out) < typed.size THEN [typed EXCEPT !.out = out]
          ELSE [typed EXCEPT !.out = <<>>, !.got = @ \o out]
     /\ UNCHANGED infer

\* SQLITE_DONE: the last batch, if it has rows.
ReadDone ==
  /\ typed.phase = "read"
  /\ typed' = [typed EXCEPT !.phase = "done", !.got = @ \o typed.out, !.out = <<>>]
  /\ UNCHANGED <<result, infer>>

\* StatementReaderRelease.
ReleaseTyped ==
  /\ typed.phase \in {"read", "done", "refused"}
  /\ result' = <<>> /\ infer' = <<>> /\ typed' = NoStream

InferNext ==
  \/ \E size \in InferRows : ExportReader(size)
  \/ \E row \in [1..Columns -> Values] : InferRow(row) \/ ReadRow(row)
  \/ InferFinalize \/ ReadDone \/ ReleaseTyped

-----------------------------------------------------------------------------
(* Properties.                                                             *)

\* The least of int64 <: double <: string that holds the values of a column.
Join(values) ==
  CASE \E k \in DOMAIN values : values[k].kind = "text" -> "string"
    [] \E k \in DOMAIN values : values[k].kind = "float" -> "double"
    [] OTHER -> "int64"

\* An element stands for a value in a column of a type: it is that row's value,
\* converted from its own type and to the column's, whole and alone.
StandsFor(element, row, value, type) ==
  IF value.kind = "null" THEN element = Missing
  ELSE /\ element = <<>> => type = "string" /\ value.size = 0
       /\ \A j \in DOMAIN element :
            /\ element[j] = element[1]
            /\ element[j].row = row /\ element[j].form[1] = value.kind
            /\ CASE type = "int64" -> element = Element(row, <<"int">>)
                 [] type = "double" ->
                      element \in {Element(row, <<"int", "double">>), Element(row, <<"float">>)}
                 [] type = "string" -> Len(element) = Width(element[j].form, value.size)

\* StatementReaderInferOneValue widens a column to the least type that holds
\* its first batch, in whatever order the values come; every element, also of
\* the batches that StatementReaderGetOneValue fills, stands for the value of
\* its row, and a stream that has not failed has every row.
CellsAreFaithful ==
  typed.phase \in {"read", "done"} =>
    /\ \A c \in 1..Columns :
         typed.types[c] = Join([k \in 1..typed.first |-> result[k][c]])
    /\ ~typed.failed =>
         /\ Len(typed.got) + Len(typed.out) = Len(result)
         /\ \A k \in 1..Len(typed.got), c \in 1..Columns :
              StandsFor(typed.got[k][c], k, result[k][c], typed.types[c])

\* ArrowBufferAppendUnsafe never writes behind a buffer: what
\* StatementReaderInitializeInfer reserves for infer_rows values is enough for
\* the offsets that an upcast replaces them with, one more than there are rows.
NoOverrun == \A c \in DOMAIN infer : ~infer[c].overrun
=============================================================================
