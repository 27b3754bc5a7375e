--------------------------- MODULE PostgresTuple ---------------------------
(***************************************************************************)
(* Types and tuples of the PostgreSQL driver: the type mapping             *)
(* (src/c/driver/postgresql/type.cc), the schema of a result and the       *)
(* decoding of a binary COPY tuple (statement.cc).                         *)
(*                                                                         *)
(* A tuple on the wire is a sequence of bytes.  A byte is known by what it *)
(* is a part of: the i-th byte of a length or of a value.                  *)
(***************************************************************************)
EXTENDS Integers, Sequences, Functions

\* SQL NULL, a string without bytes, what reading the wrong bytes yields, and a
\* byte that is no BOOL.
NULL == [null |-> TRUE]
Empty == [length |-> 0, value |-> ""]
Garbage == [garbage |-> TRUE]
Invalid == [invalid |-> TRUE]

-----------------------------------------------------------------------------
(* Types.                                                                  *)

\* FromPgTypreceive: the receive functions that the driver knows.
FromPgTypreceive ==
  [bitrecv |-> "bit", bytearecv |-> "varbinary", boolrecv |-> "bool", bpcharrecv |-> "varchar",
   date_recv |-> "date", float4recv |-> "float4", float8recv |-> "float8", int2recv |-> "int2",
   int4recv |-> "int4", int8recv |-> "int8", textrecv |-> "text", time_recv |-> "time",
   timestamp_recv |-> "timestamp", timestamptz_recv |-> "timestamptz",
   timetz_recv |-> "timetz", varcharrecv |-> "varchar"]

\* TypeMapping::Insert, for all of pg_type: a row is [name, receive].
TypeMapping(pg_type) ==
  [name \in {t.name : t \in {u \in pg_type : u.receive \in DOMAIN FromPgTypreceive}} |->
     FromPgTypreceive[(CHOOSE t \in pg_type : t.name = name).receive]]

\* The types for which Insert records an OID, so that GetOid finds one.
CanonicalTypes(pg_type) == {"int8", "text"} \cap {t.name : t \in pg_type}

\* InferSchema: the Arrow type of a column.
ArrowTypes ==
  [bool |-> "bool", float4 |-> "float", float8 |-> "double", int2 |-> "int16", int4 |-> "int32",
   int8 |-> "int64", varbinary |-> "binary", text |-> "string", varchar |-> "string"]

\* InferSchema: NOT_IMPLEMENTED, here the empty schema, if a column's type is
\* not in the mapping or has no Arrow type.
InferSchema(mapping, columns) ==
  IF \A i \in 1..Len(columns) :
       columns[i] \in DOMAIN mapping /\ mapping[columns[i]] \in DOMAIN ArrowTypes
    THEN [i \in 1..Len(columns) |-> ArrowTypes[mapping[columns[i]]]]
    ELSE <<>>

\* CreateBulkTable: the SQL type of a parameter's Arrow type.
BulkTypes == [int16 |-> "int2", int32 |-> "int4", int64 |-> "int8", string |-> "text"]

\* BindStream::SetParamTypes succeeds if the parameter's type has an OID.
SetParamTypes(pg_type, arrow) ==
  arrow \in DOMAIN BulkTypes /\ BulkTypes[arrow] \in CanonicalTypes(pg_type)

-----------------------------------------------------------------------------
(* Tuples.                                                                 *)

\* The server: the length of a field, -1 for NULL, and its bytes.  A value
\* knows its length.
Bytes(part, n) == [i \in 1..n |-> <<part, i>>]
Field(v) == IF v = NULL THEN Bytes([size |-> -1], 4)
                        ELSE Bytes([size |-> v.length], 4) \o Bytes(v, v.length)
Tuple(values) ==
  LET upTo[i \in 0..Len(values)] == IF i = 0 THEN <<>> ELSE upTo[i - 1] \o Field(values[i])
  IN upTo[Len(values)]

\* What the driver reads from n bytes: the whole of something, or garbage.
Size(part) == IF "length" \in DOMAIN part THEN part.length ELSE 4
Load(buf, at, n) ==
  IF n = 0 THEN Empty
  ELSE IF /\ at + n - 1 <= Len(buf) /\ Size(buf[at][1]) = n
          /\ \A i \in 1..n : buf[at + i - 1] = <<buf[at][1], i>>
    THEN buf[at][1]
    ELSE Garbage

\* The bytes AppendNext reads for a type, and the bytes it moves on by.
Reads == [bool |-> 1, float |-> 4, double |-> 8, int16 |-> 2, int32 |-> 4, int64 |-> 8]

\* Mutant of Moves: a bool is taken for an int32.
MovesTooFar == [bool |-> 4, float |-> 4, double |-> 8, int16 |-> 4, int32 |-> 4, int64 |-> 8]

Moves == [bool |-> 1, float |-> 4, double |-> 8, int16 |-> 4, int32 |-> 4, int64 |-> 8]

\* One column of AppendNext: the state is the values so far and the position.
\* The validity bit comes from the length, but a NULL is read and moved over as
\* if it had bytes.  The bytes read for one of fixed length, which may lie behind
\* the tuple, do not show, except that a BOOL is refused if the first of them is
\* that of a NULL's length.  One of a string moves back by a byte.
AppendColumn(buf, st, type) ==
  LET field_length == Load(buf, st.at, 4)
      next == st.at + 4
      column(v, n) == [row |-> Append(st.row, v), at |-> next + n]
  IN IF "size" \notin DOMAIN field_length \/ Garbage \in Range(st.row) THEN column(Garbage, 0)
     ELSE IF field_length.size = -1
       THEN column(IF type = "bool" /\ Load(buf, next, 4) = field_length THEN Invalid ELSE NULL,
                   IF type \in DOMAIN Moves THEN Moves[type] ELSE -1)
     ELSE IF type \in DOMAIN Reads THEN column(Load(buf, next, Reads[type]), Moves[type])
     ELSE column(Load(buf, next, field_length.size), field_length.size)

\* TupleReader::AppendNext: the decoded row, or the empty one if the number of
\* fields is not that of the schema, or if a BOOL is neither 0 nor 1.
AppendNext(schema, fields, buf) ==
  IF fields # Len(schema) THEN <<>>
  ELSE LET upTo[i \in 0..fields] == IF i = 0 THEN [row |-> <<>>, at |-> 1]
                                             ELSE AppendColumn(buf, upTo[i - 1], schema[i])
       IN IF Invalid \in Range(upTo[fields].row) THEN <<>> ELSE upTo[fields].row

\* The array of a result's rows.  A NULL string moves the column's offset back,
\* so that the later values of the column are cut at the wrong bytes.
AppendedRows(schema, rows) ==
  [i \in DOMAIN rows |-> [j \in DOMAIN rows[i] |->
     IF /\ schema[j] \in {"string", "binary"} /\ rows[i][j] # NULL
        /\ \E k \in DOMAIN rows : k < i /\ rows[k][j] \in {NULL, Garbage}
       THEN Garbage
       ELSE rows[i][j]]]
=============================================================================
