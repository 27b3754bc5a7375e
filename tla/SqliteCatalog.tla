---------------------------- MODULE SqliteCatalog ----------------------------
(***************************************************************************)
(* The catalog functions of the SQLite driver: GetInfo, GetObjects,        *)
(* GetTableSchema and GetTableTypes of src/c/driver/sqlite/sqlite.c, and   *)
(* the one-batch streams of utils.c that carry their answers.              *)
(*                                                                         *)
(* GetObjects fills a nested Arrow array with nanoarrow's append           *)
(* functions: a builder keeps a sequence for every leaf, the ends of the   *)
(* elements of every list, and the length of every struct.  What the       *)
(* caller reads is decoded from that.  Names are model strings, a LIKE     *)
(* pattern is a name or "%".                                               *)
(***************************************************************************)
EXTENDS SqliteInference

CONSTANTS
  Null,        \* NULL, in C, in SQL and in an array
  Databases,   \* contents of sqlite_master and the pragmas, sequences of tables
  Wanted,      \* arguments of GetObjects
  CatalogFaults, \* what may go wrong: "prepare", "tables", "columns"
  Codes,       \* arguments of GetInfo
  TableRows,   \* what SELECT * FROM a table of one column yields
  SchemaRows   \* 64: the rows that GetTableSchema reads

VARIABLES
  answer,      \* the last call: function, arguments, status
  single       \* SingleBatchArrayStream, and what get_next has handed out

catalogVars == <<answer, single>>

-----------------------------------------------------------------------------
(* nanoarrow.                                                              *)

\* SqliteConnectionGetObjectsSchema: the children of the structs, and the items
\* of the lists.  Thirteen of the columns are one.
ColumnChildren ==
  {"column_name", "ordinal_position", "xdbc_type_name", "xdbc_nullable", "xdbc_column_def",
   "xdbc_is_nullable", "always_null"}
ConstraintChildren ==
  {"constraint_name", "constraint_type", "constraint_column_names", "constraint_column_usage"}
UsageChildren == {"fk_catalog", "fk_db_schema", "fk_table", "fk_column_name"}
Children ==
  [array |-> {"catalog_name", "catalog_db_schemas"},
   schemas |-> {"db_schema_name", "db_schema_tables"},
   tables |-> {"table_name", "table_type", "table_columns", "table_constraints"},
   columns |-> ColumnChildren, constraints |-> ConstraintChildren, usage |-> UsageChildren]
Items ==
  [catalog_db_schemas |-> "schemas", db_schema_tables |-> "tables",
   table_columns |-> "columns", table_constraints |-> "constraints",
   constraint_column_names |-> "names", constraint_column_usage |-> "usage"]

Structs == DOMAIN Children
Lists == DOMAIN Items
Leaves == (UNION {Children[s] : s \in Structs} \ Lists) \cup {"names"}

EmptyArray ==
  [len |-> [s \in Structs |-> 0], seq |-> [x \in Leaves \cup Lists |-> <<>>], ok |-> TRUE]

Length(b, x) == IF x \in Structs THEN b.len[x] ELSE Len(b.seq[x])

\* ArrowArrayAppendString, -Int, -Null of leaves.
Put(b, values) ==
  [b EXCEPT !.seq = [x \in DOMAIN @ |-> IF x \in DOMAIN values THEN @[x] \o values[x] ELSE @[x]]]

\* A list's element ends where its items end now; a null element is empty.
Finish(b, list, null) ==
  [b EXCEPT !.seq[list] = Append(@, [end |-> Length(b, Items[list]), null |-> null])]
FinishList(b, list) == Finish(b, list, FALSE)
PutNullList(b, list) == Finish(b, list, TRUE)

\* A struct's element is whole when every child has one more, else EINVAL.
FinishStruct(b, struct) ==
  IF \A x \in Children[struct] : Length(b, x) = b.len[struct] + 1
  THEN [b EXCEPT !.len[struct] = @ + 1]
  ELSE [b EXCEPT !.ok = FALSE]

-----------------------------------------------------------------------------
(* SqliteConnectionGetObjects.                                             *)

Like(name, pattern) == pattern \in {Null, "%", name}

\* A row of kColumnQuery.
PutColumn(b, column) ==
  FinishStruct(
    Put(b, [column_name |-> <<column.name>>, ordinal_position |-> <<column.cid + 1>>,
            always_null |-> <<Null>>, xdbc_type_name |-> <<column.type>>,
            xdbc_nullable |-> <<IF column.notnull THEN 0 ELSE 1>>,
            xdbc_column_def |-> <<column.dflt_value>>,
            xdbc_is_nullable |-> <<IF column.notnull THEN "NO" ELSE "YES">>]),
    "columns")

\* The loop ends with the rows, and in the same way when a step fails: that error
\* is reported by sqlite3_reset, if there is another table.
GetColumnsImpl(b, table, pattern, fault) ==
  FoldLeft(PutColumn, b,
           IF fault = "columns" THEN <<>>
           ELSE SelectSeq(table.columns, LAMBDA c : Like(c.name, pattern)))

\* The type of a constraint is appended to constraint_name.
PutPrimaryKey(b, names) ==
  LET n == Put(b, [constraint_name |-> <<Null, "PRIMARY KEY">>, names |-> names])
      u == PutNullList(FinishList(n, "constraint_column_names"), "constraint_column_usage")
  IN FinishStruct(u, "constraints")

FinishForeignKey(b) ==
  FinishStruct(FinishList(FinishList(b, "constraint_column_names"),
                          "constraint_column_usage"), "constraints")

\* A row of kForeignKeyQuery, in the order of their ids; only the first of each
\* id is listed.  The lengths of the names are those of columns that pk_stmt
\* does not have: nothing of them is appended.
PutForeignKey(state, key) ==
  LET n == Put(state.b, [constraint_name |-> <<Null, "FOREIGN KEY">>])
      f == IF state.prev = -1 THEN n ELSE FinishForeignKey(n)
  IN IF key.id = state.prev THEN state
     ELSE [prev |-> key.id,
           b |-> Put(f, [names |-> <<"">>, fk_catalog |-> <<"main">>, fk_db_schema |-> <<Null>>,
                         fk_table |-> <<"">>, fk_column_name |-> <<"">>])]

GetConstraintsImpl(b, table) ==
  LET pk == IF table.pk = <<>> THEN b ELSE PutPrimaryKey(b, table.pk)
      fk == FoldLeft(PutForeignKey, [prev |-> -1, b |-> pk], table.fk)
  IN IF fk.prev = -1 THEN fk.b ELSE FinishForeignKey(fk.b)

\* A table that kTableQuery yields; above depth COLUMNS its lists are null.  The
\* mutant forgets the second.
PutTableHalf(b, table, want, fault) ==
  LET n == Put(b, [table_type |-> <<table.type>>, table_name |-> <<table.name>>])
      c == FinishList(GetColumnsImpl(n, table, want.column, fault), "table_columns")
  IN FinishStruct(IF want.depth # "columns" THEN PutNullList(n, "table_columns")
                  ELSE FinishList(GetConstraintsImpl(c, table), "table_constraints"),
                  "tables")
PutTable(b, table, want, fault) ==
  LET n == Put(b, [table_type |-> <<table.type>>, table_name |-> <<table.name>>])
      c == FinishList(GetColumnsImpl(n, table, want.column, fault), "table_columns")
  IN FinishStruct(IF want.depth # "columns"
                  THEN PutNullList(PutNullList(n, "table_columns"), "table_constraints")
                  ELSE FinishList(GetConstraintsImpl(c, table), "table_constraints"),
                  "tables")

\* kTableQuery and the test of table_type.
Listed(table, want) ==
  /\ table.type # "index" /\ Like(table.name, want.table)
  /\ want.types # Null => table.type \in want.types

\* "tables" is any failure that is noticed, "columns" one in the last table.
GetTablesInner(b, tables, want, fault) ==
  LET chosen == SelectSeq(tables, LAMBDA t : Listed(t, want))
      all == FoldLeftDomain(LAMBDA x, k : PutTable(x, chosen[k], want,
                                            IF k = Len(chosen) THEN fault ELSE "none"),
                            b, chosen)
  IN IF fault = "tables" THEN [all EXCEPT !.ok = FALSE] ELSE FinishList(all, "db_schema_tables")

\* Statements that cannot be prepared fail the call.
GetTablesImpl(b, tables, want, fault) ==
  IF fault = "prepare" THEN [b EXCEPT !.ok = FALSE]
  ELSE GetTablesInner(b, tables, want, fault)

\* One catalog, main, with one schema, which has no name.
GetObjectsImpl(tables, want, fault) ==
  LET m == Put(EmptyArray, [catalog_name |-> <<"main">>])
      s == Put(m, [db_schema_name |-> <<Null>>])
      t == IF want.depth = "schemas" THEN PutNullList(s, "db_schema_tables")
           ELSE GetTablesImpl(s, tables, want, fault)
      c == CASE want.depth = "catalogs" -> PutNullList(m, "catalog_db_schemas")
             [] want.depth # "catalogs" /\ want.schema = Null ->
                  FinishList(FinishStruct(t, "schemas"), "catalog_db_schemas")
             [] OTHER -> FinishList(m, "catalog_db_schemas")
  IN IF want.catalog \in {Null, "main"} THEN FinishStruct(c, "array") ELSE EmptyArray

-----------------------------------------------------------------------------
(* What a caller reads from an array.                                      *)

Elements(b, list, k, Item(_)) ==
  LET start == IF k = 1 THEN 0 ELSE b.seq[list][k - 1].end IN
  IF b.seq[list][k].null THEN Null
  ELSE [j \in 1..(b.seq[list][k].end - start) |-> Item(start + j)]

ColumnAt(b, k) == [x \in ColumnChildren |-> b.seq[x][k]]
TableAt(b, k) ==
  [name |-> b.seq["table_name"][k], type |-> b.seq["table_type"][k],
   columns |-> Elements(b, "table_columns", k, LAMBDA j : ColumnAt(b, j)),
   constraints |-> Elements(b, "table_constraints", k, LAMBDA j : "constraint")]
SchemaAt(b, k) ==
  [name |-> b.seq["db_schema_name"][k],
   tables |-> Elements(b, "db_schema_tables", k, LAMBDA j : TableAt(b, j))]
ObjectsIn(b) ==
  [k \in 1..b.len["array"] |->
     [name |-> b.seq["catalog_name"][k],
      schemas |-> Elements(b, "catalog_db_schemas", k, LAMBDA j : SchemaAt(b, j))]]

-----------------------------------------------------------------------------
(* The calls.                                                              *)

NoAnswer == [op |-> "none", args |-> Null, status |-> "none"]
NoSingle == [open |-> FALSE, batch |-> Null, got |-> <<>>]

CatalogInit == answer = NoAnswer /\ single = NoSingle

\* BatchToArrayStream, if there is a batch; callers pass no stream in use.
Answers(op, args, ok, batch) ==
  /\ answer = NoAnswer
  /\ answer' = [op |-> op, args |-> args, status |-> IF ok THEN "ok" ELSE "error"]
  /\ single' = IF ok THEN [open |-> TRUE, batch |-> batch, got |-> <<>>] ELSE NoSingle

GetObjects(tables, want, fault) ==
  LET b == GetObjectsImpl(tables, want, fault) IN
  Answers("objects", [tables |-> tables, want |-> want, fault |-> fault], b.ok, ObjectsIn(b))

\* kSupportedInfoCodes.
SupportedInfoCodes ==
  <<"VENDOR_NAME", "VENDOR_VERSION", "DRIVER_NAME", "DRIVER_VERSION", "DRIVER_ARROW_VERSION">>

\* The variants of info_value, and a row of the first of them.
InfoVariants ==
  <<"string_value", "bool_value", "int64_value", "int32_bitmask", "string_list",
    "int32_to_int32_list_map">>
InfoRow(code) == [name |-> code, value |-> InfoVariants[1]]

\* SqliteConnectionGetInfoImpl: codes that are not known are passed over.
GetInfoImpl(codes) ==
  FoldLeft(LAMBDA rows, code : IF code \in Range(SupportedInfoCodes)
                               THEN Append(rows, InfoRow(code)) ELSE rows,
           <<>>, codes)
GetInfo(codes) ==
  Answers("info", codes, TRUE, GetInfoImpl(IF codes = Null THEN SupportedInfoCodes ELSE codes))

GetTableTypesImpl == <<"table", "view">>
GetTableTypes == Answers("types", Null, TRUE, GetTableTypesImpl)

\* The types of the first rows of SELECT * FROM a table, "released" for a catalog
\* or a schema, which SQLite does not have.
GetTableSchema(where, table, rows) ==
  LET first == SubSeq(rows, 1, IF Len(rows) < SchemaRows THEN Len(rows) ELSE SchemaRows)
      column == FoldLeft(LAMBDA c, v : InferOneValue(c, Len(c.validity) + 1, v),
                         NewColumn(SchemaRows), first)
      reads == table # Null /\ \A k \in DOMAIN first : first[k].kind # "blob"
      schema == CASE where # Null -> "released"
                  [] where = Null /\ reads -> column.type
                  [] OTHER -> Null
  IN /\ answer = NoAnswer
     /\ answer' = [op |-> "schema", status |-> IF schema = Null THEN "error" ELSE "ok",
                   args |-> [where |-> where, table |-> table, first |-> first,
                             schema |-> schema]]
     /\ UNCHANGED single

\* SingleBatchArrayStreamGetNext: the batch is handed out and forgotten.
SingleNext ==
  /\ single.open /\ Len(single.got) < 3
  /\ single' = [single EXCEPT !.got = Append(@, single.batch), !.batch = Null]
  /\ UNCHANGED answer

\* SingleBatchArrayStreamRelease, if there is a stream: the caller is done with
\* the answer.
SingleRelease ==
  /\ answer # NoAnswer
  /\ single' = NoSingle /\ answer' = NoAnswer

CatalogNext ==
  \/ \E d \in Databases, w \in Wanted, f \in CatalogFaults \cup {"none"} : GetObjects(d, w, f)
  \/ \E c \in Codes : GetInfo(c)
  \/ \E where \in {Null, "main"}, table \in {Null, "t"}, rows \in TableRows :
       GetTableSchema(where, table, rows)
  \/ GetTableTypes \/ SingleNext \/ SingleRelease

-----------------------------------------------------------------------------
(* Properties.                                                             *)

\* What GetObjects is to answer: the tables that the filters select, with their
\* columns and constraints at the greatest depth.
ColumnTold(c) ==
  [column_name |-> c.name, ordinal_position |-> c.cid + 1, xdbc_type_name |-> c.type,
   xdbc_nullable |-> IF c.notnull THEN 0 ELSE 1, xdbc_column_def |-> c.dflt_value,
   xdbc_is_nullable |-> IF c.notnull THEN "NO" ELSE "YES", always_null |-> Null]
Keys(t) == (IF t.pk = <<>> THEN 0 ELSE 1) + Cardinality({t.fk[k].id : k \in DOMAIN t.fk})
TablesTold(tables, w) ==
  LET chosen == SelectSeq(tables, LAMBDA t : Listed(t, w))
      of(t) == SelectSeq(t.columns, LAMBDA c : Like(c.name, w.column))
      deep == w.depth = "columns"
  IN [k \in DOMAIN chosen |->
        [name |-> chosen[k].name, type |-> chosen[k].type,
         columns |-> IF deep THEN [j \in DOMAIN of(chosen[k]) |-> ColumnTold(of(chosen[k])[j])]
                     ELSE Null,
         constraints |-> IF deep THEN [j \in 1..Keys(chosen[k]) |-> "constraint"] ELSE Null]]
ObjectsTold(tables, w) ==
  LET schema == [name |-> Null, tables |-> IF w.depth = "schemas" THEN Null
                                           ELSE TablesTold(tables, w)]
      schemas == IF w.depth = "catalogs" THEN Null
                 ELSE IF w.schema = Null THEN <<schema>> ELSE <<>>
  IN IF w.catalog \in {Null, "main"} THEN <<[name |-> "main", schemas |-> schemas]>> ELSE <<>>

\* What a caller is to be told.
Told ==
  LET a == answer.args IN
  CASE answer.op = "objects" -> ObjectsTold(a.tables, a.want)
    [] answer.op = "info" ->
         LET known == SelectSeq(IF a = Null THEN SupportedInfoCodes ELSE a,
                                LAMBDA c : c \in Range(SupportedInfoCodes))
         IN [k \in DOMAIN known |-> [name |-> known[k], value |-> "string_value"]]
    [] answer.op = "types" -> <<"table", "view">>

\* A stream of GetObjects, GetInfo or GetTableTypes holds exactly what was asked
\* for, nested by the offsets that the list builders were given, and hands it out
\* once.  GetObjects fails only when a query fails; GetTableSchema has the least
\* type that holds the rows it has read.
AnswersAreTrue ==
  LET a == answer.args IN
  /\ \A k \in DOMAIN single.got : single.got[k] = IF k = 1 THEN Told ELSE Null
  /\ answer.op = "objects" /\ answer.status = "error" => a.fault # "none"
  /\ answer.op = "schema" /\ a.where = Null /\ answer.status = "ok" =>
       a.schema = Join(a.first)
=============================================================================
