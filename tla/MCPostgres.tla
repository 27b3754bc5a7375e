----------------------------- MODULE MCPostgres -----------------------------
(***************************************************************************)
(* Small instances of the PostgreSQL driver.                               *)
(***************************************************************************)
EXTENDS PostgresStatement

CONSTANTS c1, c2, s1, s2, r1, r2, none

\* A value of each shape: an int4, a text, a NULL of fixed length at the end.
Int4 == [length |-> 4, value |-> "i"]
Text == [length |-> 2, value |-> "t"]
MCColumns == [wide |-> <<"bool", "int4", "text", "int8">>, short |-> <<"text", "int2">>,
              dates |-> <<"date">>, returning |-> <<"int4">>]
MCResult ==
  [wide |-> << <<[length |-> 1, value |-> "b"], Int4, Text, [length |-> 8, value |-> "l"]>>,
               <<[length |-> 1, value |-> "c"], Int4, Text, NULL>> >>,
   short |-> << <<Text, [length |-> 2, value |-> "h"]>> >>,
   dates |-> << <<[length |-> 4, value |-> "d"]>> >>,
   returning |-> << <<Int4>> >>]

\* NULLs in a column of strings, and in front of another column.
NullColumns == [names |-> <<"text">>, pairs |-> <<"int4", "int4">>]
NullResult == [names |-> << <<NULL>>, <<Text>> >>, pairs |-> << <<NULL, Int4>> >>]
MCpg_type ==
  {[name |-> "bool", receive |-> "boolrecv"], [name |-> "int4", receive |-> "int4recv"],
   [name |-> "int8", receive |-> "int8recv"], [name |-> "int2", receive |-> "int2recv"],
   [name |-> "text", receive |-> "textrecv"], [name |-> "date", receive |-> "date_recv"]}
MCBindings ==
  {[type |-> "int64", batches |-> << <<r1, r2>> >>, breaks |-> FALSE],
   [type |-> "string", batches |-> << <<r1>>, <<r2>> >>, breaks |-> TRUE],
   [type |-> "int32", batches |-> << <<r1>> >>, breaks |-> FALSE]}

-----------------------------------------------------------------------------
\* What a behaviour explores: the lives of the database and its connections,
\* two statements reading results on one connection, a statement on each of two
\* connections writing rows, one of them bound rows, with the database in place,
\* or a statement whose query writes and returns rows.
VARIABLE scenario

Within ==
  CASE scenario = "lives" -> \A s \in Statements : stmt'[s].connection = None
    [] scenario = "results" ->
         /\ ~handle'[c2] /\ autocommit'[c1]
         /\ \A s \in Statements :
              stmt'[s].bind = None /\ stmt'[s].query # "update" /\ ~stmt'[s].target
         /\ stmt'[s1].query # "returning" /\ stmt'[s2].query \notin {"wide", "returning"}
    [] scenario = "rows" ->
         /\ (\E c \in Connections : handle'[c]) => database'.handle /\ database'.types
         /\ \A s \in Statements : stmt'[s].query \in {None, "update"}
         /\ stmt'[s1].connection # c2 /\ stmt'[s2].connection # c1
         /\ stmt'[s2].bind = None /\ ~stmt'[s2].target /\ ~stmt'[s2].prepared
         /\ conn'[c2] # "down" /\ (handle[c2] => handle'[c2])
    [] scenario = "returning" ->
         /\ handle'[c1] => database'.handle /\ database'.types
         /\ ~handle'[c2] /\ stmt'[s2].connection = None
         /\ stmt'[s1].query \in {None, "update", "returning"} /\ ~stmt'[s1].target

MCInit == Init /\ scenario \in {"lives", "results", "rows", "returning"}
MCNext == Next /\ Within /\ UNCHANGED scenario

MCSpec ==
  /\ MCInit /\ [][MCNext]_<<vars, scenario>>
  /\ \A s \in Statements : WF_vars(BoundStep(s))
=============================================================================
