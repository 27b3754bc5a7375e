SPECIFICATION MCSpec
CONSTANTS
  c1 = c1
  c2 = c2
  s1 = s1
  s2 = s2
  r1 = r1
  r2 = r2
  none = none
  Connections = {c1, c2}
  Statements = {s1, s2}
  Rows = {r1, r2, tbl}
  Table = tbl
  None = none
  Habits = {"cut"}
  Queries = {"wide", "short", "dates", "returning"}
  Returning = {"returning"}
  Columns <- MCColumns
  Result <- MCResult
  pg_type <- MCpg_type
  Bindings <- MCBindings
  MaxExecutions = 2
CHECK_DEADLOCK FALSE
INVARIANT NoFault
