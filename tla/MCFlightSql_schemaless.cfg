SPECIFICATION MCSpec
CONSTANTS
  Scenarios = {"reader"}
  MaxEndpoints = 2
  MaxRecords = 2
  BufferSize = 1
  MaxRefs = 1
  Infos <- SchemalessInfos
  Cancellable = FALSE
  c1 = c1
  c2 = c2
  q1 = q1
  None = None
  Connections = {c3}
  Statements = {s1}
  Queries = {q1, q2}
  Params = {p1}
  Rows = {1}
  Txns = {1}
  Handles = {1, 2}
  Faults <- AnyFault
  Habits = {"closeInTransaction"}
PROPERTY NextReturns
CHECK_DEADLOCK FALSE
