CONSTANTS
  s1 = s1
  s2 = s2
  q1 = q1
  q2 = q2
  p1 = p1
  p2 = p2
  p3 = p3
  p4 = p4
  d1 = d1
  d2 = d2
  c1 = c1
  c2 = c2
  x1 = x1
  x2 = x2
  r1 = r1
  r2 = r2
  r3 = r3
  None = None
  Half = Half
  Null = Null
  Scenarios = {"returns"}
  Readers = {s1, s2}
  Queries = {q1, q2}
  Params = {p1, p2, p3, p4}
  Size <- OneRowEach
  Takes = {q2}
  Unbindable = {p3}
  Narrows <- MCNarrows
  Bindings <- Binds
  DefaultBatch = 3
  BatchSizes = {1, 3}
  Faults = {"error", "sql"}
  Abandons = FALSE
  Columns = 2
  InferRows = {1, 3}
  MaxRows = 3
  Databases <- MCDatabases
  Wanted <- MCWanted
  CatalogFaults = {"prepare", "tables"}
  Codes <- MCCodes
  TableRows <- MCTableRows
  SchemaRows = 2
  Dbs = {d1, d2}
  Conns = {c1, c2}
  Uris = {"file"}
  Memory = "memory"
  Entries = {x1, x2}
  Connections = {c1}
  Rows = {r1, r2, r3}
  Deferred = {r3}
  EarlyOptions = TRUE
  AutoRollbacks = FALSE
  ReturnDeferred = {r1}
SPECIFICATION MCSpec
PROPERTY CallsReturn
