SPECIFICATION MCSpec
CONSTANTS
  Scenarios = {"reader", "queries", "reports", "contract"}
  MaxEndpoints = 3
  MaxRecords = 2
  BufferSize = 1
  MaxRefs = 2
  Infos <- HandledInfos
  Cancellable = TRUE
  c1 = c1
  c2 = c2
  q1 = q1
  None = None
  Connections = {c3}
  Statements = {s1}
  Queries = {q1, q2}
  Params = {p1}
  Rows = {1}
  Txns = {1}
  Handles = {1, 2}
  Faults <- AnyFault
  Habits = {"closeInTransaction"}
INVARIANTS TypeOK CompleteOrError Ownership ReleaseIsFinal NoPanic
           ReportsAreTrue RunsLatest NothingIsLost
PROPERTIES ReleaseReturns NextReturns InOrder ImplementsStream ContractIsKept
