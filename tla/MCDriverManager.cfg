SPECIFICATION MCSpec
CONSTANTS
  c1 = c1
  c2 = c2
  c3 = c3
  s1 = s1
  s2 = s2
  k1 = k1
  v1 = v1
  v2 = v2
  Connections = {c1, c2}
  Statements = {s1, s2}
  Keys = {k1}
  Values = {v1}
  PyConnections = {c1, c2, c3}
  Cursors = {s1, s2}
  MaxCloses = 2
  Streams = {"a", "b"}
  Failures <- AllFailures
  Tables <- UsualTables
  Scenarios = {"handles", "memory", "R", "glib", "python"}
  GLibFailures = {"load", "StatementNew"}
SYMMETRY Symmetry
INVARIANTS NoOtherFault FinalizersInOrder OptionsReachDriver NothingLost
           StreamsHaveOneOwner UnrefIsSafe DatabaseOutlives LastCloseReleases
