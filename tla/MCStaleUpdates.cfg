SPECIFICATION Spec
CONSTANTS
  Node = {1, 2, 3, 4}
  NodeWeight = {1}
  LinkWeight = {1, 2, 3}
  Selector = "heavy"
  Memory = {TRUE}
  NoNode = NoNode
  Percent = {100}
  BaseCount = {4}
  MaxRuns = 1
INVARIANTS UpdatesOnlyTriangles
CHECK_DEADLOCK FALSE
