SPECIFICATION Spec
CONSTANTS
  Node = {1, 2, 3, 4, 5}
  NodeWeight = {1}
  LinkWeight = {1}
  Selector = "x"
  Memory = {FALSE, TRUE}
  NoNode = NoNode
  Percent = {20, 60, 100}
  BaseCount = {5}
  MaxRuns = 2
INVARIANTS SelectorIsLive WeightConserved HLinksAreSums MergesAsRequested
PROPERTIES ImplementsContraction
CHECK_DEADLOCK FALSE
