SPECIFICATION FairSpec
CONSTANTS
  Node = {1, 2, 3, 4}
  NodeWeight = {1}
  LinkWeight = {1, 2, 3}
  Selector = "heavy"
  Memory = {FALSE, TRUE}
  NoNode = NoNode
  Percent = {0, 50, 100}
  BaseCount = {4}
  MaxRuns = 2
INVARIANTS TypeOK SelectorIsLive EveryNodeQueued ScoresAreExact NoFailureWithoutMemory
PROPERTIES NeverSelectedTwice RunsReturn ImplementsContraction
CHECK_DEADLOCK FALSE
