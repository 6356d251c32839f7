SPECIFICATION Spec
CONSTANTS
  NoFile = NoFile
  Throws = Throws
  Hash = Hash
  Word = Word
  a = a
  b = b
  Label <- MCLabel
  NoNumber = NoNumber
  NoText = NoText
  NoDatabase = NoDatabase
  NodeFile <- MCNodeFile
  EdgeFile <- MCEdgeFile
  SnapFile <- MCSnapFile
  Plan <- MCPlan
  MaxIterations = 2
  MaxLaunches = 2
  MaxLines = 2
  MaxParts = 2
INVARIANT LastValueWritten
CHECK_DEADLOCK FALSE
