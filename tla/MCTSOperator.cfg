SPECIFICATION Spec
CONSTANTS
  Node = {1, 2}
  MaxLayers = 4
  MaxRadius = 2
  BaseLayers = {1, 2, 3}
  MaxRuns = 2
INVARIANTS TallStacksFilterRight AllOrNothing
CHECK_DEADLOCK FALSE
