SPECIFICATION Spec
CONSTANTS
  Values = {1, 2}
  MaxRadius = 2
  MaxSize = 5
  MaxScroll = 3
INVARIANTS SliceInBounds SliceIsReach ShrinkKeepsSlice CurrentFollowsItsValue
