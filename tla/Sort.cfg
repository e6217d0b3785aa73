SPECIFICATION Spec
CONSTANTS
  Values = {1, 2, 3, 4}
  MaxLength = 5
  MaxShuffle = 1
INVARIANT DepthBound
PROPERTY SortsArray
CHECK_DEADLOCK FALSE
