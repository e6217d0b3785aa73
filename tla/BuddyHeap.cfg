SPECIFICATION Spec
CONSTANTS
  MIN_ALLOC_LOG2 = 4
  MAX_ALLOC_LOG2 = 7
  HEADER_SIZE = 8
  LIST_SIZE = 8
  Requests = {8, 24, 56, 120, 121}
INVARIANTS TypeOK Tiling SplitBits Coalesced Reserved GrowYieldsBlock NullOnlyWhenExhausted
PROPERTIES Returns ImplementsAllocator
