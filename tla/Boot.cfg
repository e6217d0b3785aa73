SPECIFICATION BootSpec
CONSTANTS
  MAX_MEMORY_AREAS_SIZE = 2
  W = 256
  Past <- MCPast
  WORD = 16
  SIZEOF_LONG = 4
  RESERVED_MEMORY_IN_BYTES = 4
  PLACEMENT_MEMORY_SIZE_IN_BYTES = 4
  FRAME_SIZE = 2
  FrameCount = 8
  BootInfos <- MCBootInfos
  StrayModules <- MCStrayModules
INVARIANTS PlacementInRAM HaltsForCause ContiguousRAMMarked
PROPERTY BootEnds
CHECK_DEADLOCK FALSE
