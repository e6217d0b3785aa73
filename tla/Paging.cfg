SPECIFICATION Spec
CONSTANTS
  ENTRIES = 4
  FRAME_SIZE = 2
  FrameCount = 15
  page_table_count = 1
  PLACEMENT_FRAMES = 3
  PlacementStarts = {8, 9}
INVARIANTS TypeOK Isolation InUseIsMarked HandlerWindows
PROPERTIES MappingsStable AccessCompletes
