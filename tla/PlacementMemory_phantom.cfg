SPECIFICATION AnyOrderSpec
CONSTANTS
  MAX_MEMORY_AREAS_SIZE = 3
  W = 6
  Past <- MCPast
PROPERTY AllocateAreaTakesFree
