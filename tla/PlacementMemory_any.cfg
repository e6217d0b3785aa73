SPECIFICATION Spec
CONSTANTS
  MAX_MEMORY_AREAS_SIZE = 2
  W = 5
  Past <- MCPast
INVARIANT TypeOK
PROPERTY CoverTerminates
