SPECIFICATION UsageSpec
CONSTANTS
  MAX_MEMORY_AREAS_SIZE = 3
  W = 8
  Past <- MCPast
INVARIANTS Separated CoverProgress CleanTail
PROPERTY ImplementsFreeMap
