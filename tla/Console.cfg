SPECIFICATION Spec
CONSTANTS
  COLUMNS = 3
  LINES = 2
  MODULUS = 256
  Calls <- MCCalls
  PanicCall <- MCPanicCall
  MaxCalls = 3
PROPERTY ImplementsTerminal
CHECK_DEADLOCK FALSE
