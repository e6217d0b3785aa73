SPECIFICATION Spec
CONSTANTS
  FRAME_AMOUNT = 6
  BITS = 3
  FRAME_SIZE = 2
INVARIANT TypeOK
PROPERTY ImplementsFrameSet
