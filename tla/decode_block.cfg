CONSTANTS
  MinMatch = 2
  ExactLL = 5
  ExactM = 10
  ExactPairs <- MCExactPairs
  Base = 21
  Half = 3
  PtrMax = 1023
  Blocks <- MCBlocks
  Junk = junk
SPECIFICATION Spec
INVARIANT InBounds
PROPERTY Decodes
CHECK_DEADLOCK FALSE
