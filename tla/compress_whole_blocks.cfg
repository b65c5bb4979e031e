CONSTANTS
  MaxThreads = 2
  BlockSize = 2
  MaxLength = 13
SPECIFICATION Spec
INVARIANT RoundTrip
CHECK_DEADLOCK FALSE
