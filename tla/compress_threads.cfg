CONSTANTS
  MaxThreads = 2
  BlockSize = 2
  MaxLength = 13
SPECIFICATION Spec
INVARIANTS
  JobHasOneOwner
  BlocksLeaveInOrder
  RoundTripUnlessWholeBlocks
PROPERTY Termination
CHECK_DEADLOCK FALSE
