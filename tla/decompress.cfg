CONSTANTS
  MaxThreads = 2
  MaxBlocks = 6
  MaxAltered = 4
SPECIFICATION Spec
INVARIANTS
  JobHasOneOwner
  OutputIsPrefix
  SuccessIsWhole
  
PROPERTY Termination
CHECK_DEADLOCK FALSE
