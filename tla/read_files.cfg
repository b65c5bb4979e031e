CONSTANTS
  BatchSize = 2
  MaxFiles = 2
  MaxFragments = 3
SPECIFICATION Spec
INVARIANTS
  BatchHasOneOwner
  StoredInOrder
  LossIsUntaken
PROPERTY Termination
CHECK_DEADLOCK FALSE
