CONSTANTS
  BatchSize = 2
  MaxFiles = 2
  MaxFragments = 3
SPECIFICATION Spec
INVARIANT EveryFragmentStored
CHECK_DEADLOCK FALSE
