CONSTANTS
  Block = 4
  Lanes = 3
  MessageLists <- MCMessageLists
SPECIFICATION HashSpec
INVARIANT HashedAsAlone
CHECK_DEADLOCK FALSE
