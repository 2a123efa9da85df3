SPECIFICATION Spec
CONSTANTS
  Capacity = 2
  MaxMessages = 6
INVARIANTS
  EmptyMailboxMeansEmptyBuffer
CHECK_DEADLOCK FALSE
