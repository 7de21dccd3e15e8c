SPECIFICATION Spec
CONSTANTS
  n1 = n1
  n2 = n2
  Names = {n1,n2}
  MaxElements = 1
  StackLimit = 2
  MaxBlocks = 5
INVARIANTS
  OwnedOnce
  PointersAlive
CHECK_DEADLOCK FALSE
