SPECIFICATION Spec
CONSTANTS
  N = 3
  M = 8
  USE_FASTPATH = TRUE
INVARIANTS
  EachItemAtMostOnce
  AllItemsProcessed
  LeavesNoWorkBehind
  WrapStaysAboveThreshold
  PortableLengthWithinBounds
