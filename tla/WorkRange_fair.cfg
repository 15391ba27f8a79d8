SPECIFICATION FairSpec
CONSTANTS
  N = 2
  M = 8
  USE_FASTPATH = TRUE
INVARIANTS
  TypeOK
PROPERTIES
  OperationReturns
  IsParallelFor
CHECK_DEADLOCK TRUE
