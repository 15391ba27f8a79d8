SPECIFICATION FairSpec
CONSTANTS
  Workers = {w1, w2}
  Callers = {c1}
  Nobody = Nobody
  NoDenormals = {w1}
  CREATE_MAY_FAIL = FALSE
PROPERTIES
  OperationReturns
  IsForkJoin
CHECK_DEADLOCK FALSE
