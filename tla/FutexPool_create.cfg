SPECIFICATION FairSpec
CONSTANTS
  Workers = {w1, w2}
  Callers = {c1}
  Nobody = Nobody
  NoDenormals = {}
  CREATE_MAY_FAIL = TRUE
PROPERTIES
  CreateReturns
CHECK_DEADLOCK FALSE
