SPECIFICATION FairSpec
CONSTANTS
  N = 4
  Callers = {c1, c2}
  Helpers = {h1, h2}
  Nobody = Nobody
  NoDenormals = {c2}
INVARIANTS
  TypeOK
  DenormalsFollowTheOperation
PROPERTIES
  IsParallelFor
CHECK_DEADLOCK FALSE
