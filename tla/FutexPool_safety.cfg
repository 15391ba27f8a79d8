SPECIFICATION Spec
CONSTANTS
  Workers = {w1, w2}
  Callers = {c1, c2}
  Nobody = Nobody
  NoDenormals = {}
  CREATE_MAY_FAIL = TRUE
INVARIANTS
  TypeOK
  ActiveThreadsCountsOwers
  NoEarlyReturn
  WorkersSeeTheOperation
  DenormalsFollowTheOperation
  NoLostWakeup
  NothingStaleIsRead
PROPERTIES
  NoStoreWhileBusy
CHECK_DEADLOCK FALSE
SYMMETRY Symmetry
