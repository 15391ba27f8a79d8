SPECIFICATION FairSpec
CONSTANTS
  Workers = {w1, w2}
  Callers = {c1}
  Nobody = Nobody
INVARIANTS
  TypeOK
  ActiveThreadsCountsOwers
  NoLostWakeup
  NothingStaleIsRead
PROPERTIES
  IsForkJoin
CHECK_DEADLOCK FALSE
