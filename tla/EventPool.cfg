SPECIFICATION FairSpec
CONSTANTS
  Workers = {w1, w2}
  Callers = {c1, c2}
  Nobody = Nobody
INVARIANTS
  TypeOK
  WaitsEndForAReason
  NoLostWakeup
  EventsOfTheNextOperation
  NothingStaleIsRead
PROPERTIES
  IsForkJoin
CHECK_DEADLOCK FALSE
