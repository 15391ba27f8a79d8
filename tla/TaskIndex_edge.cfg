SPECIFICATION FairSpec
CONSTANTS
  M = 16
  Builds = {"portable", "fastpath"}
  Functions <- UpTo2d
  Ranges = {0, 1, 2, 7, 14}
  Tiles = {4, 5}
  ThreadsCounts = {1, 2}
  Uarchs = {0}
  CallerFpus = {TRUE}
  USE_CPUINFO = FALSE
INVARIANTS
  TypeOK
  ItemIsTheLoops
  NothingIsLeftOut
PROPERTIES
  CallReturns
CHECK_DEADLOCK FALSE
