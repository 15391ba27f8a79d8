SPECIFICATION Spec
CONSTANTS
  M = 1024
  Builds = {"portable", "fastpath", "shim"}
  Functions <- AllFunctions
  Ranges = {1, 3}
  Tiles = {1, 2, 3}
  ThreadsCounts = {1, 2}
  Uarchs = {0, 1}
  CallerFpus = {TRUE, FALSE}
  USE_CPUINFO = TRUE
INVARIANTS
  ItemIsTheLoops
  NothingIsLeftOut
  IdsAreExpected
  SequentialDenormals
CHECK_DEADLOCK FALSE
