SPECIFICATION Spec
CONSTANTS
  M = 16
  Builds = {"portable"}
  Functions <- UpTo2d
  Ranges = {0, 1, 2}
  Tiles = {1}
  ThreadsCounts = {2}
  Uarchs = {0}
  CallerFpus = {TRUE}
  USE_CPUINFO = FALSE
INVARIANTS
  EnoughItems
CHECK_DEADLOCK FALSE
