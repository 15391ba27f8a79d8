SPECIFICATION Spec
CONSTANTS
  N = 2
  M = 8
  USE_FASTPATH = TRUE
INVARIANTS
  LengthWithinBounds
