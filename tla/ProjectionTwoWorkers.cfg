\* A documented claim the code does not keep: two workers, one too late.
SPECIFICATION Spec
CONSTANTS
  LastVersion = 2
  MaxCrashes = 1
  Workers = {w1, w2}
  Unstarted = FALSE
PROPERTY OnlyMovesForward
CHECK_DEADLOCK FALSE
