\* The worker of order events, the relay before it and a rebuild while the worker is
\* stopped, with two crashes.
SPECIFICATION RebuildFairSpec
CONSTANTS
  LastVersion = 3
  MaxCrashes = 2
  Workers = {w1}
  Unstarted = FALSE
  WorkerStopped = TRUE
INVARIANTS OutboxIsFaithful ViewIsPrefix RebuiltIsComplete
PROPERTIES MovesForward CatchesUp
CHECK_DEADLOCK FALSE
