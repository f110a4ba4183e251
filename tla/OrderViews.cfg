\* One order; a restart, a lost stream or request, or events read again; a board
\* that asks twice for a new row and a tracking page that pauses after two polls.
SPECIFICATION MCSpec
CONSTANTS
  Readers = {"board", "tracker"}
  Outsiders = {}
  Lists = {1}
  MaxFailures = 1
  MaxTries = 2
  MaxAttempts = 2
INVARIANTS StopsAtTheEnd ReconnectHeals
PROPERTY CustomerIsTold
CHECK_DEADLOCK FALSE
