\* A documented claim the code does not keep: the operator's board, and no failures.
SPECIFICATION BoardFairSpec
CONSTANTS
  Readers = {"board", "tracker"}
  Outsiders = {"board"}
  Lists = {1}
  MaxFailures = 0
  MaxTries = 2
  MaxAttempts = 2
PROPERTY NewOrderIsListed
CHECK_DEADLOCK FALSE
