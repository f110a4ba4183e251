\* A documented claim the code does not keep: one job at a time.
SPECIFICATION Spec
CONSTANTS
  MaxAttempts = 1
  Orders = {o1, o2}
  Drivers = {d1}
  MaxOffers = 1
INVARIANT OneJobAtATime
CHECK_DEADLOCK FALSE
