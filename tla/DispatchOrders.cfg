\* Two orders that compete for one driver; an activity is tried once.
SPECIFICATION FairSpec
CONSTANTS
  MaxAttempts = 1
  Orders = {o1, o2}
  Drivers = {d1}
  MaxOffers = 1
INVARIANT BusyIsAccountedFor
PROPERTY DispatchEnds
CHECK_DEADLOCK FALSE
