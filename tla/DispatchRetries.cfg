\* One order, two drivers, two attempts of up to two of its activities.
SPECIFICATION Spec
CONSTANTS
  MaxAttempts = 2
  Orders = {o1}
  Drivers = {d1, d2}
  MaxOffers = 2
  MaxRetried = 2
  MaxAnswers = 2
INVARIANTS Consent NoDriverMeansNoDriver
PROPERTY DecisionsHold
CONSTRAINT Bounds
SYMMETRY Symmetry
CHECK_DEADLOCK FALSE
