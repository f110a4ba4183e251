\* A documented claim the code does not keep: the money of a cancelled order.
SPECIFICATION Spec
CONSTANTS
  MaxAttempts = 2
  PlaceIds = {1}
  Amounts = {9, 10}
  DeclineThreshold = 10
INVARIANT CaptureOnlyOnAccept
CHECK_DEADLOCK FALSE
