\* Two orders, two drivers; four events of the workflows; one lost stream,
\* request or attempt, or message read twice.
SPECIFICATION MCSpec
CONSTANTS
  Orders = {o1, o2}
  Me = me
  Other = other
  None = nobody
  MaxLog = 4
  MaxFailures = 1
SYMMETRY OrderSymmetry
INVARIANTS JobIsMine PageIsCurrent ToggleAgrees MapIsCurrent
PROPERTY MapOnlyMovesForward
CHECK_DEADLOCK FALSE
