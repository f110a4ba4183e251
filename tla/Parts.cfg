\* Two orders, with two reads and a decision of the sheet at a time;
\* three rotations and crashes; two overlapping requests and three edits of a tenant;
\* two pings, and two losses; lists of two of three orders, of two tenants.
SPECIFICATION MCSpec
CONSTANTS
  MaxOrders = 2
  Skus = {s1}
  MaxQty = 1
  Slots = {f1, f2}
  Decisions = {a1}
  MaxRotations = 3
  MaxCrashes = 3
  Requests = {r1, r2}
  MaxEdits = 3
  MaxFailures = 2
  MaxPings = 2
  MaxLosses = 2
  MaxWatches = 2
  Rows = 3
  Tenants = {"berlin", "tokyo"}
  Goods = {1, 2}
  Cap = 2
  TopLimit = 1
INVARIANTS
  CheckoutIsSound ButtonComesBack SheetIsSound RotationIsSafe SealedAtRest
  MarkerOnlyEnRoute WatchEnds FiguresAgree
PROPERTIES EditTakesEffect PositionCatchesUp
CHECK_DEADLOCK FALSE
