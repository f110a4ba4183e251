\* One page with a fetch and a stream that starts from a session left by an earlier
\* visit; two refreshes, which a reload or a timeout makes run side by side.
\* A grace window and an access token of one tick, a refresh token of one more.
SPECIFICATION FairSpec
CONSTANTS
  Pages = {p1}
  Callers = {c1, c2}
  Streams = {c2}
  Requests = {1, 2}
  MaxTokens = 3
  Grace = 1
  AccessTtl = 1
  RefreshTtl = 1
  MaxClock = 2
INVARIANTS BenignRaceKeepsSession FamilyStaysUsable CookieIsGood
PROPERTY WaitersSettle
CHECK_DEADLOCK FALSE
