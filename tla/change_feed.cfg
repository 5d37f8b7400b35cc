\* Two publishers, one of which may run over midnight.
CONSTANTS
  Publishers = {p, q}
  Limit = 2
  AcrossMidnight = TRUE
  MaxIds = 4
  MaxVersions = 3
  MaxDay = 2
SPECIFICATION FeedSpec
INVARIANT SinceIsEnough
CHECK_DEADLOCK FALSE
