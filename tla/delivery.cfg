\* Two publishers of one day, two exporters, one consumer.
CONSTANTS
  p = p  q = q  beat = beat  shell = shell  a = a
  Publishers = {p, q}
  Limit = 1
  AcrossMidnight = FALSE
  MaxIds = 2
  MaxVersions = 2
  MaxDay = 1
  Beat = beat
  Operators = {shell}
  Sources = {a}
  MaxByHand = 1
  MaxEvents = 1
SPECIFICATION Spec
INVARIANTS
  TypeOK
  SinceIsEnough
  CleanIsVerified
PROPERTIES
  DayLogs
  RevokedRowsLeave
  VerifiedAgain
CHECK_DEADLOCK FALSE
