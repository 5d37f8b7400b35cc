\* Publishes one after another, up to twelve on a day.
CONSTANTS
  MaxDay = 2
  MaxPatch = 12
SPECIFICATION NamingSpec
INVARIANT NameFree
CHECK_DEADLOCK FALSE
