\* One orchestrator a night over an ordinary and a banned website.
CONSTANTS
  s1 = s1  s2 = s2
  o = o
  Sources = {s1, s2}
  Aggregators = {}
  Umbrellas = {s2}
  Orchestrators = {o}
  Concurrency = 1
  MaxAttempts = 2
  MaxRepairs = 1
  MaxEvents = 2
SPECIFICATION Spec
INVARIANTS
  TypeOK
  DeployedIsAssigned
  AttemptsBounded
PROPERTIES
  SettledIsLeftAlone
  RefinesLife
  NoEternalCandidate
CHECK_DEADLOCK FALSE
