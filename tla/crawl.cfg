\* Two websites, two workers, a beat that does not wait for them.
CONSTANTS
  s1 = s1  s2 = s2
  w1 = w1  w2 = w2
  Sources = {s1, s2}
  Workers = {w1, w2}
  Scripted = {s1}
  Assigned = {s1}
  Backoff <- ShortBackoff
  RunHours <- Often
  CrawlHours = 0
  LongestPause = 0
  MaxStrikes = 3
  MaxCopies = 1
  MaxEvents = 1
SPECIFICATION Spec
INVARIANTS
  TypeOK
  ThreeStrikesOut
PROPERTIES
  DueIsRun
  HomepageServed
CHECK_DEADLOCK FALSE
