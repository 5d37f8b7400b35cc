\* Two publishers at once and over midnight, rival rows, bad values, one manual row.
CONSTANTS
  c1 = c1  c2 = c2  c3 = c3
  a = a  b = b
  x = x  y = y
  good = good  other = other
  p = p  q = q
  Cands = {c1, c2, c3}
  Sources = {a, b}
  Slots = {x, y}
  Values = {good, other}
  Bad = {other}
  NoValue = none
  SourceOf <- RivalSource
  SlotOf <- RivalSlot
  Manual = {c2}
  Ai = {c2}
  AllowAi = TRUE
  Publishers = {p, q}
  Filters <- FullAndSlot
  MaxPublishes = 2
  MaxEdits = 4
  MaxDay = 2
SPECIFICATION Spec
INVARIANTS
  TypeOK
  PublishedRowsSound
  NewestUnlessOvertaken
  OneWriterADay
PROPERTIES
  PublishEnds
  RefinesTurns
CHECK_DEADLOCK FALSE
