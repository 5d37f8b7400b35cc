\* One publisher: a publish after a source was made private.
CONSTANTS
  c1 = c1  c2 = c2  c3 = c3
  a = a  b = b
  x = x  y = y
  p = p  q = q
  good = good  other = other
  Cands = {c1, c3}
  Sources = {a, b}
  Slots = {x, y}
  Values = {good}
  Bad = {}
  NoValue = none
  SourceOf <- RivalSource
  SlotOf <- RivalSlot
  Manual = {}
  Ai = {}
  AllowAi = FALSE
  Publishers = {p}
  Filters <- FullOnly
  MaxPublishes = 2
  MaxEdits = 5
  MaxDay = 1
SPECIFICATION Safety
INVARIANT RemovalsAnnounced
CHECK_DEADLOCK FALSE
