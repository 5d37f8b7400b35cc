\* Two publishers, one of them filtered, no rivals: is what the other published kept?
CONSTANTS
  c1 = c1  c2 = c2  c3 = c3
  a = a  b = b
  x = x  y = y
  p = p  q = q
  good = good  other = other
  Cands = {c1, c3}
  Sources = {a, b}
  Slots = {x, y}
  Values = {good}
  Bad = {}
  NoValue = none
  SourceOf <- RivalSource
  SlotOf <- RivalSlot
  Manual = {}
  Ai = {}
  AllowAi = FALSE
  Publishers = {p, q}
  Filters <- FullAndSlot
  MaxPublishes = 2
  MaxEdits = 5
  MaxDay = 1
SPECIFICATION Safety
INVARIANT CarriedForward
CHECK_DEADLOCK FALSE
