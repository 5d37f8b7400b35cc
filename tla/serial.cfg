\* One publisher at a time, every filter, a revocable source, two days.
CONSTANTS
  c1 = c1  c2 = c2  c3 = c3
  a = a  b = b
  x = x  y = y
  Cands = {c1, c2, c3}
  Sources = {a, b}
  Slots = {x, y}
  p = p  q = q
  good = good  other = other
  Values = {good, other}
  Bad = {}
  NoValue = none
  SourceOf <- SerialSource
  SlotOf <- SerialSlot
  Manual = {}
  Ai = {}
  AllowAi = FALSE
  Publishers = {p}
  Filters <- SerialFilters
  MaxPublishes = 2
  MaxEdits = 5
  MaxDay = 2
SPECIFICATION Safety
INVARIANTS
  RevokedNotRepublished
  CarriedForward
  ChangesAnnounced
PROPERTY RefinesDataset
SYMMETRY ValueSymmetry
CHECK_DEADLOCK FALSE
