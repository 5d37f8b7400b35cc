\* Two mosques, two shells that fill in websites.
CONSTANTS
  m1 = m1  m2 = m2  c1 = c1  c2 = c2  beat = beat  shell = shell  ann = ann
  Mosques = {m1, m2}
  Banned = {}
  Listed <- Both
  Curators = {c1, c2}
  Beat = beat
  Shell = shell
  Admins = {ann}
  None = None
  MaxEvents = 0
SPECIFICATION Safety
PROPERTY OsmWebsiteKept
CHECK_DEADLOCK FALSE
