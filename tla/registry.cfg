\* Two mosques, a shell that fills in websites, two actors that register.
CONSTANTS
  m1 = m1  m2 = m2  c1 = c1  c2 = c2  beat = beat  shell = shell  ann = ann
  Mosques = {m1, m2}
  Banned = {}
  Listed <- OneEach
  Curators = {c1}
  Beat = beat
  Shell = shell
  Admins = {ann}
  None = None
  MaxEvents = 2
SPECIFICATION Spec
INVARIANTS
  TypeOK
  BlockedByRevived
PROPERTIES
  WebsitesRegistered
CHECK_DEADLOCK FALSE
