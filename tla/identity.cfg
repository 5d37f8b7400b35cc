\* Two imports of the same records, an administrator deciding meanwhile.
CONSTANTS
  m1 = m1  m2 = m2  a = a  b = b  i1 = i1  i2 = i2  ann = ann
  Mosques = {m1, m2}
  Sources = {a}
  Importers = {i1, i2}
  Admins = {ann}
  New = New
  None = None
  MaxReviews = 3
  MaxEvents = 1
SPECIFICATION Spec
SYMMETRY Symmetry
INVARIANTS
  TypeOK
  OnePendingReview
  NothingForgotten
PROPERTY LinksMoveOnPurpose
CHECK_DEADLOCK FALSE
