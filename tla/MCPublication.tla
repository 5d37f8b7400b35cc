--------------------------- MODULE MCPublication ----------------------------
(* Small instances of Publication: what its constants are in the .cfg files. *)
EXTENDS Publication, TLC

CONSTANTS
  c1, c2, c3,   \* candidates
  a, b,         \* sources
  x, y,         \* sessions
  good, other,  \* values
  p, q          \* publishers

\* Two sources that both cover session x.
SerialSource == [c \in Cands |-> IF c = c2 THEN b ELSE a]
SerialSlot == [c \in Cands |-> IF c = c3 THEN y ELSE x]

\* Two rows of source a for session x, so that imports and validations conflict.
RivalSource == [c \in Cands |-> IF c = c3 THEN b ELSE a]
RivalSlot == [c \in Cands |-> IF c = c3 THEN y ELSE x]

Full == [slots |-> Slots, sources |-> Sources, partial |-> FALSE]
BySource(s) == [slots |-> Slots, sources |-> {s}, partial |-> TRUE]
BySlot(t) == [slots |-> {t}, sources |-> Sources, partial |-> TRUE]

SerialFilters == {Full, BySource(a), BySlot(x)}
ValueSymmetry == Permutations(Values)

PublisherSymmetry == Permutations(Publishers)

FullOnly == {Full}
FullAndSlot == {Full, BySlot(x)}
=============================================================================
