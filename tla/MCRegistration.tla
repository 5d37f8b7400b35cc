--------------------------- MODULE MCRegistration ---------------------------
(* Small instances of Registration: what its constants are in the .cfg files. *)
EXTENDS Registration

CONSTANTS
  m1, m2,           \* mosques
  c1, c2,           \* curators
  beat, shell, ann  \* registrars, an administrator

\* OpenStreetMap has a website for the first mosque, MuslimsInBritain for the other one.
OneEach == [osm |-> {m1}, mib |-> {m2}]

\* Both have one for the first mosque.
Both == [osm |-> {m1}, mib |-> {m1, m2}]
=============================================================================
