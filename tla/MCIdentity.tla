----------------------------- MODULE MCIdentity -----------------------------
(* Small instances of Identity: what its constants are in the .cfg files. *)
EXTENDS Identity, TLC

CONSTANTS
  m1, m2,       \* mosques
  a, b,         \* sources
  i1, i2,       \* importers
  ann           \* an administrator

Symmetry == Permutations(Mosques) \cup Permutations(Sources) \cup Permutations(Importers)
=============================================================================
