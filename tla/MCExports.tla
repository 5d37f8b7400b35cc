----------------------------- MODULE MCExports ------------------------------
(* Small instances of Exports: what its constants are in the .cfg files. *)
EXTENDS Exports

CONSTANTS
  p, q,         \* publishers
  beat, shell,  \* exporters
  a             \* a source
=============================================================================
