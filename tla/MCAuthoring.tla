---------------------------- MODULE MCAuthoring -----------------------------
(* Small instances of Authoring: what its constants are in the .cfg files. *)
EXTENDS Authoring, TLC

CONSTANTS
  s1, s2,       \* websites
  o             \* orchestrators
=============================================================================
