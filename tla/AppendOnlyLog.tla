--------------------------- MODULE AppendOnlyLog ----------------------------
(***************************************************************************)
(* What docs/api/README.md calls the change feed: "append-only".  Entries  *)
(* are numbered; none is removed, and every new one of a log comes after   *)
(* all that readers have been shown of it, so that the last number read is *)
(* enough to go on from.                                                   *)
(***************************************************************************)
EXTENDS Naturals

CONSTANT Logs
VARIABLE shown    \* log -> numbers of the entries shown

Init == shown = [l \in Logs |-> {}]

Append ==
  \A l \in Logs :
    /\ shown[l] \subseteq shown'[l]
    /\ \A new \in shown'[l] \ shown[l], old \in shown[l] : new > old

Spec == Init /\ [][Append]_shown

=============================================================================
