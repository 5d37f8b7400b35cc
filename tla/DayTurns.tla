------------------------------ MODULE DayTurns ------------------------------
(***************************************************************************)
(* How publishes take turns although nothing in the code makes them: each  *)
(* writes a version of a day that has begun, and no two write versions of  *)
(* one day.  Publication implements it by the names it chooses and their   *)
(* unique index; ChangeFeed, which knows of names only that, implements it *)
(* by its guard.                                                           *)
(***************************************************************************)
EXTENDS Naturals

CONSTANT Publishers

VARIABLES
  day,      \* today
  writing   \* publisher -> the day whose version it is writing, 0 for none

Init == day = 1 /\ writing = [p \in Publishers |-> 0]

Begin(p) ==
  /\ writing[p] = 0
  /\ \E d \in 1..day :
       /\ \A q \in Publishers : writing[q] # d
       /\ writing' = [writing EXCEPT ![p] = d]
  /\ UNCHANGED day

End(p) ==
  /\ writing[p] # 0
  /\ writing' = [writing EXCEPT ![p] = 0]
  /\ UNCHANGED day

NextDay == day' = day + 1 /\ UNCHANGED writing

Next == NextDay \/ \E p \in Publishers : Begin(p) \/ End(p)

Spec == Init /\ [][Next]_<<day, writing>>

=============================================================================
