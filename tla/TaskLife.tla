------------------------------ MODULE TaskLife ------------------------------
(***************************************************************************)
(* What a source is promised by the nights that author its script: every   *)
(* outcome counts as an attempt, attempts are limited, and a source that   *)
(* has been deployed, put to a person, or given up is not attempted again  *)
(* until its script is pruned, which forgives it.  Authoring implements it *)
(* while nights do not overlap.                                            *)
(***************************************************************************)
EXTENDS Naturals

CONSTANTS Sources, MaxAttempts

VARIABLE task   \* source -> [status, attempts]

Outcomes == {"retry", "permanent", "awaiting", "deployed", "skipped"}
Forgiven == {"retry", "permanent", "skipped"}

Init == task = [s \in Sources |-> [status |-> "none", attempts |-> 0]]

\* Never attempted since it appeared or was forgiven, or worth another attempt.
Open(t) == t.attempts = 0 \/ (t.status = "retry" /\ t.attempts < MaxAttempts)

\* An outcome may have been decided on a task that was forgiven since: it then
\* counts from what that task was.
Attempt(s) ==
  /\ Open(task[s])
  /\ \E st \in Outcomes, n \in task[s].attempts + 1 .. MaxAttempts :
       task' = [task EXCEPT ![s] = [status |-> st, attempts |-> n]]

Forgive(S) ==
  \E st \in [S -> Forgiven] :
    task' = [s \in Sources |->
               IF s \in S THEN [status |-> st[s], attempts |-> 0] ELSE task[s]]

Next ==
  \/ \E s \in Sources : Attempt(s)
  \/ \E S \in SUBSET Sources : Forgive(S)

Spec == Init /\ [][Next]_task

=============================================================================
