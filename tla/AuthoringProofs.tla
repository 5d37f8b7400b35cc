--------------------------- MODULE AuthoringProofs ---------------------------
(***************************************************************************)
(* Theorems about Authoring: what is deployed has an assignment, for any   *)
(* number of nights at once; and, when nights do not overlap, attempts are *)
(* bounded and settled tasks are left alone, for any number of sources,    *)
(* agent calls, prunings and interruptions.                                *)
(***************************************************************************)
EXTENDS Authoring, TLAPS

\* What pruning may leave in a task.
Leaves == {"retry", "permanent", "skipped"}

\* A pruning run tests scripts of sources that have an assignment, and what it
\* resets is not left settled.
PruneTypeOK ==
  /\ \A s \in prune.live : HasRow(s)
  /\ \A s \in DOMAIN prune.reset : prune.reset[s].status \in Leaves

\* Tasks that no row stands for have no attempts.
NoTaskOK == \A s \in Sources : task[s].status = "none" => task[s].attempts = 0

BaseInv == TypeOK /\ PruneTypeOK /\ NoTaskOK /\ DeployedIsAssigned

-----------------------------------------------------------------------------
(* Helpers. *)

LEMMA ResetType ==
  ASSUME NEW st \in TaskStatuses
  PROVE  /\ Reset(st) \in Tasks
         /\ Reset(st).attempts = 0
         /\ Reset(st).status = st
BY DEF Reset, Tasks

LEMMA AttemptedType ==
  ASSUME NEW t \in Tasks, NEW st \in TaskStatuses
  PROVE  /\ Attempted(t, st) \in Tasks
         /\ Attempted(t, st).status = st
         /\ Attempted(t, st).attempts = t.attempts + 1
BY DEF Attempted, Tasks

LEMMA AfterPruneType ==
  ASSUME NEW s \in Sources
  PROVE  /\ AfterPrune(s) \in Tasks
         /\ AfterPrune(s).attempts = 0
         /\ AfterPrune(s).status \in Leaves
BY DEF AfterPrune, Reset, Tasks, TaskStatuses, Leaves

\* A job that is begun or moved is a job.
LEMMA NewJobType ==
  ASSUME NEW stage \in Stages
  PROVE  JobAt(stage) \in Jobs /\ NoJob \in Jobs
         /\ JobAt(stage).stage = stage /\ NoJob.stage = "none"
BY AuthoringAssumption
   DEF JobAt, NoJob, Jobs, Stages, Outcomes, NoTask, Tasks, TaskStatuses, AuthoringAssumption

\* The jobs after one has changed.
LEMMA PutJob ==
  ASSUME TypeOK, NEW o \in Orchestrators, NEW s \in Sources, NEW j \in Jobs,
         job' = [job EXCEPT ![o][s] = j]
  PROVE  /\ job' \in [Orchestrators -> [Sources -> Jobs]]
         /\ job'[o][s] = j
         /\ \A p \in Orchestrators, t \in Sources : (p # o \/ t # s) => job'[p][t] = job[p][t]
BY DEF TypeOK

\* A job that has moved differs in its stage alone.
LEMMA MoveJob ==
  ASSUME TypeOK, NEW o \in Orchestrators, NEW s \in Sources, NEW stage \in Stages,
         Move(o, s, stage)
  PROVE  /\ job' \in [Orchestrators -> [Sources -> Jobs]]
         /\ job'[o][s].stage = stage
         /\ \A p \in Orchestrators, t \in Sources : (p # o \/ t # s) => job'[p][t] = job[p][t]
<1> DEFINE j == [job[o][s] EXCEPT !.stage = stage]
<1>1. job[o][s] \in Jobs
  BY DEF TypeOK
<1>2. j \in Jobs /\ j.stage = stage
  BY <1>1 DEF Jobs
<1>3. job' = [job EXCEPT ![o][s] = j]
  BY DEF Move
<1> HIDE DEF j
<1> QED
  BY <1>2, <1>3, PutJob, ZenonT(60)

\* So has a job that has decided.
LEMMA DecideJob ==
  ASSUME TypeOK, NEW o \in Orchestrators, NEW s \in Sources, NEW out \in Outcomes,
         Decide(o, s, out)
  PROVE  /\ job' \in [Orchestrators -> [Sources -> Jobs]]
         /\ job'[o][s].stage = "decided"
         /\ \A p \in Orchestrators, t \in Sources : (p # o \/ t # s) => job'[p][t] = job[p][t]
<1> DEFINE j == [job[o][s] EXCEPT !.stage = "decided", !.outcome = out]
<1>1. job[o][s] \in Jobs
  BY DEF TypeOK
<1>2. j \in Jobs /\ j.stage = "decided"
  BY <1>1 DEF Jobs, Stages
<1>3. job' = [job EXCEPT ![o][s] = j]
  BY <1>1 DEF Decide, TypeOK, Jobs
<1> HIDE DEF j
<1> QED
  BY <1>2, <1>3, PutJob, ZenonT(60)

-----------------------------------------------------------------------------
(* What the steps of a night do, in three kinds. *)

\* A step that writes no row: one job goes on.  When it is about to record, it has
\* just read its task.
Quiet(o, s) ==
  /\ Pending(o, s)
  /\ script' \in [Sources -> Qualities]
  /\ job' \in [Orchestrators -> [Sources -> Jobs]]
  /\ \A p \in Orchestrators, t \in Sources : (p # o \/ t # s) => job'[p][t] = job[p][t]
  /\ job'[o][s].stage = "recording" => job'[o][s].seen = task[s]
  /\ UNCHANGED <<assign, crawling, task, prune, events, night>>

\* A job ends with a row written: one more attempt than the task has, or had when it
\* was read, and an active assignment if it is deployed.
Writes(o, s) ==
  /\ Pending(o, s)
  /\ ~TaskHeld(s)
  /\ \E t \in Tasks :
       /\ task' = [task EXCEPT ![s] = t]
       /\ t.status # "none"
       /\ t.status = "deployed" => assign' = [assign EXCEPT ![s] = "active"]
       /\ \/ t.attempts = task[s].attempts + 1
          \/ job[o][s].stage = "recording" /\ t.attempts = job[o][s].seen.attempts + 1
  /\ assign' \in {assign, [assign EXCEPT ![s] = "active"]}
  /\ job' = [job EXCEPT ![o][s] = NoJob]
  /\ night' \in [Orchestrators -> Nights]
  /\ \A p \in Orchestrators : night'[p].on = night[p].on
  /\ UNCHANGED <<script, crawling, prune, events>>

\* A night begins, or ends; a job that is pending then is of one that is on.
Turns(o) ==
  /\ \/ UNCHANGED job
     \/ job' = [job EXCEPT ![o] = [s \in Sources |-> NoJob]]
     \/ \E first \in {"listed", "waiting"} :
          job' = [job EXCEPT ![o] = [s \in Sources |-> IF Candidate(s) THEN JobAt(first) ELSE NoJob]]
  /\ night' \in [Orchestrators -> Nights]
  /\ \A p \in Orchestrators \ {o} : night'[p] = night[p]
  /\ (\E s \in Sources : Pending(o, s)') => night'[o].on
  /\ events' \in 0..MaxEvents
  /\ UNCHANGED <<script, assign, crawling, task, prune>>

LEMMA JobQuiet ==
  ASSUME TypeOK, NEW o \in Orchestrators, NEW s \in Sources,
         \/ PreflightKeep(o, s) \/ Refuse(o, s) \/ CallAgent(o, s) \/ AgentAuthors(o, s)
         \/ AgentGivesUp(o, s) \/ Judge(o, s) \/ ReadTask(o, s)
  PROVE  Quiet(o, s)
<1>s. script \in [Sources -> Qualities]
  BY DEF TypeOK, AssignTypeOK
<1>1. CASE PreflightKeep(o, s)
  <2> DEFINE j == JobAt("waiting")
  <2>1. j \in Jobs /\ j.stage = "waiting"
    BY NewJobType DEF Stages
  <2>2. job' = [job EXCEPT ![o][s] = j]
    BY <1>1 DEF PreflightKeep
  <2> HIDE DEF j
  <2>3. /\ job' \in [Orchestrators -> [Sources -> Jobs]]
        /\ job'[o][s] = j
        /\ \A p \in Orchestrators, t \in Sources : (p # o \/ t # s) => job'[p][t] = job[p][t]
    BY <2>1, <2>2, PutJob, ZenonT(60)
  <2> QED
    BY <1>1, <1>s, <2>1, <2>3 DEF PreflightKeep, Quiet, Pending, assignVars
<1>2. CASE Refuse(o, s)
  <2>1. PICK out \in Outcomes : Decide(o, s, out)
    BY <1>2 DEF Refuse, DomainVerdicts, Outcomes
  <2> QED
    BY <1>2, <1>s, <2>1, DecideJob DEF Refuse, HasSlot, Quiet, Pending, assignVars
<1>3. CASE CallAgent(o, s)
  BY <1>3, <1>s, MoveJob DEF CallAgent, HasSlot, Quiet, Pending, assignVars, Stages
<1>4. CASE AgentAuthors(o, s)
  <2>1. script' \in [Sources -> Qualities]
    BY <1>4, <1>s DEF AgentAuthors
  <2> QED
    BY <1>4, <2>1, MoveJob DEF AgentAuthors, Quiet, Pending, Stages
<1>5. CASE AgentGivesUp(o, s)
  <2>1. script' \in [Sources -> Qualities]
    BY <1>5, <1>s DEF AgentGivesUp
  <2>2. PICK out \in Outcomes : Decide(o, s, out)
    BY <1>5 DEF AgentGivesUp
  <2> QED
    BY <1>5, <2>1, <2>2, DecideJob DEF AgentGivesUp, Quiet, Pending
<1>6. CASE Judge(o, s)
  <2>0. Pending(o, s) /\ UNCHANGED <<assignVars, night>>
    BY <1>6 DEF Judge, Pending
  <2>1. ASSUME NEW out \in Outcomes, Decide(o, s, out)
        PROVE  Quiet(o, s)
    BY <1>s, <2>0, <2>1, DecideJob DEF Quiet, assignVars
  <2>2. CASE /\ job[o][s].repairs < MaxRepairs
             /\ job' = [job EXCEPT ![o][s].stage = "agent", ![o][s].repairs = @ + 1]
    <3> DEFINE n == job[o][s].repairs + 1
               j == [job[o][s] EXCEPT !.stage = "agent", !.repairs = n]
    <3>1. job[o][s] \in Jobs
      BY DEF TypeOK
    <3>a. job[o][s].repairs \in 0..MaxRepairs
      BY <3>1 DEF Jobs
    <3>b. n \in 0..MaxRepairs
      BY <2>2, <3>a, AuthoringAssumption DEF AuthoringAssumption
    <3>2. j \in Jobs /\ j.stage = "agent"
      <4> HIDE DEF n
      <4> QED
        BY <3>1, <3>b DEF Jobs, Stages
    <3>3. job' = [job EXCEPT ![o][s] = j]
      BY <2>2, <3>1 DEF TypeOK, Jobs
    <3> HIDE DEF j
    <3>4. /\ job' \in [Orchestrators -> [Sources -> Jobs]]
          /\ job'[o][s] = j
          /\ \A p \in Orchestrators, t \in Sources : (p # o \/ t # s) => job'[p][t] = job[p][t]
      BY <3>2, <3>3, PutJob, ZenonT(60)
    <3>5. job'[o][s].stage # "recording"
      BY <3>2, <3>4
    <3> QED
      BY <1>s, <2>0, <3>4, <3>5 DEF Quiet, assignVars
  <2> QED
    BY <1>6, <2>1, <2>2 DEF Judge, Outcomes
<1>7. CASE ReadTask(o, s)
  <2> DEFINE j == [job[o][s] EXCEPT !.stage = "recording", !.seen = task[s]]
  <2>1. job[o][s] \in Jobs /\ task[s] \in Tasks
    BY DEF TypeOK, AssignTypeOK
  <2>2. j \in Jobs /\ j.seen = task[s]
    BY <2>1 DEF Jobs, Stages
  <2>3. job' = [job EXCEPT ![o][s] = j]
    BY <1>7, <2>1 DEF ReadTask, TypeOK, Jobs
  <2> HIDE DEF j
  <2>4. /\ job' \in [Orchestrators -> [Sources -> Jobs]]
        /\ job'[o][s] = j
        /\ \A p \in Orchestrators, t \in Sources : (p # o \/ t # s) => job'[p][t] = job[p][t]
    BY <2>2, <2>3, PutJob, ZenonT(60)
  <2> QED
    BY <1>7, <1>s, <2>2, <2>4 DEF ReadTask, Quiet, Pending, assignVars
<1> QED
  BY <1>1, <1>2, <1>3, <1>4, <1>5, <1>6, <1>7

LEMMA JobWrites ==
  ASSUME TypeOK, NEW o \in Orchestrators, NEW s \in Sources,
         PreflightDrop(o, s) \/ Commit(o, s) \/ RecordFailure(o, s)
  PROVE  Writes(o, s)
<1>1. /\ task[s] \in Tasks
      /\ job[o][s] \in Jobs
      /\ night \in [Orchestrators -> Nights]
  BY DEF TypeOK, AssignTypeOK
<1>2. job[o][s].seen \in Tasks /\ job[o][s].outcome \in Outcomes
  BY <1>1 DEF Jobs
<1>a. \A p \in Orchestrators : night[p] \in Nights
  BY <1>1
<1>3. CASE PreflightDrop(o, s)
  <2>1. PICK st \in {"permanent", "skipped"} : task' = [task EXCEPT ![s] = Attempted(task[s], st)]
    BY <1>3 DEF PreflightDrop, DomainVerdicts
  <2>2. /\ Attempted(task[s], st) \in Tasks
        /\ Attempted(task[s], st).status = st
        /\ Attempted(task[s], st).attempts = task[s].attempts + 1
    BY <1>1, AttemptedType DEF TaskStatuses
  <2> QED
    BY <1>1, <1>3, <2>1, <2>2 DEF PreflightDrop, Writes, Pending
<1>4. ASSUME EndJob(o, s)
      PROVE  /\ night' \in [Orchestrators -> Nights]
             /\ \A p \in Orchestrators : night'[p].on = night[p].on
             /\ job' = [job EXCEPT ![o][s] = NoJob]
             /\ UNCHANGED <<script, crawling, prune, events>>
  BY <1>1, <1>4 DEF EndJob, Nights
<1>5. CASE Commit(o, s)
  <2> DEFINE st == RecordedStatus(o, s)
             t == Attempted(job[o][s].seen, st)
  <2>1. st \in TaskStatuses \ {"none"}
    BY <1>2 DEF RecordedStatus, TaskStatuses, Outcomes
  <2>2. st = "deployed" => Deploys(o, s) /\ PassesGates(s)
    BY <1>2 DEF RecordedStatus, Outcomes
  <2>3. t \in Tasks /\ t.status = st /\ t.attempts = job[o][s].seen.attempts + 1
    BY <1>2, <2>1, AttemptedType
  <2>4. /\ task' = [task EXCEPT ![s] = t]
        /\ st = "deployed" => assign' = [assign EXCEPT ![s] = "active"]
        /\ assign' \in {assign, [assign EXCEPT ![s] = "active"]}
        /\ job[o][s].stage = "recording"
        /\ ~TaskHeld(s)
        /\ EndJob(o, s)
    BY <1>5, <2>2 DEF Commit
  <2> HIDE DEF st, t
  <2> QED
    BY <1>4, <2>1, <2>3, <2>4 DEF Writes, Pending
<1>6. CASE RecordFailure(o, s)
  <2>1. /\ Attempted(task[s], "retry") \in Tasks
        /\ Attempted(task[s], "retry").status = "retry"
        /\ Attempted(task[s], "retry").attempts = task[s].attempts + 1
    BY <1>1, AttemptedType DEF TaskStatuses
  <2> QED
    BY <1>4, <1>6, <2>1 DEF RecordFailure, Writes, Pending
<1> QED
  BY <1>3, <1>5, <1>6

LEMMA NightTurns ==
  ASSUME TypeOK, NEW o \in Orchestrators,
         ListCandidates(o) \/ GlobalTimeout(o) \/ NightEnds(o) \/ Kill(o)
  PROVE  Turns(o)
<1>1. night \in [Orchestrators -> Nights] /\ events \in 0..MaxEvents
  BY DEF TypeOK, AssignTypeOK
<1>2. Day \in Nights
  BY DEF Day, Nights
<1>a. job \in [Orchestrators -> [Sources -> Jobs]] /\ NoJob.stage = "none"
  BY DEF TypeOK, NoJob
<1>3. CASE ListCandidates(o)
  <2>1. PICK dry \in BOOLEAN :
          night' = [night EXCEPT ![o] = [on |-> TRUE, dry |-> dry, done |-> FALSE]]
    BY <1>3 DEF ListCandidates
  <2>2. [on |-> TRUE, dry |-> dry, done |-> FALSE] \in Nights
    BY DEF Nights
  <2>3. /\ night' \in [Orchestrators -> Nights]
        /\ \A p \in Orchestrators \ {o} : night'[p] = night[p]
        /\ night'[o].on
    BY <1>1, <2>1, <2>2
  <2> QED
    BY <1>1, <1>3, <2>3 DEF ListCandidates, Turns, assignVars
<1>4. CASE NightEnds(o)
  <2>1. \A s \in Sources : ~Pending(o, s)'
    BY <1>4 DEF NightEnds, Pending
  <2> QED
    BY <1>1, <1>2, <1>4, <2>1 DEF NightEnds, Turns, assignVars
<1>5. CASE GlobalTimeout(o) \/ Kill(o)
  <2>1. /\ night' = [night EXCEPT ![o] = Day]
        /\ job' = [job EXCEPT ![o] = [s \in Sources |-> NoJob]]
        /\ UNCHANGED <<script, assign, crawling, task, prune>>
    BY <1>5 DEF GlobalTimeout, Kill, assignVars
  <2>2. events' \in 0..MaxEvents
    BY <1>1, <1>5, AssignmentsAssumption
    DEF GlobalTimeout, Kill, Event, assignVars, AssignmentsAssumption
  <2>3. \A s \in Sources : ~Pending(o, s)'
    BY <1>a, <2>1 DEF Pending
  <2> QED
    BY <1>1, <1>2, <2>1, <2>2, <2>3 DEF Turns
<1> QED
  BY <1>3, <1>4, <1>5

\* Every step is one of these, or a step of Assignments.
LEMMA StepKinds ==
  ASSUME TypeOK, [Next]_vars
  PROVE  \/ [AssignNext]_assignVars /\ UNCHANGED authoringVars
         \/ \E o \in Orchestrators : Turns(o) \/ \E s \in Sources : Quiet(o, s) \/ Writes(o, s)
<1>1. ASSUME NEW o \in Orchestrators, NEW s \in Sources, JobStep(o, s)
      PROVE  Quiet(o, s) \/ Writes(o, s)
  BY <1>1, JobQuiet, JobWrites DEF JobStep
<1> QED
  BY <1>1, NightTurns DEF Next, NightStep, vars

-----------------------------------------------------------------------------
(* Steps of Assignments. *)

\* No step of Assignments removes a row, and only pruning changes a task.
KeepsRows == \A s \in Sources : HasRow(s) => HasRow(s)'

LEMMA SimpleAssignSteps ==
  ASSUME AssignTypeOK, PruneTypeOK, NEW s \in Sources,
         \/ CrawlStart(s) \/ CrawlEnd(s) \/ CrawlGivesUp(s)
         \/ Sync(s) \/ Disable(s) \/ Edit(s)
  PROVE  /\ AssignTypeOK' /\ PruneTypeOK' /\ KeepsRows
         /\ UNCHANGED <<task, prune>>
<1> USE AssignmentsAssumption DEF AssignmentsAssumption
<1>1. UNCHANGED <<task, prune>>
  BY DEF CrawlStart, CrawlEnd, CrawlGivesUp, Sync, Disable, Edit
<1>2. events' \in 0..MaxEvents
  BY DEF CrawlStart, CrawlEnd, CrawlGivesUp, Sync, Disable, Edit, Event, AssignTypeOK
<1>3. crawling' \subseteq Sources
  BY DEF CrawlStart, CrawlEnd, CrawlGivesUp, Sync, Disable, Edit, AssignTypeOK
<1>4. script' \in [Sources -> Qualities]
  BY DEF CrawlStart, CrawlEnd, CrawlGivesUp, Sync, Disable, Edit, AssignTypeOK
<1>5. \/ assign' = assign
      \/ \E st \in AssignStatuses : /\ assign' = [assign EXCEPT ![s] = st]
                                    /\ st = "none" => assign[s] = "none"
  <2>1. CASE Sync(s)
    <3>1. SyncedStatus(s) \in AssignStatuses /\ (SyncedStatus(s) = "none" => assign[s] = "none")
      BY DEF SyncedStatus, AssignStatuses, AssignTypeOK
    <3> QED
      BY <2>1, <3>1 DEF Sync
  <2> QED
    BY <2>1 DEF CrawlStart, CrawlEnd, CrawlGivesUp, Disable, Edit, AssignStatuses
<1>6. assign' \in [Sources -> AssignStatuses] /\ KeepsRows
  BY <1>5 DEF AssignTypeOK, KeepsRows, HasRow
<1>7. /\ prune.on \in BOOLEAN
      /\ prune.live \subseteq Sources
      /\ \A t \in prune.retire \cup prune.live : HasRow(t)'
      /\ prune.retire \subseteq Sources
  BY <1>6 DEF AssignTypeOK, PruneTypeOK, KeepsRows
<1>8. AssignTypeOK'
  BY <1>1, <1>2, <1>3, <1>4, <1>6, <1>7 DEF AssignTypeOK, HasTask
<1>9. PruneTypeOK'
  BY <1>1, <1>7 DEF PruneTypeOK
<1> QED
  BY <1>1, <1>6, <1>8, <1>9

LEMMA PruneStartStep ==
  ASSUME AssignTypeOK, PruneTypeOK, PruneStart
  PROVE  /\ AssignTypeOK' /\ PruneTypeOK' /\ KeepsRows
         /\ UNCHANGED task
<1> DEFINE deleted == Banned \cup Orphans
           dropped == {t \in deleted \cup Broken : HasTask(t)}
<1>1. /\ script' = [s \in Sources |-> IF s \in deleted \cup Broken THEN "none" ELSE script[s]]
      /\ prune'.on = TRUE
      /\ prune'.live = Live
      /\ prune'.retire = {s \in deleted : HasRow(s)}
      /\ prune'.reset = [s \in dropped |-> AfterPrune(s)]
      /\ events' \in 0..MaxEvents
      /\ UNCHANGED <<assign, crawling, task>>
  BY AssignmentsAssumption DEF PruneStart, Event, AssignTypeOK, AssignmentsAssumption
<1>2. /\ deleted \subseteq Sources /\ dropped \subseteq Sources
      /\ Live \subseteq Sources
      /\ \A s \in Live : HasRow(s)
  BY DEF Banned, Orphans, Broken, Live, HasRow
<1>3. \A s \in dropped : HasTask(s)
  OBVIOUS
<1> HIDE DEF deleted, dropped
<1>4. /\ DOMAIN prune'.reset = dropped
      /\ \A s \in dropped : /\ prune'.reset[s] \in Tasks
                            /\ prune'.reset[s].attempts = 0
                            /\ prune'.reset[s].status \in Leaves
  BY <1>1, <1>2, AfterPruneType
<1>5. script' \in [Sources -> Qualities]
  BY <1>1 DEF AssignTypeOK, Qualities
<1>6. AssignTypeOK'
  BY <1>1, <1>2, <1>3, <1>4, <1>5 DEF AssignTypeOK, HasRow, HasTask
<1>7. PruneTypeOK' /\ KeepsRows
  BY <1>1, <1>2, <1>4 DEF PruneTypeOK, KeepsRows, HasRow
<1> QED
  BY <1>1, <1>6, <1>7

LEMMA PruneSmokeStep ==
  ASSUME AssignTypeOK, PruneTypeOK, PruneSmoke
  PROVE  /\ AssignTypeOK' /\ PruneTypeOK' /\ KeepsRows
         /\ UNCHANGED task
<1>1. PICK F \in SUBSET prune.live :
        /\ script' = [s \in Sources |-> IF s \in F THEN "none" ELSE script[s]]
        /\ prune' = [on |-> TRUE,
                     live |-> {},
                     retire |-> prune.retire \cup F,
                     reset |-> [s \in DOMAIN prune.reset \cup {t \in F : HasTask(t)} |->
                                  IF TaskHeld(s) THEN prune.reset[s] ELSE Reset("retry")]]
        /\ UNCHANGED <<assign, crawling, task, events>>
  BY DEF PruneSmoke
<1> DEFINE tasks == DOMAIN prune.reset \cup {t \in F : HasTask(t)}
<1>2. /\ prune'.on = TRUE
      /\ prune'.live = {}
      /\ prune'.retire = prune.retire \cup F
      /\ prune'.reset = [s \in tasks |-> IF TaskHeld(s) THEN prune.reset[s] ELSE Reset("retry")]
  BY <1>1
<1>3. F \subseteq Sources /\ \A s \in F : HasRow(s)
  BY DEF AssignTypeOK, PruneTypeOK
<1>4. tasks \subseteq {s \in Sources : HasTask(s)}
  BY <1>3 DEF AssignTypeOK
<1>5. /\ Reset("retry") \in Tasks
      /\ Reset("retry").attempts = 0
      /\ Reset("retry").status \in Leaves
  BY ResetType DEF TaskStatuses, Leaves
<1> HIDE DEF tasks
<1>6. /\ DOMAIN prune'.reset = tasks
      /\ \A s \in tasks : /\ prune'.reset[s] \in Tasks
                          /\ prune'.reset[s].attempts = 0
                          /\ prune'.reset[s].status \in Leaves
  BY <1>2, <1>5 DEF TaskHeld, AssignTypeOK, PruneTypeOK
<1>7. script' \in [Sources -> Qualities]
  BY <1>1 DEF AssignTypeOK, Qualities
<1>8. AssignTypeOK'
  BY <1>1, <1>2, <1>3, <1>4, <1>6, <1>7 DEF AssignTypeOK, HasRow, HasTask
<1>9. PruneTypeOK' /\ KeepsRows
  BY <1>1, <1>2, <1>6 DEF PruneTypeOK, KeepsRows, HasRow
<1> QED
  BY <1>1, <1>8, <1>9

\* A pruning run that is over holds nothing.
LEMMA NoPruneFacts ==
  NoPrune.on = FALSE /\ NoPrune.live = {} /\ NoPrune.retire = {} /\ DOMAIN NoPrune.reset = {}
BY DEF NoPrune

LEMMA PruneEndStep ==
  ASSUME AssignTypeOK, PruneTypeOK, PruneCommit \/ PruneCrash
  PROVE  AssignTypeOK' /\ PruneTypeOK' /\ KeepsRows
<1>1. /\ prune' = NoPrune
      /\ UNCHANGED <<script, crawling, events>>
  BY DEF PruneCommit, PruneCrash
<1>2. assign' \in [Sources -> AssignStatuses] /\ KeepsRows
  BY DEF PruneCommit, PruneCrash, AssignTypeOK, AssignStatuses, KeepsRows, HasRow
<1>3. task' \in [Sources -> Tasks]
  BY DEF PruneCommit, PruneCrash, AssignTypeOK, TaskHeld
<1>4. AssignTypeOK'
  BY <1>1, <1>2, <1>3, NoPruneFacts DEF AssignTypeOK
<1> QED
  BY <1>1, <1>2, <1>4, NoPruneFacts DEF PruneTypeOK

LEMMA AssignStep ==
  ASSUME AssignTypeOK, PruneTypeOK, [AssignNext]_assignVars
  PROVE  /\ AssignTypeOK' /\ PruneTypeOK' /\ KeepsRows
         /\ \A s \in Sources : task'[s] = task[s] \/ (s \in DOMAIN prune.reset /\ task'[s] = prune.reset[s])
<1>1. ASSUME UNCHANGED task
      PROVE  \A s \in Sources :
               task'[s] = task[s] \/ (s \in DOMAIN prune.reset /\ task'[s] = prune.reset[s])
  BY <1>1
<1>2. CASE PruneStep \/ PruneCrash
  <2>1. CASE PruneStart \/ PruneSmoke
    BY <1>1, <2>1, PruneStartStep, PruneSmokeStep
  <2>2. CASE PruneCommit
    <3>1. \A s \in Sources :
            task'[s] = task[s] \/ (s \in DOMAIN prune.reset /\ task'[s] = prune.reset[s])
      BY <2>2 DEF PruneCommit, TaskHeld
    <3> QED
      BY <2>2, <3>1, PruneEndStep
  <2>3. CASE PruneCrash
    BY <1>1, <2>3, PruneEndStep DEF PruneCrash
  <2> QED
    BY <1>2, <2>1, <2>2, <2>3 DEF PruneStep
<1>3. CASE UNCHANGED assignVars
  BY <1>1, <1>3 DEF assignVars, AssignTypeOK, PruneTypeOK, KeepsRows, HasRow, HasTask
<1>4. CASE AssignNext
  BY <1>1, <1>2, <1>4, SimpleAssignSteps DEF AssignNext
<1> QED
  BY <1>3, <1>4

-----------------------------------------------------------------------------
(* Types, and what is deployed has an assignment. *)

LEMMA InitBase == ASSUME Init PROVE BaseInv
<1> USE AuthoringAssumption, AssignmentsAssumption
        DEF AuthoringAssumption, AssignmentsAssumption
<1>1. NoTask \in Tasks /\ NoTask.attempts = 0 /\ NoTask.status = "none"
  BY DEF NoTask, Tasks, TaskStatuses
<1>2. AssignTypeOK
  <2>1. script \in [Sources -> Qualities]
    BY DEF Init, AssignInit, Qualities
  <2>2. assign \in [Sources -> AssignStatuses] /\ task \in [Sources -> Tasks]
    BY <1>1 DEF Init, AssignInit, AssignStatuses
  <2>3. prune = NoPrune /\ crawling = {} /\ events = 0
    BY DEF Init, AssignInit
  <2>4. prune.on \in BOOLEAN
    BY <2>3, NoPruneFacts
  <2>5. /\ prune.live = {} /\ prune.retire = {} /\ DOMAIN prune.reset = {}
    BY <2>3, NoPruneFacts
  <2> QED
    BY <2>1, <2>2, <2>3, <2>4, <2>5 DEF AssignTypeOK
<1>3. NoJob \in Jobs /\ Day \in Nights
  BY <1>1 DEF NoJob, Jobs, Stages, Outcomes, Day, Nights
<1>4. TypeOK
  BY <1>2, <1>3 DEF Init, TypeOK
<1>5. PruneTypeOK
  BY NoPruneFacts DEF Init, AssignInit, PruneTypeOK
<1>6. NoTaskOK /\ DeployedIsAssigned
  BY <1>1 DEF Init, AssignInit, NoTaskOK, DeployedIsAssigned
<1> QED
  BY <1>4, <1>5, <1>6 DEF BaseInv

\* Recording writes a row of its own, and removes none.
LEMMA WritesBase ==
  ASSUME BaseInv, NEW o \in Orchestrators, NEW s \in Sources, Writes(o, s)
  PROVE  BaseInv'
<1>1. AssignTypeOK /\ TypeOK /\ PruneTypeOK
  BY DEF BaseInv, TypeOK
<1>2. PICK t \in Tasks :
        /\ task' = [task EXCEPT ![s] = t]
        /\ t.status # "none"
        /\ t.status = "deployed" => assign' = [assign EXCEPT ![s] = "active"]
  BY DEF Writes
<1>3. task' \in [Sources -> Tasks] /\ task'[s] = t /\ \A r \in Sources \ {s} : task'[r] = task[r]
  BY <1>1, <1>2 DEF AssignTypeOK
<1>4. assign' \in [Sources -> AssignStatuses] /\ KeepsRows
  BY <1>1 DEF Writes, AssignTypeOK, AssignStatuses, KeepsRows, HasRow
<1>5. \A r \in Sources : HasTask(r) => HasTask(r)'
  BY <1>2, <1>3 DEF HasTask
<1>6. UNCHANGED <<script, crawling, prune, events>>
  BY DEF Writes
<1>7. AssignTypeOK'
  BY <1>1, <1>3, <1>4, <1>5, <1>6 DEF AssignTypeOK, KeepsRows
<1>8. PruneTypeOK'
  BY <1>1, <1>4, <1>6 DEF PruneTypeOK, AssignTypeOK, KeepsRows
<1>9. TypeOK'
  <2>1. job' \in [Orchestrators -> [Sources -> Jobs]]
    BY <1>1, NewJobType DEF Writes, TypeOK, Stages
  <2> QED
    BY <1>7, <2>1 DEF Writes, TypeOK
<1>10. NoTaskOK'
  BY <1>2, <1>3 DEF BaseInv, NoTaskOK
<1>11. DeployedIsAssigned'
  <2>1. t.status = "deployed" => HasRow(s)'
    BY <1>1, <1>2 DEF HasRow, AssignTypeOK
  <2>2. \A r \in Sources \ {s} : task'[r].status = "deployed" => HasRow(r)'
    BY <1>3, <1>4 DEF BaseInv, DeployedIsAssigned, KeepsRows
  <2> QED
    BY <1>3, <2>1, <2>2 DEF DeployedIsAssigned
<1> QED
  BY <1>8, <1>9, <1>10, <1>11 DEF BaseInv

LEMMA TurnsBase ==
  ASSUME BaseInv, NEW o \in Orchestrators, Turns(o)
  PROVE  BaseInv'
<1>1. JobAt("listed") \in Jobs /\ JobAt("waiting") \in Jobs /\ NoJob \in Jobs
  BY NewJobType DEF Stages
<1>2. job' \in [Orchestrators -> [Sources -> Jobs]]
  <2>1. job \in [Orchestrators -> [Sources -> Jobs]]
    BY DEF BaseInv, TypeOK
  <2>2. \/ UNCHANGED job
        \/ job' = [job EXCEPT ![o] = [s \in Sources |-> NoJob]]
        \/ \E first \in {"listed", "waiting"} :
             job' = [job EXCEPT ![o] = [s \in Sources |-> IF Candidate(s) THEN JobAt(first) ELSE NoJob]]
    BY DEF Turns
  <2> QED
    BY <1>1, <2>1, <2>2
<1>3. AssignTypeOK'
  BY DEF Turns, BaseInv, TypeOK, AssignTypeOK, HasRow, HasTask
<1> QED
  BY <1>2, <1>3 DEF Turns, BaseInv, TypeOK, PruneTypeOK, NoTaskOK, DeployedIsAssigned, HasRow

LEMMA NextBase == ASSUME BaseInv, [Next]_vars PROVE BaseInv'
<1>1. CASE [AssignNext]_assignVars /\ UNCHANGED authoringVars
  <2>1. /\ AssignTypeOK' /\ PruneTypeOK' /\ KeepsRows
        /\ \A s \in Sources :
             task'[s] = task[s] \/ (s \in DOMAIN prune.reset /\ task'[s] = prune.reset[s])
    BY <1>1, AssignStep DEF BaseInv, TypeOK
  <2>2. TypeOK'
    BY <1>1, <2>1 DEF BaseInv, TypeOK, authoringVars
  <2>3. \A s \in DOMAIN prune.reset : prune.reset[s].status \in Leaves
    BY DEF BaseInv, PruneTypeOK
  <2>4. NoTaskOK' /\ DeployedIsAssigned'
    BY <2>1, <2>3 DEF BaseInv, NoTaskOK, DeployedIsAssigned, KeepsRows, Leaves
  <2> QED
    BY <2>1, <2>2, <2>4 DEF BaseInv
<1>2. ASSUME NEW o \in Orchestrators, NEW s \in Sources, Quiet(o, s)
      PROVE  BaseInv'
  <2>1. AssignTypeOK'
    BY <1>2 DEF Quiet, BaseInv, TypeOK, AssignTypeOK, HasRow, HasTask
  <2> QED
    BY <1>2, <2>1 DEF Quiet, BaseInv, TypeOK, PruneTypeOK, NoTaskOK, DeployedIsAssigned, HasRow
<1> QED
  BY <1>1, <1>2, WritesBase, TurnsBase, StepKinds DEF BaseInv

\* The types of Authoring and Assignments, and the invariants they rest on.
THEOREM AuthoringTypes == Safety => []TypeOK
<1>1. BaseInv => TypeOK
  BY DEF BaseInv
<1> QED
  BY InitBase, NextBase, <1>1, PTL DEF Safety

\* A deployed task has an assignment, however many nights overlap with whatever
\* crawls, administrators and prunings do: nobody deletes the row, and pruning never
\* leaves a task deployed.
THEOREM DeployedHasRow == Safety => []DeployedIsAssigned
<1>1. BaseInv => DeployedIsAssigned
  BY DEF BaseInv
<1> QED
  BY InitBase, NextBase, <1>1, PTL DEF Safety

-----------------------------------------------------------------------------
(* Nights that do not overlap. *)

\* However many orchestrators there are, one at most is on.
NightsApart == \A o, p \in Orchestrators : night[o].on /\ night[p].on => o = p

\* While a job is pending its task may be attempted, and so it was when the job read
\* it: nobody else attempts it, and pruning only forgives.
NightInv ==
  /\ \A s \in Sources : task[s].attempts <= MaxAttempts
  /\ \A s \in Sources : Settled(s) => task[s].attempts # 0
  /\ \A o \in Orchestrators, s \in Sources :
       Pending(o, s) =>
         /\ night[o].on
         /\ Life!Open(task[s])
         /\ job[o][s].stage = "recording" =>
              job[o][s].seen.attempts \in task[s].attempts .. MaxAttempts - 1

LEMMA InitNight == ASSUME Init PROVE NightInv
<1>1. NoTask.attempts = 0 /\ NoTask.status = "none" /\ NoJob.stage = "none"
  BY DEF NoTask, NoJob
<1> QED
  BY <1>1, AuthoringAssumption
  DEF Init, AssignInit, NightInv, Pending, Settled, AuthoringAssumption

\* What a job writes is an attempt.
LEMMA WritesAttempt ==
  ASSUME BaseInv, NightInv, NEW o \in Orchestrators, NEW s \in Sources, Writes(o, s)
  PROVE  Life!Attempt(s)
<1> USE AuthoringAssumption DEF AuthoringAssumption
<1>1. PICK t \in Tasks :
        /\ task' = [task EXCEPT ![s] = t]
        /\ t.status # "none"
        /\ \/ t.attempts = task[s].attempts + 1
           \/ job[o][s].stage = "recording" /\ t.attempts = job[o][s].seen.attempts + 1
  BY DEF Writes
<1>2. task[s].attempts \in Nat /\ job[o][s].seen.attempts \in Nat
  BY DEF BaseInv, TypeOK, AssignTypeOK, Tasks, Jobs
<1>3. Life!Open(task[s])
  BY DEF Writes, NightInv
<1>4. task[s].attempts < MaxAttempts
  BY <1>2, <1>3 DEF Life!Open
<1>5. t.attempts \in task[s].attempts + 1 .. MaxAttempts
  BY <1>1, <1>2, <1>4 DEF Writes, NightInv, Tasks
<1>6. t = [status |-> t.status, attempts |-> t.attempts] /\ t.status \in Life!Outcomes
  BY <1>1 DEF Tasks, TaskStatuses, Life!Outcomes
<1> QED
  BY <1>1, <1>3, <1>5, <1>6 DEF Life!Attempt

LEMMA WritesNight ==
  ASSUME BaseInv, NightInv, NightsApart,
         NEW o \in Orchestrators, NEW s \in Sources, Writes(o, s)
  PROVE  NightInv'
<1> USE AuthoringAssumption DEF AuthoringAssumption
<1>1. task \in [Sources -> Tasks] /\ job \in [Orchestrators -> [Sources -> Jobs]]
  BY DEF BaseInv, TypeOK, AssignTypeOK
<1>2. PICK st \in Life!Outcomes, n \in task[s].attempts + 1 .. MaxAttempts :
        task' = [task EXCEPT ![s] = [status |-> st, attempts |-> n]]
  BY WritesAttempt DEF Life!Attempt
<1>3. task[s].attempts \in Nat
  BY <1>1 DEF Tasks
<1>5. /\ task'[s].attempts \in 1..MaxAttempts
      /\ \A r \in Sources \ {s} : task'[r] = task[r]
  BY <1>1, <1>2, <1>3
<1>6. /\ job'[o][s] = NoJob
      /\ \A r \in Sources \ {s} : job'[o][r] = job[o][r]
      /\ \A p \in Orchestrators : night'[p].on = night[p].on
  BY <1>1 DEF Writes
<1>7. ~Pending(o, s)'
  BY <1>6 DEF Pending, NoJob
<1>8. ASSUME NEW p \in Orchestrators, NEW r \in Sources, Pending(p, r)'
      PROVE  /\ night'[p].on
             /\ Life!Open(task'[r])
             /\ job'[p][r].stage = "recording" =>
                  job'[p][r].seen.attempts \in task'[r].attempts .. MaxAttempts - 1
  <2>1. Pending(p, r)
    BY <1>1, <1>6, <1>7, <1>8 DEF Pending, Writes
  <2>2. p = o
    BY <2>1 DEF NightsApart, NightInv, Writes
  <2>3. r # s
    BY <1>7, <1>8, <2>2
  <2> QED
    BY <1>5, <1>6, <2>1, <2>2, <2>3 DEF NightInv
<1>9. \A r \in Sources : task'[r].attempts <= MaxAttempts /\ (Settled(r)' => task'[r].attempts # 0)
  BY <1>5 DEF NightInv, Settled
<1> QED
  BY <1>8, <1>9 DEF NightInv

\* Only tasks that may be attempted are listed.
LEMMA CandidateFacts ==
  ASSUME BaseInv, NEW s \in Sources, Candidate(s)
  PROVE  Life!Open(task[s])
BY DEF BaseInv, NoTaskOK, Candidate, EligibleForRetry, Life!Open

LEMMA TurnsNight ==
  ASSUME BaseInv, NightInv, NEW o \in Orchestrators, Turns(o)
  PROVE  NightInv'
<1>1. UNCHANGED task
  BY DEF Turns
<1>2. job \in [Orchestrators -> [Sources -> Jobs]]
  BY DEF BaseInv, TypeOK
<1>3. NoJob.stage = "none" /\ \A st \in {"listed", "waiting"} : JobAt(st).stage = st
  BY NewJobType DEF Stages
<1>4. ASSUME NEW p \in Orchestrators, NEW s \in Sources, Pending(p, s)'
      PROVE  /\ job'[p][s] = job[p][s] \/ (Candidate(s) /\ job'[p][s].stage \in {"listed", "waiting"})
             /\ p # o => job'[p][s] = job[p][s]
  BY <1>2, <1>3, <1>4 DEF Turns, Pending
<1>5. ASSUME NEW p \in Orchestrators, NEW s \in Sources, Pending(p, s)'
      PROVE  /\ night'[p].on
             /\ Life!Open(task[s])
             /\ job'[p][s].stage = "recording" =>
                  job'[p][s].seen.attempts \in task[s].attempts .. MaxAttempts - 1
  <2>1. night'[p].on
    <3>1. CASE p = o BY <1>5, <3>1 DEF Turns
    <3>2. CASE p # o BY <1>4, <1>5, <3>2 DEF Turns, NightInv, Pending
    <3> QED BY <3>1, <3>2
  <2> QED
    BY <1>4, <1>5, <2>1, CandidateFacts DEF NightInv, Pending
<1>6. \A s \in Sources : Settled(s)' => Settled(s)
  BY <1>1 DEF Settled
<1> QED
  BY <1>1, <1>5, <1>6 DEF NightInv

LEMMA QuietNight ==
  ASSUME BaseInv, NightInv, NEW o \in Orchestrators, NEW s \in Sources, Quiet(o, s)
  PROVE  NightInv'
<1>1. UNCHANGED <<task, night>>
  BY DEF Quiet
<1>2. \A r \in Sources : task[r].attempts \in Nat
  BY DEF BaseInv, TypeOK, AssignTypeOK, Tasks
<1>3. ASSUME NEW p \in Orchestrators, NEW r \in Sources, Pending(p, r)'
      PROVE  /\ night[p].on
             /\ Life!Open(task[r])
             /\ job'[p][r].stage = "recording" =>
                  job'[p][r].seen.attempts \in task[r].attempts .. MaxAttempts - 1
  <2>1. CASE p # o \/ r # s
    BY <1>3, <2>1 DEF Quiet, NightInv, Pending
  <2>2. CASE p = o /\ r = s
    <3>1. night[p].on /\ Life!Open(task[r])
      BY <2>2 DEF Quiet, NightInv
    <3>2. task[r].attempts \in task[r].attempts .. MaxAttempts - 1
      BY <1>2, <3>1, AuthoringAssumption DEF Life!Open, AuthoringAssumption
    <3> QED
      BY <2>2, <3>1, <3>2 DEF Quiet
  <2> QED
    BY <2>1, <2>2
<1>4. \A r \in Sources : Settled(r)' => Settled(r)
  BY <1>1 DEF Settled
<1> QED
  BY <1>1, <1>3, <1>4 DEF NightInv

\* What pruning commits forgives.
LEMMA AssignForgives ==
  ASSUME BaseInv, [AssignNext]_assignVars
  PROVE  /\ \A s \in Sources : \/ task'[s] = task[s]
                               \/ task'[s].attempts = 0 /\ task'[s].status \in Leaves
         /\ [Life!Next]_task
<1>1. /\ task \in [Sources -> Tasks] /\ task' \in [Sources -> Tasks]
      /\ \A s \in Sources :
           task'[s] = task[s] \/ (s \in DOMAIN prune.reset /\ task'[s] = prune.reset[s])
  BY AssignStep DEF BaseInv, TypeOK, AssignTypeOK
<1>2. \A s \in DOMAIN prune.reset :
        prune.reset[s].attempts = 0 /\ prune.reset[s].status \in Leaves
  BY DEF BaseInv, TypeOK, AssignTypeOK, PruneTypeOK
<1>3. \A s \in Sources : \/ task'[s] = task[s]
                         \/ task'[s].attempts = 0 /\ task'[s].status \in Leaves
  BY <1>1, <1>2
<1> DEFINE S == {s \in Sources : task'[s] # task[s]}
           st == [s \in S |-> task'[s].status]
<1>4. st \in [S -> Life!Forgiven]
  BY <1>3 DEF Leaves, Life!Forgiven
<1>5. \A s \in Sources :
        task'[s] = IF s \in S THEN [status |-> st[s], attempts |-> 0] ELSE task[s]
  <2>1. \A s \in Sources : task'[s] = [status |-> task'[s].status, attempts |-> task'[s].attempts]
    BY <1>1 DEF Tasks
  <2> QED
    BY <1>3, <2>1
<1>6. task' = [s \in Sources |-> IF s \in S THEN [status |-> st[s], attempts |-> 0] ELSE task[s]]
  BY <1>1, <1>5
<1>7. S \in SUBSET Sources
  OBVIOUS
<1> HIDE DEF S, st
<1>8. Life!Forgive(S)
  BY <1>4, <1>6 DEF Life!Forgive
<1> QED
  BY <1>3, <1>7, <1>8 DEF Life!Next

LEMMA NextNight == ASSUME BaseInv, NightInv, NightsApart, [Next]_vars PROVE NightInv'
<1>1. CASE [AssignNext]_assignVars /\ UNCHANGED authoringVars
  <2>1. UNCHANGED <<job, night>>
    BY <1>1 DEF authoringVars
  <2>2. \A s \in Sources : \/ task'[s] = task[s]
                           \/ task'[s].attempts = 0 /\ task'[s].status \in Leaves
    BY <1>1, AssignForgives
  <2>3. \A s \in Sources : task'[s].attempts <= MaxAttempts /\ (Settled(s)' => task'[s].attempts # 0)
    BY <2>2, AuthoringAssumption DEF NightInv, Settled, Leaves, AuthoringAssumption
  <2>4. ASSUME NEW o \in Orchestrators, NEW s \in Sources, Pending(o, s)'
        PROVE  /\ night'[o].on
               /\ Life!Open(task'[s])
               /\ job'[o][s].stage = "recording" =>
                    job'[o][s].seen.attempts \in task'[s].attempts .. MaxAttempts - 1
    <3>1. /\ night[o].on
          /\ Life!Open(task[s])
          /\ job[o][s].stage = "recording" =>
               job[o][s].seen.attempts \in task[s].attempts .. MaxAttempts - 1
      BY <2>1, <2>4 DEF NightInv, Pending
    <3>2. task[s].attempts \in Nat
      BY DEF BaseInv, TypeOK, AssignTypeOK, Tasks
    <3>3. CASE task'[s] = task[s]
      BY <2>1, <3>1, <3>3
    <3>4. CASE task'[s].attempts = 0
      BY <2>1, <3>1, <3>2, <3>4 DEF Life!Open
    <3> QED
      BY <2>2, <3>3, <3>4
  <2> QED
    BY <2>3, <2>4 DEF NightInv
<1> QED
  BY <1>1, WritesNight, TurnsNight, QuietNight, StepKinds DEF BaseInv

LEMMA NightsAlways == Safety /\ []NightsApart => [](BaseInv /\ NightInv)
BY InitBase, NextBase, InitNight, NextNight, PTL DEF Safety

\* Attempts never exceed their maximum, whatever fails or is interrupted, if one
\* orchestrator runs at a time, however many are started.
THEOREM Bounded == Safety /\ []NightsApart => []AttemptsBounded
<1>1. NightInv => AttemptsBounded
  BY DEF NightInv, AttemptsBounded
<1> QED
  BY NightsAlways, <1>1, PTL

\* What SettledIsLeftAlone says of one step.
LeavesSettled ==
  \A s \in Sources : (Settled(s) /\ task'[s] # task[s]) => s \in DOMAIN prune.reset

LEMMA StepLeavesSettled ==
  ASSUME BaseInv, NightInv, [Next]_vars
  PROVE  LeavesSettled
<1>1. CASE [AssignNext]_assignVars /\ UNCHANGED authoringVars
  BY <1>1, AssignStep DEF BaseInv, TypeOK, LeavesSettled
<1>2. ASSUME NEW o \in Orchestrators, NEW s \in Sources, Writes(o, s)
      PROVE  LeavesSettled
  <2>1. ~Settled(s)
    BY <1>2 DEF Writes, NightInv, Life!Open, Settled
  <2> QED
    BY <1>2, <2>1 DEF Writes, LeavesSettled, BaseInv, TypeOK, AssignTypeOK
<1>3. ASSUME UNCHANGED task
      PROVE  LeavesSettled
  BY <1>3 DEF LeavesSettled
<1> QED
  BY <1>1, <1>2, <1>3, StepKinds DEF Turns, Quiet, BaseInv

\* What is deployed or awaits a person is changed by pruning alone, if one
\* orchestrator runs at a time, although a job acts on what was listed long before.
THEOREM SettledStays == Safety /\ []NightsApart => SettledIsLeftAlone
<1>1. BaseInv /\ NightInv /\ [Next]_vars => [LeavesSettled]_vars
  BY StepLeavesSettled
<1> QED
  BY NightsAlways, <1>1, PTL DEF Safety, SettledIsLeftAlone, LeavesSettled

\* Under the same condition nights implement TaskLife: every outcome counts, and what
\* is given up, not only what is settled, stays so until it is forgiven.
THEOREM LivesAsPromised == Safety /\ []NightsApart => RefinesLife
<1>1. Init => Life!Init
  BY DEF Init, AssignInit, NoTask, Life!Init
<1>2. BaseInv /\ NightInv /\ [Next]_vars => [Life!Next]_task
  <2> SUFFICES ASSUME BaseInv, NightInv, [Next]_vars PROVE [Life!Next]_task
    OBVIOUS
  <2>1. CASE [AssignNext]_assignVars /\ UNCHANGED authoringVars
    BY <2>1, AssignForgives
  <2>2. ASSUME NEW o \in Orchestrators, NEW s \in Sources, Writes(o, s)
        PROVE  Life!Next
    BY <2>2, WritesAttempt DEF Life!Next
  <2> QED
    BY <2>1, <2>2, StepKinds DEF Turns, Quiet, BaseInv
<1> QED
  BY NightsAlways, <1>1, <1>2, PTL DEF Safety, RefinesLife, Life!Spec

\* The instance that the run authoring checks: one orchestrator.
OneNight == \A o, p \in Orchestrators : o = p

COROLLARY OneOrchestrator ==
  OneNight => (Safety => []AttemptsBounded /\ SettledIsLeftAlone /\ RefinesLife)
<1>1. OneNight => NightsApart
  BY DEF OneNight, NightsApart
<1>2. SUFFICES ASSUME OneNight PROVE Safety => []AttemptsBounded /\ SettledIsLeftAlone /\ RefinesLife
  OBVIOUS
<1>3. NightsApart
  BY <1>1, <1>2
<1> QED
  BY <1>3, Bounded, SettledStays, LivesAsPromised, PTL
=============================================================================
