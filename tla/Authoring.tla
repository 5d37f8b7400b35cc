----------------------------- MODULE Authoring ------------------------------
(***************************************************************************)
(* The overnight orchestrator (ingest/authoring/orchestrator.py): list the *)
(* websites without an active extractor, optionally drop those that cannot *)
(* have one, let an agent write a script for each of the rest, smoke-test  *)
(* it, repair it, record the task and deploy.  Crawls, administrators,     *)
(* releases and pruning (Assignments) go on around it.                     *)
(*                                                                         *)
(* A job works from what was listed at the start of the night and writes   *)
(* its task at its end; nothing marks the source as taken meanwhile.       *)
(***************************************************************************)
EXTENDS Assignments

CONSTANTS
  Orchestrators,  \* concurrent calls of run_overnight_orchestrator
  Concurrency,    \* settings.authoring_concurrency
  MaxAttempts,    \* settings.authoring_max_attempts
  MaxRepairs      \* settings.authoring_max_repair_attempts

ASSUME AuthoringAssumption ==
  /\ IsFiniteSet(Orchestrators)
  /\ Concurrency \in Nat \ {0}
  /\ MaxAttempts \in Nat \ {0}
  /\ MaxRepairs \in Nat

VARIABLES
  night,      \* orchestrator -> is it on, dry, and has a job of it ended
  job         \* orchestrator -> source -> its job

authoringVars == <<night, job>>
vars == <<assignVars, authoringVars>>

Stages == {"none", "listed", "waiting", "agent", "judging", "decided", "recording"}
Outcomes == {"retry", "permanent", "awaiting", "skipped"}
Jobs == [stage : Stages, outcome : Outcomes, repairs : 0..MaxRepairs, seen : Tasks]
Nights == [on : BOOLEAN, dry : BOOLEAN, done : BOOLEAN]

Day == [on |-> FALSE, dry |-> FALSE, done |-> FALSE]
NoJob == [stage |-> "none", outcome |-> "retry", repairs |-> 0, seen |-> NoTask]
JobAt(stage) == [NoJob EXCEPT !.stage = stage]

Pending(o, s) == job[o][s].stage # "none"
Running(o) == {s \in Sources : job[o][s].stage \in {"agent", "judging", "decided", "recording"}}

-----------------------------------------------------------------------------
(* The night. *)

\* Mutant: one attempt too many.
OnceMoreEligible(t) == t.status = "retry" /\ t.attempts <= MaxAttempts

EligibleForRetry(t) == t.status = "retry" /\ t.attempts < MaxAttempts

\* Mutant: the tasks already deployed are not left out.
ForgetfulCandidate(s) ==
  /\ assign[s] # "active"
  /\ task[s].status \in {"none", "deployed"} \/ EligibleForRetry(task[s])

Candidate(s) ==
  /\ assign[s] # "active"
  /\ task[s].status = "none" \/ EligibleForRetry(task[s])

\* With a batch pre-flight the sources are only listed, without one they wait
\* for an agent.
ListCandidates(o) ==
  /\ ~night[o].on
  /\ \E s \in Sources : Candidate(s)
  /\ \E dry \in BOOLEAN : night' = [night EXCEPT ![o] = [on |-> TRUE, dry |-> dry, done |-> FALSE]]
  /\ \E first \in {"listed", "waiting"} :
       job' = [job EXCEPT ![o] = [s \in Sources |-> IF Candidate(s) THEN JobAt(first) ELSE NoJob]]
  /\ UNCHANGED assignVars

NightEnds(o) ==
  /\ night[o].on
  /\ \A s \in Sources : ~Pending(o, s)
  /\ night' = [night EXCEPT ![o] = Day]
  /\ UNCHANGED <<assignVars, job>>

\* Every job still pending is cancelled, which records nothing.  The limit is
\* hours, a job takes minutes: some have ended.
GlobalTimeout(o) ==
  /\ night[o].on
  /\ night[o].done
  /\ night' = [night EXCEPT ![o] = Day]
  /\ job' = [job EXCEPT ![o] = [s \in Sources |-> NoJob]]
  /\ UNCHANGED assignVars

\* The worker is restarted, or the command interrupted.
Kill(o) ==
  /\ night[o].on
  /\ Event
  /\ night' = [night EXCEPT ![o] = Day]
  /\ job' = [job EXCEPT ![o] = [s \in Sources |-> NoJob]]
  /\ UNCHANGED <<script, assign, crawling, task, prune>>

-----------------------------------------------------------------------------
(* Batch pre-flight: _batch_preflight. *)

\* What the domain alone decides, as a set: empty without a decision.
DomainVerdicts(s) ==
  IF s \in Aggregators THEN {"permanent"} ELSE IF s \in Umbrellas THEN {"skipped"} ELSE {}

Attempted(t, st) == [status |-> st, attempts |-> t.attempts + 1]

PreflightDrop(o, s) ==
  /\ job[o][s].stage = "listed"
  /\ ~TaskHeld(s)
  /\ \E st \in IF DomainVerdicts(s) # {} THEN DomainVerdicts(s) ELSE {"permanent"} :
       task' = [task EXCEPT ![s] = Attempted(task[s], st)]
  /\ job' = [job EXCEPT ![o][s] = NoJob]
  /\ UNCHANGED <<script, assign, crawling, prune, events, night>>

PreflightKeep(o, s) ==
  /\ job[o][s].stage = "listed"
  /\ DomainVerdicts(s) = {}
  /\ job' = [job EXCEPT ![o][s] = JobAt("waiting")]
  /\ UNCHANGED <<assignVars, night>>

-----------------------------------------------------------------------------
(* One job: _process_one and _process_source. *)

HasSlot(o, s) ==
  /\ job[o][s].stage = "waiting"
  /\ \A t \in Sources : job[o][t].stage # "listed"
  /\ Cardinality(Running(o)) < Concurrency

Move(o, s, stage) == job' = [job EXCEPT ![o][s].stage = stage]
Decide(o, s, outcome) == job' = [job EXCEPT ![o][s].stage = "decided", ![o][s].outcome = outcome]

\* Banned by its domain, unreachable for now or for good, or no agent to call.
Refuse(o, s) ==
  /\ HasSlot(o, s)
  /\ \E out \in IF DomainVerdicts(s) # {} THEN DomainVerdicts(s) ELSE {"retry", "permanent"} :
       Decide(o, s, out)
  /\ UNCHANGED <<assignVars, night>>

CallAgent(o, s) ==
  /\ HasSlot(o, s)
  /\ DomainVerdicts(s) = {}
  /\ Move(o, s, "agent")
  /\ UNCHANGED <<assignVars, night>>

\* The agent reports a script it has written under the source's name.
AgentAuthors(o, s) ==
  /\ job[o][s].stage = "agent"
  /\ \E q \in Qualities \ {"none"} : script' = [script EXCEPT ![s] = q]
  /\ Move(o, s, "judging")
  /\ UNCHANGED <<assign, crawling, task, prune, events, night>>

\* The agent reports a failure, wants a person to look, times out, or says
\* nothing of use.  A draft may remain.
AgentGivesUp(o, s) ==
  /\ job[o][s].stage = "agent"
  /\ \E q \in Qualities : script' = [script EXCEPT ![s] = q]
  /\ \E out \in Outcomes \ {"awaiting"} : Decide(o, s, out)
  /\ UNCHANGED <<assign, crawling, task, prune, events, night>>

\* Mutant: the last repair is granted once more.
GenerousJudge(o, s) ==
  /\ job[o][s].stage = "judging"
  /\ \/ script[s] = "good" /\ Decide(o, s, "awaiting")
     \/ script[s] \in {"none", "broken"} /\ Decide(o, s, "retry")
     \/ /\ script[s] # "none"
        /\ job[o][s].repairs = MaxRepairs
        /\ Decide(o, s, "retry")
     \/ /\ script[s] \in {"unsafe", "poor"}
        /\ job[o][s].repairs <= MaxRepairs
        /\ job' = [job EXCEPT ![o][s].stage = "agent", ![o][s].repairs = @ + 1]
  /\ UNCHANGED <<assignVars, night>>

\* The file is read again: static checks, import, smoke test.  What fails the
\* first or the last goes back to the agent while repairs are left.
Judge(o, s) ==
  /\ job[o][s].stage = "judging"
  /\ \/ script[s] = "good" /\ Decide(o, s, "awaiting")
     \/ script[s] \in {"none", "broken"} /\ Decide(o, s, "retry")
     \/ /\ script[s] # "none"
        /\ job[o][s].repairs = MaxRepairs
        /\ Decide(o, s, "retry")
     \/ /\ script[s] \in {"unsafe", "poor"}
        /\ job[o][s].repairs < MaxRepairs
        /\ job' = [job EXCEPT ![o][s].stage = "agent", ![o][s].repairs = @ + 1]
  /\ UNCHANGED <<assignVars, night>>

ReadTask(o, s) ==
  /\ job[o][s].stage = "decided"
  /\ job' = [job EXCEPT ![o][s].stage = "recording", ![o][s].seen = task[s]]
  /\ UNCHANGED <<assignVars, night>>

EndJob(o, s) ==
  /\ job' = [job EXCEPT ![o][s] = NoJob]
  /\ night' = [night EXCEPT ![o].done = TRUE]
  /\ UNCHANGED <<script, crawling, prune, events>>

\* source_id is unique: inserting a task where another has appeared fails.
Conflict(o, s) == job[o][s].seen.status = "none" /\ HasTask(s)

Deploys(o, s) == job[o][s].outcome = "awaiting" /\ ~night[o].dry

\* Mutant: a task is recorded as deployed whatever deploy_extractor_assignment says.
CarelessRecordedStatus(o, s) ==
  IF Deploys(o, s) THEN "deployed" ELSE job[o][s].outcome

RecordedStatus(o, s) ==
  IF ~Deploys(o, s) THEN job[o][s].outcome
  ELSE IF PassesGates(s) THEN "deployed" ELSE "retry"

\* Record the outcome over the task as it was read, deploy, commit.
Commit(o, s) ==
  /\ job[o][s].stage = "recording"
  /\ ~Conflict(o, s)
  /\ ~TaskHeld(s)
  /\ ~AssignHeld(s)
  /\ task' = [task EXCEPT ![s] = Attempted(job[o][s].seen, RecordedStatus(o, s))]
  /\ assign' = IF Deploys(o, s) /\ PassesGates(s) THEN [assign EXCEPT ![s] = "active"] ELSE assign
  /\ EndJob(o, s)

\* Mutant: a failure in a job does not count as an attempt.
FreeRecordFailure(o, s) ==
  /\ \/ job[o][s].stage \in {"agent", "judging", "decided"}
     \/ job[o][s].stage = "recording" /\ Conflict(o, s)
  /\ ~TaskHeld(s)
  /\ task' = [task EXCEPT ![s] = [status |-> "retry", attempts |-> @.attempts]]
  /\ EndJob(o, s)
  /\ UNCHANGED assign

\* An exception anywhere, the conflict among them: a new session records a failure.
RecordFailure(o, s) ==
  /\ \/ job[o][s].stage \in {"agent", "judging", "decided"}
     \/ job[o][s].stage = "recording" /\ Conflict(o, s)
  /\ ~TaskHeld(s)
  /\ task' = [task EXCEPT ![s] = Attempted(task[s], "retry")]
  /\ EndJob(o, s)
  /\ UNCHANGED assign

-----------------------------------------------------------------------------

Init ==
  /\ AssignInit
  /\ night = [o \in Orchestrators |-> Day]
  /\ job = [o \in Orchestrators |-> [s \in Sources |-> NoJob]]

JobStep(o, s) ==
  \/ PreflightDrop(o, s)
  \/ PreflightKeep(o, s)
  \/ Refuse(o, s)
  \/ CallAgent(o, s)
  \/ AgentAuthors(o, s)
  \/ AgentGivesUp(o, s)
  \/ Judge(o, s)
  \/ ReadTask(o, s)
  \/ Commit(o, s)
  \/ RecordFailure(o, s)

NightStep(o) ==
  \/ ListCandidates(o)
  \/ \E s \in Sources : JobStep(o, s)
  \/ GlobalTimeout(o)
  \/ NightEnds(o)

Next ==
  \/ AssignNext /\ UNCHANGED authoringVars
  \/ \E o \in Orchestrators : NightStep(o)
  \/ \E o \in Orchestrators : Kill(o)

Safety == Init /\ [][Next]_vars

\* The beat starts a night every night, a night that runs goes on, and so does a
\* pruning command.  Nothing is assumed of crawls, administrators and releases.
Fairness ==
  /\ \A o \in Orchestrators : WF_vars(NightStep(o))
  /\ WF_vars((PruneSmoke \/ PruneCommit) /\ UNCHANGED authoringVars)

Spec == Safety /\ Fairness

TypeOK ==
  /\ AssignTypeOK
  /\ night \in [Orchestrators -> Nights]
  /\ job \in [Orchestrators -> [Sources -> Jobs]]

-----------------------------------------------------------------------------
(* Properties. *)

\* A task that says "deployed" belongs to a source that has an assignment: the two
\* are written by one commit, and no one deletes the row, whatever happens to it
\* and to the script afterwards.
DeployedIsAssigned == \A s \in Sources : task[s].status = "deployed" => HasRow(s)

\* failure_taxonomy.py: a source is attempted until its attempts reach the
\* maximum.  While nights do not overlap no failure, conflict or pruning in
\* between makes it exceed that.
AttemptsBounded == \A s \in Sources : task[s].attempts <= MaxAttempts

\* ADR 0017, decision 10: what is deployed or awaits a review is left alone.  While
\* nights do not overlap, only pruning changes such a task, although a night
\* decides from what it listed hours ago.
Settled(s) == task[s].status \in {"awaiting", "deployed"}
SettledIsLeftAlone ==
  [][\A s \in Sources : (Settled(s) /\ task'[s] # task[s]) => s \in DOMAIN prune.reset]_vars

\* While nights do not overlap, what they record of a source is what TaskLife promises
\* (ADR 0017), although jobs record long after they have read and prunings interfere.
Life == INSTANCE TaskLife
RefinesLife == Life!Spec

\* No source waits for ever to be authored, cancelled each night before its turn or
\* its verdict: it is deployed, put to a person, given up, or activated by others.
NoEternalCandidate == \A s \in Sources : []<>~Candidate(s)

=============================================================================
