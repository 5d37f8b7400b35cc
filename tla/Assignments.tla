---------------------------- MODULE Assignments -----------------------------
(***************************************************************************)
(* Repo extractors: the script file of a website, the assignment row that  *)
(* lets crawls run it, and those who change them: crawls (ingest/crawl/    *)
(* pipeline.py), the per-source sync and disable endpoints (api/v1/        *)
(* admin.py, sync.py), pruning (prune.py), and releases, which bring other *)
(* files.  A source has at most one script, named after it.                *)
(*                                                                         *)
(* Files change at once; rows change when the transaction commits.  Only   *)
(* pruning holds a transaction open long enough to be seen: it unlinks     *)
(* files first, and keeps its row updates to its end.                      *)
(***************************************************************************)
EXTENDS Naturals, FiniteSets

CONSTANTS
  Sources,        \* mosque_website sources with a URL
  Aggregators,    \* those on a directory domain
  Umbrellas,      \* those on a domain of several mosques
  MaxEvents       \* bound: crawls, administrators' calls, files changed,
                  \* pruning runs and killed orchestrators, together

ASSUME AssignmentsAssumption ==
  /\ Aggregators \subseteq Sources
  /\ Umbrellas \subseteq Sources
  /\ MaxEvents \in Nat

VARIABLES
  script,     \* source -> its file: absent, does not import, fails the static
              \* checks, passes them but yields no timetable, or works
  assign,     \* source -> status of its assignment row, "none" without a row
  crawling,   \* sources whose assignment a running crawl has read as active
  task,       \* source -> its authoring task
  prune,      \* the pruning run: what it has still to test and to commit
  events      \* counter for the bound

assignVars == <<script, assign, crawling, task, prune, events>>

Qualities == {"none", "broken", "unsafe", "poor", "good"}
AssignStatuses ==
  {"none", "active", "failed_validation", "missing_script", "retired", "disabled"}

\* "retry": failed with a retryable category; "permanent": failed with another.
TaskStatuses == {"none", "retry", "permanent", "awaiting", "deployed", "skipped"}
Tasks == [status : TaskStatuses, attempts : Nat]
NoTask == [status |-> "none", attempts |-> 0]
Reset(st) == [status |-> st, attempts |-> 0]

Loadable(s) == script[s] \in {"unsafe", "poor", "good"}
PassesGates(s) == script[s] \in {"poor", "good"} /\ s \notin Aggregators \cup Umbrellas

NoPrune == [on |-> FALSE, live |-> {}, retire |-> {}, reset |-> [s \in {} |-> NoTask]]

\* Rows a pruning run has updated and not committed: other writers wait.
AssignHeld(s) == s \in prune.retire
TaskHeld(s) == s \in DOMAIN prune.reset

-----------------------------------------------------------------------------
(* Crawls of a source with an active assignment. *)

Event == events < MaxEvents /\ events' = events + 1

CrawlStart(s) ==
  /\ Event
  /\ s \notin crawling
  /\ assign[s] = "active"
  /\ crawling' = crawling \cup {s}
  /\ UNCHANGED <<script, assign, task, prune>>

\* It succeeds, or fails and may try again: the row keeps its status.
CrawlEnd(s) ==
  /\ s \in crawling
  /\ crawling' = crawling \ {s}
  /\ UNCHANGED <<script, assign, task, prune, events>>

\* The third failure in a row (module Crawl counts them) takes the assignment
\* out, whatever its status is by now.
CrawlGivesUp(s) ==
  /\ s \in crawling
  /\ ~AssignHeld(s)
  /\ crawling' = crawling \ {s}
  /\ assign' = [assign EXCEPT ![s] = "failed_validation"]
  /\ UNCHANGED <<script, task, prune, events>>

-----------------------------------------------------------------------------
(* Administrators and releases. *)

\* sync_repo_extractors for one source: what its assignment becomes.
SyncedStatus(s) ==
  IF assign[s] # "none" /\ ~Loadable(s) THEN "missing_script"
  ELSE IF PassesGates(s) /\ assign[s] \in {"none", "failed_validation"} THEN "active"
  ELSE assign[s]

Sync(s) ==
  /\ Event
  /\ ~AssignHeld(s)
  /\ assign' = [assign EXCEPT ![s] = SyncedStatus(s)]
  /\ UNCHANGED <<script, crawling, task, prune>>

Disable(s) ==
  /\ Event
  /\ ~AssignHeld(s)
  /\ assign[s] # "none"
  /\ assign' = [assign EXCEPT ![s] = "disabled"]
  /\ UNCHANGED <<script, crawling, task, prune>>

\* A release brings, changes or drops the file, or the website changes under it.
Edit(s) ==
  /\ Event
  /\ \E q \in Qualities : script' = [script EXCEPT ![s] = q]
  /\ UNCHANGED <<assign, crawling, task, prune>>

-----------------------------------------------------------------------------
(* Pruning: prune_repo_extractors with --apply. *)

Broken == {s \in Sources : script[s] = "broken"}
Banned == {s \in Sources : Loadable(s) /\ s \in Aggregators \cup Umbrellas}
Orphans == {s \in Sources : Loadable(s) /\ s \notin Banned /\ assign[s] # "active"}
Live == {s \in Sources : Loadable(s) /\ s \notin Banned \cup Orphans}

\* The task a deleted script leaves; a script that did not import says nothing
\* of its domain.
AfterPrune(s) ==
  IF s \in Broken THEN Reset("retry")
  ELSE IF s \in Aggregators THEN Reset("permanent")
  ELSE IF s \in Umbrellas THEN Reset("skipped")
  ELSE Reset("retry")

HasTask(s) == task[s].status # "none"
HasRow(s) == assign[s] # "none"

\* Unlink what is broken, banned or an orphan.  A broken script's assignment is
\* left as it is.
PruneStart ==
  LET deleted == Banned \cup Orphans
  IN /\ ~prune.on
     /\ Event
     /\ script' = [s \in Sources |-> IF s \in deleted \cup Broken THEN "none" ELSE script[s]]
     /\ prune' = [on |-> TRUE,
                  live |-> Live,
                  retire |-> {s \in deleted : HasRow(s)},
                  reset |-> [s \in {t \in deleted \cup Broken : HasTask(t)} |-> AfterPrune(s)]]
     /\ UNCHANGED <<assign, crawling, task>>

\* Smoke-test the rest; those that fail, for their own fault or the network's,
\* are unlinked.
PruneSmoke ==
  \E F \in SUBSET prune.live :
    LET tasks == DOMAIN prune.reset \cup {s \in F : HasTask(s)}
    IN /\ prune.on
       /\ prune.live # {}
       /\ {s \in prune.live : script[s] # "good"} \subseteq F
       /\ script' = [s \in Sources |-> IF s \in F THEN "none" ELSE script[s]]
       /\ prune' = [on |-> TRUE,
                    live |-> {},
                    retire |-> prune.retire \cup F,
                    reset |-> [s \in tasks |->
                                 IF TaskHeld(s) THEN prune.reset[s] ELSE Reset("retry")]]
       /\ UNCHANGED <<assign, crawling, task, events>>

PruneCommit ==
  /\ prune.on
  /\ prune.live = {}
  /\ assign' = [s \in Sources |-> IF AssignHeld(s) THEN "retired" ELSE assign[s]]
  /\ task' = [s \in Sources |-> IF TaskHeld(s) THEN prune.reset[s] ELSE task[s]]
  /\ prune' = NoPrune
  /\ UNCHANGED <<script, crawling, events>>

\* The command is interrupted: the files are gone, the rows are as before.
PruneCrash ==
  /\ prune.on
  /\ prune' = NoPrune
  /\ UNCHANGED <<script, assign, crawling, task, events>>

PruneStep == PruneStart \/ PruneSmoke \/ PruneCommit

-----------------------------------------------------------------------------

\* A first deployment: scripts come with the release, nothing has run.
AssignInit ==
  /\ script \in [Sources -> {"none", "good"}]
  /\ assign = [s \in Sources |-> "none"]
  /\ crawling = {}
  /\ task = [s \in Sources |-> NoTask]
  /\ prune = NoPrune
  /\ events = 0

AssignNext ==
  \/ \E s \in Sources : CrawlStart(s)
  \/ \E s \in Sources : CrawlEnd(s)
  \/ \E s \in Sources : CrawlGivesUp(s)
  \/ \E s \in Sources : Sync(s)
  \/ \E s \in Sources : Disable(s)
  \/ \E s \in Sources : Edit(s)
  \/ PruneStep
  \/ PruneCrash

AssignTypeOK ==
  /\ script \in [Sources -> Qualities]
  /\ assign \in [Sources -> AssignStatuses]
  /\ crawling \subseteq Sources
  /\ task \in [Sources -> Tasks]
  /\ prune.on \in BOOLEAN
  /\ prune.live \subseteq Sources
  /\ prune.retire \subseteq {s \in Sources : HasRow(s)}
  /\ DOMAIN prune.reset \subseteq {s \in Sources : HasTask(s)}
  /\ \A s \in DOMAIN prune.reset : prune.reset[s] \in Tasks /\ prune.reset[s].attempts = 0
  /\ events \in 0..MaxEvents

=============================================================================
