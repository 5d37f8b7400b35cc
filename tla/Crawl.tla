------------------------------- MODULE Crawl --------------------------------
(***************************************************************************)
(* Crawling: the hourly beat lists the sources that are due and enqueues   *)
(* one task for each (tasks/crawl.py, worker.py); workers process them     *)
(* (ingest/crawl/pipeline.py), with the source's repo extractor when its   *)
(* assignment is active (repo_extractors/runtime.py), by fetching its      *)
(* homepage otherwise, and plan the next time.                             *)
(*                                                                         *)
(* Nothing claims a source: while a task waits or runs, the next beat      *)
(* enqueues another.  A run keeps the assignment as it read it at its      *)
(* start, and writes its counter back at its end.                          *)
(***************************************************************************)
EXTENDS Naturals, Sequences, FiniteSets

CONSTANTS
  Sources,      \* mosque_website sources with crawling enabled
  Workers,      \* worker processes
  Scripted,     \* those with an extractor script
  Assigned,     \* those with an active assignment at first
  Backoff,      \* runtime.BACKOFF_HOURS, four of them
  RunHours,     \* source -> hours of its run_frequency
  CrawlHours,   \* settings.crawl_interval_hours
  LongestPause, \* hours, after failed fetches of a homepage: 24
  MaxStrikes,   \* bound: failures counted in source_health
  MaxCopies,    \* bound: tasks of one source in the queue
  MaxEvents     \* bound: crashes and activations

ASSUME CrawlAssumption ==
  /\ Backoff \in [1..4 -> Nat]
  /\ RunHours \in [Sources -> Nat]
  /\ CrawlHours \in Nat
  /\ LongestPause \in Nat
  /\ Assigned \subseteq Scripted /\ Scripted \subseteq Sources
  /\ MaxStrikes \in Nat /\ MaxStrikes > 2
  /\ MaxCopies \in Nat \ {0}
  /\ MaxEvents \in Nat

VARIABLES
  assign,     \* source -> "none", "active", or "out" after failed validation
  fails,      \* source -> consecutive_failures of the assignment, 3 for more
  wait,       \* source -> beats until next_run_at, 0 when due
  strikes,    \* source -> consecutive_failures of source_health
  pause,      \* source -> beats until next_fetch_at, 0 when due
  known,      \* sources with a page that a repo extractor has read
  queue,      \* source -> tasks waiting for it
  work,       \* worker -> the run it is on
  streak,     \* history: failed runs of the extractor since it was activated and
              \* since anything last succeeded for the source, 3 for more
  events      \* counter for the bound

vars == <<assign, fails, wait, strikes, pause, known, queue, work, streak, events>>

Upto(n, limit) == IF n < limit THEN n ELSE limit
Active(s) == assign[s] = "active"
Event == events < MaxEvents /\ events' = events + 1

Off == [kind |-> "off"]
Runs == {Off} \cup [kind : {"repo"}, src : Sources, fails : 0..3]
              \cup [kind : {"home"}, src : Sources]

\* Mutant: the hour is counted from the beat before.
EagerBeats(h) == h - 1

\* A run ends some time after a beat, so a time h hours later lies after the h-th
\* beat from then, and is over at the next one.
Beats(h) == h + 1

-----------------------------------------------------------------------------
(* The beat. *)

RepoDue == {s \in Sources : Active(s) /\ wait'[s] = 0}

\* Mutant: sources with an assignment row, whatever its status, are not homepages.
RowlessHomeDue == {s \in Sources : assign[s] = "none" /\ pause'[s] = 0}

HomeDue == {s \in Sources : pause'[s] = 0}

\* Mutant: an extractor that has failed often is dropped from the list.
PatientDue == IF RepoDue # {} THEN {s \in RepoDue : fails[s] < 3} ELSE HomeDue

\* While any extractor is due, no homepage is.
Due == IF RepoDue # {} THEN RepoDue ELSE HomeDue

NextBeat(n) == IF n = 0 THEN 0 ELSE n - 1

\* An hour passes and the task fetch_due_sources is run.
FetchDue ==
  /\ wait' = [s \in Sources |-> NextBeat(wait[s])]
  /\ pause' = [s \in Sources |-> NextBeat(pause[s])]
  /\ queue' = [s \in Sources |-> IF s \in Due THEN Upto(queue[s] + 1, MaxCopies) ELSE queue[s]]
  /\ UNCHANGED <<assign, fails, strikes, known, work, streak, events>>

-----------------------------------------------------------------------------
(* Workers: process_source. *)

Delivered(w, s) ==
  /\ work[w] = Off
  /\ queue[s] > 0
  /\ queue' = [queue EXCEPT ![s] = @ - 1]
  /\ UNCHANGED <<assign, fails, wait, strikes, pause, known, streak, events>>

\* With an active assignment the extractor is run, due or not.
TakeRepo(w, s) ==
  /\ Delivered(w, s)
  /\ Active(s)
  /\ work' = [work EXCEPT ![w] = [kind |-> "repo", src |-> s, fails |-> fails[s]]]

TakeHome(w, s) ==
  /\ Delivered(w, s)
  /\ ~Active(s)
  /\ pause[s] = 0
  /\ work' = [work EXCEPT ![w] = [kind |-> "home", src |-> s]]

\* An earlier copy of the task has been here: not due any more.
SkipHome(w, s) ==
  /\ Delivered(w, s)
  /\ ~Active(s)
  /\ pause[s] > 0
  /\ UNCHANGED work

Take(s) == \E w \in Workers : TakeRepo(w, s) \/ TakeHome(w, s) \/ SkipHome(w, s)

Done(w) == work' = [work EXCEPT ![w] = Off]

\* The run's rows are in.  A success resets both counters, and remembers the page.
\* The session writes only what changed since the run read it: a counter it read as
\* zero is not written, and keeps what another run of the source has put there.
RepoSucceeds(w) ==
  LET s == work[w].src
  IN /\ work[w].kind = "repo"
     /\ Done(w)
     /\ fails' = IF work[w].fails = 0 THEN fails ELSE [fails EXCEPT ![s] = 0]
     /\ wait' = [wait EXCEPT ![s] = Beats(RunHours[s])]
     /\ strikes' = [strikes EXCEPT ![s] = 0]
     /\ known' = known \cup {s}
     /\ streak' = [streak EXCEPT ![s] = 0]
     /\ UNCHANGED <<assign, pause, queue, events>>

\* The runtime counts a failure and so does the pipeline, which chooses the pause
\* in between.
BackoffAfter(n) == Backoff[Upto(n + 1, 3) + 1]

\* Mutant: four strikes.
LateStrikeOut(n) == n >= 4

StrikeOut(n) == n >= 3

RepoFails(w) ==
  LET s == work[w].src
      struck == Upto(strikes[s] + 1, MaxStrikes)
  IN /\ work[w].kind = "repo"
     /\ Done(w)
     /\ fails' = [fails EXCEPT ![s] = Upto(work[w].fails + 2, 3)]
     /\ wait' = [wait EXCEPT ![s] = Beats(BackoffAfter(work[w].fails))]
     /\ strikes' = [strikes EXCEPT ![s] = struck]
     /\ assign' = IF StrikeOut(struck) THEN [assign EXCEPT ![s] = "out"] ELSE assign
     /\ streak' = [streak EXCEPT ![s] = Upto(@ + 1, 3)]
     /\ UNCHANGED <<pause, known, queue, events>>

\* A homepage has no extractor of its own: it counts as a success only when it is a
\* page that a repo extractor has read before, which the website may serve again or not.
HomeSucceeds(w) ==
  LET s == work[w].src
  IN /\ work[w].kind = "home"
     /\ s \in known
     /\ Done(w)
     /\ strikes' = [strikes EXCEPT ![s] = 0]
     /\ pause' = [pause EXCEPT ![s] = Beats(CrawlHours)]
     /\ streak' = [streak EXCEPT ![s] = 0]
     /\ UNCHANGED <<assign, fails, wait, known, queue, events>>

\* The failures double the hours, four times at most.
PauseAfter(n) == Upto(<<1, 2, 4, 8, 16>>[Upto(n, 4) + 1], LongestPause)

HomeFails(w) ==
  LET s == work[w].src
      struck == Upto(strikes[s] + 1, MaxStrikes)
  IN /\ work[w].kind = "home"
     /\ Done(w)
     /\ strikes' = [strikes EXCEPT ![s] = struck]
     /\ pause' = [pause EXCEPT ![s] = Beats(PauseAfter(struck))]
     /\ UNCHANGED <<assign, fails, wait, known, queue, streak, events>>

\* The worker dies, or its transaction does (another run has recorded the same
\* artifact): the task is gone and nothing is written.
Crash(w) ==
  /\ work[w] # Off
  /\ Event
  /\ Done(w)
  /\ UNCHANGED <<assign, fails, wait, strikes, pause, known, queue, streak>>

Finish(w) == RepoSucceeds(w) \/ RepoFails(w) \/ HomeSucceeds(w) \/ HomeFails(w)

-----------------------------------------------------------------------------
(* Others. *)

\* A sync or a deployment makes the assignment active.  An existing row keeps its
\* counter and its time; source_health is left alone.
Activate(s) ==
  /\ s \in Scripted
  /\ ~Active(s)
  /\ Event
  /\ assign' = [assign EXCEPT ![s] = "active"]
  /\ streak' = [streak EXCEPT ![s] = 0]
  /\ wait' = IF assign[s] = "none" THEN [wait EXCEPT ![s] = Beats(RunHours[s])] ELSE wait
  /\ UNCHANGED <<fails, strikes, pause, known, queue, work>>

-----------------------------------------------------------------------------

Init ==
  /\ assign = [s \in Sources |-> IF s \in Assigned THEN "active" ELSE "none"]
  /\ fails = [s \in Sources |-> 0]
  /\ wait = [s \in Sources |-> 0]
  /\ strikes = [s \in Sources |-> 0]
  /\ pause = [s \in Sources |-> 0]
  /\ known = {}
  /\ queue = [s \in Sources |-> 0]
  /\ work = [w \in Workers |-> Off]
  /\ streak = [s \in Sources |-> 0]
  /\ events = 0

Next ==
  \/ FetchDue
  \/ \E s \in Sources : Take(s)
  \/ \E w \in Workers : Finish(w)
  \/ \E w \in Workers : Crash(w)
  \/ \E s \in Sources : Activate(s)

Safety == Init /\ [][Next]_vars

\* The beat goes on, a run ends, and the broker, a FIFO list,
\* passes over no task for ever.
Fairness ==
  /\ WF_vars(FetchDue)
  /\ \A s \in Sources : SF_vars(Take(s))
  /\ \A w \in Workers : WF_vars(Finish(w))

Spec == Safety /\ Fairness

TypeOK ==
  /\ assign \in [Sources -> {"none", "active", "out"}]
  /\ fails \in [Sources -> 0..3]
  /\ wait \in [Sources -> Nat]
  /\ strikes \in [Sources -> 0..MaxStrikes]
  /\ pause \in [Sources -> Nat]
  /\ known \subseteq Sources
  /\ queue \in [Sources -> 0..MaxCopies]
  /\ work \in [Workers -> Runs]
  /\ streak \in [Sources -> 0..3]
  /\ events \in 0..MaxEvents

-----------------------------------------------------------------------------
(* Properties. *)

\* An extractor three of whose runs have failed since it was activated, and nothing
\* has succeeded, is not active.  What decides it is another counter, which is not
\* reset by an activation, and runs of one source may overlap.
ThreeStrikesOut == \A s \in Sources : streak[s] = 3 => ~Active(s)

\* An extractor that is due is run, or taken out, however often it has failed.
DueIsRun == \A s \in Sources : (Active(s) /\ wait[s] = 0) ~> (wait[s] > 0 \/ ~Active(s))

\* A homepage that is due is fetched, provided that from time to time a beat finds
\* no extractor due (no other beat lists homepages).
LullAtBeat == FetchDue /\ RepoDue = {}
HomepageServed ==
  []<><<LullAtBeat>>_vars =>
    \A s \in Sources : (~Active(s) /\ pause[s] = 0) ~> (pause[s] > 0 \/ Active(s))

=============================================================================
