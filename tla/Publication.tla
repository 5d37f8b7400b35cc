---------------------------- MODULE Publication -----------------------------
(***************************************************************************)
(* Publishing approved candidates as a new dataset version                 *)
(* (schedules/publication.py, schedules/dataset.py), while imports,        *)
(* validators, moderators and administrators keep changing the candidates  *)
(* and the policies underneath (module Candidates).                        *)
(*                                                                         *)
(* A publisher is one run of publish_candidates: a Celery task or a CLI    *)
(* call, one READ COMMITTED transaction.  Nothing locks what it reads, so  *)
(* each group of statements that other transactions can be told apart from *)
(* is an action of its own:                                                *)
(*                                                                         *)
(*   Select        the approved candidates and the policies                *)
(*   ReadPrevious  the latest version and its public rows                  *)
(*   ReadClock     published_at, and with it the day of the name           *)
(*   ReadNames     the names taken on that day                             *)
(*   Insert        the new version's row, whose name is unique             *)
(*   WriteRows     carried and published rows, one per session; events     *)
(*   Commit        all of it becomes visible                               *)
(***************************************************************************)
EXTENDS Candidates, VersionNames

CONSTANTS
  Publishers,   \* workers and shells that run publish_candidates
  Filters,      \* the filters they are called with
  MaxPublishes, \* bound: publishes that get as far as naming a version
  MaxEdits,     \* bound: candidate and policy transactions
  MaxDay        \* bound: calendar days

ASSUME PublicationAssumption ==
  /\ Filters \subseteq [slots : SUBSET Slots, sources : SUBSET Sources, partial : BOOLEAN]
  /\ \A f \in Filters : ~f.partial => f.slots = Slots /\ f.sources = Sources
  /\ MaxPublishes \in 1..NameBound
  /\ MaxEdits \in Nat
  /\ MaxDay \in Nat \ {0}

VARIABLES
  edits,      \* candidate and policy transactions so far
  versions,   \* committed dataset versions, with their rows and change events
  txn,        \* publisher -> its transaction's private state
  day,        \* today's date
  clock,      \* the time, in publishes that have read it
  watch       \* history: the policies each running publisher could have seen, and
              \* whether another one's version overtook it before it read the names

pubVars == <<edits, versions, txn, day, clock, watch>>
vars == <<candVars, pubVars>>

-----------------------------------------------------------------------------
(* Rows, versions and transactions. *)

\* An occurrence: its session and source are those of its candidate.
Row == [cand : Cands, val : Values]

SlotOfRow(r) == SlotOf[r.cand]
SourceOfRow(r) == SourceOf[r.cand]
SlotsOf(rows) == {SlotOfRow(r) : r \in rows}
SourcesOf(rows) == {SourceOfRow(r) : r \in rows}

\* Mutant: the previous rows are loaded without the policy filter.
EveryRow(rows) == rows

PublicRows(rows) == {r \in rows : SourceOfRow(r) \in public}

InScope(r, f) == SlotOfRow(r) \in f.slots /\ SourceOfRow(r) \in f.sources

\* _occurrence_changed
Unchanged(r, old) == r.val = old.val /\ SourceOfRow(r) = SourceOfRow(old)

\* Mutant: the constraint includes the source, as the candidates' natural key does.
OnePerSourceSlot(rows) ==
  \A r, q \in rows : SlotOfRow(r) = SlotOfRow(q) /\ SourceOfRow(r) = SourceOfRow(q) => r = q

\* uq_schedule_occurrence_versioned_session
OnePerSlot(rows) == \A r, q \in rows : SlotOfRow(r) = SlotOfRow(q) => r = q

Name == [day : 1..MaxDay, patch : Nat]
Version ==
  [name : Name, at : Nat, rows : SUBSET Row, announced : SUBSET Slots, removed : SUBSET Slots]

Stages == {"idle", "selected", "based", "timed", "named", "inserted", "written"}
Txn ==
  [stage : Stages, partial : BOOLEAN, slots : SUBSET Slots, sources : SUBSET Sources,
   batch : SUBSET Row, base : SUBSET Row, version : Version]

NoVersion ==
  [name |-> [day |-> 1, patch |-> 0], at |-> 0, rows |-> {}, announced |-> {}, removed |-> {}]
Idle ==
  [stage |-> "idle", partial |-> FALSE, slots |-> {}, sources |-> {},
   batch |-> {}, base |-> {}, version |-> NoVersion]

Watch == [ever : SUBSET Sources, always : SUBSET Sources, overtaken : BOOLEAN]
Unwatched == [ever |-> {}, always |-> {}, overtaken |-> FALSE]

At(p, stage) == txn[p].stage = stage
Running(p) == ~At(p, "idle")
Inserted(p) == txn[p].stage \in {"inserted", "written"}

\* get_latest_published_version: the newest published_at.
Newest(v) == \A w \in versions : w.at <= v.at
LatestRows == UNION {v.rows : v \in {w \in versions : Newest(w)}}

-----------------------------------------------------------------------------
(* Version names. *)

Names == {v.name : v \in versions}
PatchesOf(d) == {n.patch : n \in {m \in Names : m.day = d}}
NewestOfDay(w) == \A v \in versions : v.name.day = w.name.day => v.at < w.at

-----------------------------------------------------------------------------
(* publish_candidates, step by step. *)

\* Mutant: what was approved is not validated again.
ApprovedIsEnough(c) == cand[c].status = "approved" /\ CanPublish(c)

Publishable(c) == cand[c].status = "approved" /\ CanPublish(c) /\ IsValid(c)

Batch(f) ==
  {[cand |-> c, val |-> cand[c].val] :
     c \in {d \in Cands : Publishable(d) /\ SlotOf[d] \in f.slots /\ SourceOf[d] \in f.sources}}

\* Candidates and policies are read once; the values published are those read
\* here.  With nothing to publish the call returns and writes nothing.
Select(p, f) ==
  /\ At(p, "idle")
  /\ clock + Cardinality({q \in Publishers : txn[q].stage \in {"selected", "based"}}) < MaxPublishes
  /\ Batch(f) # {}
  /\ txn' = [txn EXCEPT ![p].stage = "selected", ![p].partial = f.partial,
                        ![p].slots = f.slots, ![p].sources = f.sources,
                        ![p].batch = Batch(f)]
  /\ watch' = [watch EXCEPT ![p] = [ever |-> public, always |-> public, overtaken |-> FALSE]]
  /\ UNCHANGED <<candVars, edits, versions, day, clock>>

\* _load_all_previous_occurrences: rows of sources no longer public are not seen.
ReadPrevious(p) ==
  /\ At(p, "selected")
  /\ txn' = [txn EXCEPT ![p].stage = "based", ![p].base = PublicRows(LatestRows)]
  /\ UNCHANGED <<candVars, edits, versions, day, clock, watch>>

\* create_published_dataset_version: now, and the day it falls on.
ReadClock(p) ==
  /\ At(p, "based")
  /\ txn' = [txn EXCEPT ![p].stage = "timed",
                        ![p].version.name.day = day,
                        ![p].version.at = clock]
  /\ clock' = clock + 1
  /\ UNCHANGED <<candVars, edits, versions, day, watch>>

\* The names of that day, as they are by now.
ReadNames(p) ==
  /\ At(p, "timed")
  /\ \E n \in NextPatches(PatchesOf(txn[p].version.name.day)) :
       txn' = [txn EXCEPT ![p].stage = "named", ![p].version.name.patch = n]
  /\ watch' = [watch EXCEPT ![p].overtaken = ~NewestOfDay(txn[p].version)]
  /\ UNCHANGED <<candVars, edits, versions, day, clock>>

RollBack(p) ==
  /\ txn' = [txn EXCEPT ![p] = Idle]
  /\ watch' = [watch EXCEPT ![p] = Unwatched]
  /\ UNCHANGED <<candVars, edits, versions, day, clock>>

NameTaken(p) == txn[p].version.name \in Names

\* Mutant: a publish waits for every other one that chose its name.
NameChosenByOther(p) ==
  \E q \in Publishers \ {p} :
    txn[q].stage \in {"named", "inserted", "written"} /\ txn[q].version.name = txn[p].version.name

\* Mutant: what a publish waits for is a lock of the current date.
NameHeldToday(p) ==
  \E q \in Publishers \ {p} :
    Inserted(q) /\ txn[q].version.name = txn[p].version.name /\ txn[p].version.name.day = day

NameHeld(p) == \E q \in Publishers \ {p} : Inserted(q) /\ txn[q].version.name = txn[p].version.name

\* Mutant: names are not unique.
InsertAnyName(p) ==
  /\ At(p, "named")
  /\ txn' = [txn EXCEPT ![p].stage = "inserted"]
  /\ UNCHANGED <<candVars, edits, versions, day, clock, watch>>

\* The unique index makes the insert wait for an uncommitted row of that name.
Insert(p) ==
  /\ At(p, "named")
  /\ ~NameHeld(p)
  /\ ~NameTaken(p)
  /\ txn' = [txn EXCEPT ![p].stage = "inserted"]
  /\ UNCHANGED <<candVars, edits, versions, day, clock, watch>>

InsertRefused(p) ==
  /\ At(p, "named")
  /\ NameTaken(p)
  /\ RollBack(p)

\* Mutant: the scope of a filter by source is that of every source.
OutsideSlots(p) == {r \in txn[p].base : SlotOfRow(r) \notin txn[p].slots}

\* Mutant: a partial publish replaces all of its scope.
KeptNothing(p) == {}

\* _carry_forward_previous_occurrences.  A partial publish first carries what is
\* outside its scope, whatever the batch holds, and last what is inside its scope
\* and was not rewritten.  A full publish carries nothing.
Outside(p) == {r \in txn[p].base : ~InScope(r, txn[p])}
Kept(p) ==
  {r \in txn[p].base : InScope(r, txn[p]) /\ SlotOfRow(r) \notin SlotsOf(txn[p].batch)}
Carried(p) == IF txn[p].partial THEN Outside(p) \cup Kept(p) ELSE {}

NewRows(p) == Carried(p) \cup txn[p].batch

\* Mutant: removals are emitted before the rows left in scope are carried.
RemovedBeforeCarrying(p) == SlotsOf(txn[p].base) \ SlotsOf(Outside(p) \cup txn[p].batch)

\* _publish_batch_rows and _emit_removals, against the base read earlier.
Announced(p) ==
  {SlotOfRow(r) : r \in {n \in txn[p].batch :
     ~ \E old \in txn[p].base : SlotOfRow(old) = SlotOfRow(n) /\ Unchanged(n, old)}}
Removed(p) == SlotsOf(txn[p].base) \ SlotsOf(NewRows(p))

BatchCands(p) == {r.cand : r \in txn[p].batch}

\* Candidate rows updated and not yet committed: other writers wait for them.
Locked == UNION {BatchCands(p) : p \in {q \in Publishers : At(q, "written")}}

WriteRows(p) ==
  /\ At(p, "inserted")
  /\ BatchCands(p) \cap Locked = {}
  /\ OnePerSlot(NewRows(p))
  /\ txn' = [txn EXCEPT ![p].stage = "written",
                        ![p].version.rows = NewRows(p),
                        ![p].version.announced = Announced(p),
                        ![p].version.removed = Removed(p)]
  /\ UNCHANGED <<candVars, edits, versions, day, clock, watch>>

\* Two rows for one session violate the unique constraint: the publish fails.
WriteRefused(p) ==
  /\ At(p, "inserted")
  /\ ~OnePerSlot(NewRows(p))
  /\ RollBack(p)

\* The published candidates become superseded, whatever they have become since.
Commit(p) ==
  /\ At(p, "written")
  /\ versions' = versions \cup {txn[p].version}
  /\ cand' = [c \in Cands |->
                IF c \in BatchCands(p) THEN [cand[c] EXCEPT !.status = "superseded"]
                ELSE cand[c]]
  /\ txn' = [txn EXCEPT ![p] = Idle]
  /\ watch' = [watch EXCEPT ![p] = Unwatched]
  /\ UNCHANGED <<public, verdicts, edits, day, clock>>

\* The process, its connection or a health recomputation fails: all is undone.
Crash(p) ==
  /\ Running(p)
  /\ RollBack(p)

-----------------------------------------------------------------------------
(* The rest of the system. *)

Watching(p) ==
  IF Running(p)
  THEN [watch[p] EXCEPT !.ever = @ \cup public', !.always = @ \cap public']
  ELSE watch[p]

\* Any other transaction; its writes wait for the rows a publisher has locked.
Elsewhere ==
  /\ edits < MaxEdits
  /\ edits' = edits + 1
  /\ CandNext
  /\ \A c \in Locked : cand'[c] = cand[c]
  /\ watch' = [p \in Publishers |-> Watching(p)]
  /\ UNCHANGED <<versions, txn, day, clock>>

Midnight ==
  /\ day < MaxDay
  /\ day' = day + 1
  /\ UNCHANGED <<candVars, edits, versions, txn, clock, watch>>

Advance(p) ==
  \/ ReadPrevious(p)
  \/ ReadClock(p)
  \/ ReadNames(p)
  \/ Insert(p)
  \/ InsertRefused(p)
  \/ WriteRows(p)
  \/ WriteRefused(p)
  \/ Commit(p)

Init ==
  /\ CandInit
  /\ edits = 0
  /\ versions = {}
  /\ txn = [p \in Publishers |-> Idle]
  /\ day = 1
  /\ clock = 0
  /\ watch = [p \in Publishers |-> Unwatched]

Next ==
  \/ \E p \in Publishers, f \in Filters : Select(p, f)
  \/ \E p \in Publishers : Advance(p)
  \/ \E p \in Publishers : Crash(p)
  \/ Elsewhere
  \/ Midnight

Safety == Init /\ [][Next]_vars

\* A publish that runs keeps running: the worker executes it to its end.  No one
\* is bound to start one, so nothing else is fair.
Spec == Safety /\ \A p \in Publishers : WF_vars(Advance(p))

-----------------------------------------------------------------------------
(* Type invariant. *)

TypeOK ==
  /\ CandTypeOK
  /\ edits \in 0..MaxEdits
  /\ versions \subseteq Version
  /\ txn \in [Publishers -> Txn]
  /\ \A p \in Publishers : BatchCands(p) \subseteq Existing
  /\ day \in 1..MaxDay
  /\ clock \in Nat
  /\ watch \in [Publishers -> Watch]

-----------------------------------------------------------------------------
(* Safety. *)

\* Whatever the interleaving, a published row carries a value that passed
\* validation, for a candidate that may be approved automatically (so never an
\* AI, community or ungated website row: CONTEXT.md, "AI extraction can create
\* candidates only"), and a version has one row per session.
SoundRows(rows) ==
  /\ \A r \in rows : r.val \notin Bad /\ r.cand \notin Manual
  /\ OnePerSlot(rows)

PublishedRowsSound == \A v \in versions : SoundRows(v.rows)

\* A publisher about to commit writes no row of a source that was not public at
\* some moment of its own run: a revoked policy is not published over again.
RevokedNotRepublished ==
  \A p \in Publishers :
    At(p, "written") => SourcesOf(txn[p].version.rows) \subseteq watch[p].ever

\* ADR 0006: readers "load rows from the newest published dataset_versions row".  A
\* version about to be committed is newer than every other of its day, unless one was
\* committed between its publish's reading of the clock and of the names: whoever
\* commits later than that has taken its name, or waits for it.
NewestUnlessOvertaken ==
  \A p \in Publishers :
    Inserted(p) /\ ~watch[p].overtaken => NewestOfDay(txn[p].version)

\* Two publishes that have inserted their versions name different days: whoever is
\* second to take a name of the day waits for the first to end.  The order of the
\* change feed (ChangeFeed) rests on it.
OneWriterADay ==
  \A p, q \in Publishers :
    (p # q /\ Inserted(p) /\ Inserted(q))
      => txn[p].version.name.day # txn[q].version.name.day

\* README: a filtered publish carries forward the occurrences outside its filter
\* from the previous published dataset.  Rows whose source stayed public during
\* the run are in the version about to be committed, as they are served now.
CarriedForward ==
  \A p \in Publishers :
    (At(p, "written") /\ txn[p].partial) =>
      \A r \in LatestRows :
        (~InScope(r, txn[p]) /\ SourceOfRow(r) \in watch[p].always)
          => r \in txn[p].version.rows

\* The change events of a version tell exactly how it differs from the dataset it
\* replaces, for every session whose source stayed public during the run.
ChangesAnnounced ==
  \A p \in Publishers : At(p, "written") =>
    LET v == txn[p].version
        steady == {r \in LatestRows : SourceOfRow(r) \in watch[p].always}
    IN /\ \A old \in steady :
            /\ SlotOfRow(old) \in v.removed <=> SlotOfRow(old) \notin SlotsOf(v.rows)
            /\ \A r \in v.rows : SlotOfRow(r) = SlotOfRow(old) =>
                 (SlotOfRow(r) \in v.announced <=> ~Unchanged(r, old))
       /\ SlotsOf(v.rows) \ SlotsOf(LatestRows) \subseteq v.announced

\* ADR 0006 (decision 4): a publish appends change events "including removals vs
\* the previous published version".
RemovalsAnnounced ==
  \A p \in Publishers : At(p, "written") =>
    SlotsOf(LatestRows) \ SlotsOf(txn[p].version.rows) \subseteq txn[p].version.removed

\* What could be published now, and what each publish that runs has selected.
Approved == {[cand |-> c, val |-> cand[c].val] : c \in {d \in Cands : Publishable(d)}}
CallOf(p) ==
  IF Running(p)
  THEN {[batch |-> txn[p].batch, partial |-> txn[p].partial,
         ever |-> watch[p].ever, always |-> watch[p].always]}
  ELSE {}
Calls == [p \in Publishers |-> CallOf(p)]

\* With one publisher at a time, publishing in steps is as good as publishing at once:
\* what readers are served is what PublishedDataset says of it.
Dataset ==
  INSTANCE PublishedDataset
  WITH rows <- LatestRows, approved <- Approved, calls <- Calls
RefinesDataset == Dataset!Spec

\* However publishes race, those that write versions take turns as DayTurns says.
\* The change feed (ChangeFeed) knows no more of publishing than that.
Turns ==
  INSTANCE DayTurns
  WITH writing <- [p \in Publishers |-> IF Inserted(p) THEN txn[p].version.name.day ELSE 0]
RefinesTurns == Turns!Spec

-----------------------------------------------------------------------------
(* Liveness. *)

\* A publish that has started commits, is refused or is cut off; waiting for the
\* name another publish holds does not last for ever.
PublishEnds == \A p \in Publishers : Running(p) ~> ~Running(p)

=============================================================================
