----------------------------- MODULE ChangeFeed -----------------------------
(***************************************************************************)
(* The change feed: a publish inserts its change events into a table with  *)
(* an autoincremented id (schedules/publication.py), a consumer pages      *)
(* through it by id (services/public_reads.py, get_changes).               *)
(*                                                                         *)
(* The database hands out an id when a row is inserted, and shows the row  *)
(* when its transaction commits; an id is not given back on a rollback.    *)
(* Before its events a publish inserts the row of its version, whose name  *)
(* keeps out every other publish of the day (Publication, VersionProofs).  *)
(***************************************************************************)
EXTENDS Naturals, Sequences, FiniteSets

CONSTANTS
  Publishers,     \* workers and shells that publish
  Limit,          \* events on a page
  AcrossMidnight, \* whether a publish may run over midnight
  MaxIds,         \* bound: ids handed out
  MaxVersions,    \* bound: published versions
  MaxDay          \* bound: calendar days

ASSUME FeedAssumption ==
  /\ Limit \in Nat \ {0}
  /\ AcrossMidnight \in BOOLEAN
  /\ MaxIds \in Nat
  /\ MaxVersions \in Nat
  /\ MaxDay \in Nat \ {0}

VARIABLES
  day,        \* today
  nextId,     \* of change_events, the next one
  open,       \* publisher -> day in the name of the version it has inserted, 0 for none
  pending,    \* publisher -> ids of the events it has inserted and not committed
  versions,   \* the published versions in the order of their commits
  since,      \* consumer: the last id it has read, 0 for none
  seen        \* consumer: the events it has applied, or a snapshot has for it

feedVars == <<day, nextId, open, pending, versions, since, seen>>

-----------------------------------------------------------------------------
(* Publishing. *)

Feed == UNION {versions[v].ids : v \in DOMAIN versions}

VersionsOf(d) == {v \in DOMAIN versions : versions[v].day = d}
FeedOf(d) == UNION {versions[v].ids : v \in VersionsOf(d)}

\* Mutant: the unique name keeps out the publishes that have committed, no open one.
OpenBesides(p) ==
  /\ open[p] = 0
  /\ \E d \in 1..day :
       /\ AcrossMidnight \/ d = day
       /\ open' = [open EXCEPT ![p] = d]
  /\ UNCHANGED <<day, nextId, pending, versions, since, seen>>

\* create_published_dataset_version, as far as another publish can tell (DayTurns): no
\* other version of the day is being written.  The day is that of the name, which a
\* publish may have chosen before midnight.
OpenVersion(p) ==
  /\ open[p] = 0
  /\ \E d \in 1..day :
       /\ AcrossMidnight \/ d = day
       /\ \A q \in Publishers : open[q] # d
       /\ open' = [open EXCEPT ![p] = d]
  /\ UNCHANGED <<day, nextId, pending, versions, since, seen>>

\* Mutant: an id is not taken from the sequence.
InsertEventTwice(p) ==
  /\ open[p] # 0
  /\ nextId <= MaxIds
  /\ pending' = [pending EXCEPT ![p] = @ \cup {nextId}]
  /\ UNCHANGED <<day, nextId, open, versions, since, seen>>

\* A flush of the next event: _publish_batch_rows, _emit_removals.
InsertEvent(p) ==
  /\ open[p] # 0
  /\ nextId <= MaxIds
  /\ pending' = [pending EXCEPT ![p] = @ \cup {nextId}]
  /\ nextId' = nextId + 1
  /\ UNCHANGED <<day, open, versions, since, seen>>

Close(p) ==
  /\ open' = [open EXCEPT ![p] = 0]
  /\ pending' = [pending EXCEPT ![p] = {}]

\* A version whose time is older than that of one committed before on its day: its
\* publish was overtaken between reading the clock and the names (NewestUnlessOvertaken
\* in Publication), which takes another publish and a version of that day.
MayBeLate(d) == Cardinality(Publishers) > 1 /\ VersionsOf(d) # {}

\* A publish that changes nothing is a version too, without events.
CommitVersion(p) ==
  /\ open[p] # 0
  /\ Len(versions) < MaxVersions
  /\ \E late \in BOOLEAN :
       /\ late => MayBeLate(open[p])
       /\ versions' = Append(versions, [day |-> open[p], ids |-> pending[p], late |-> late])
  /\ Close(p)
  /\ UNCHANGED <<day, nextId, since, seen>>

RollBack(p) ==
  /\ open[p] # 0
  /\ Close(p)
  /\ UNCHANGED <<day, nextId, versions, since, seen>>

Midnight ==
  /\ day < MaxDay
  /\ AcrossMidnight \/ \A p \in Publishers : open[p] = 0
  /\ day' = day + 1
  /\ UNCHANGED <<nextId, open, pending, versions, since, seen>>

-----------------------------------------------------------------------------
(* Reading. *)

After == {i \in Feed : i > since}

\* Mutant: the page is not ordered: any events fill it.
IsAnyPage(page) ==
  /\ page # {}
  /\ Cardinality(page) <= Limit

\* The first events after since, at most Limit of them.
IsPage(page) ==
  /\ page # {}
  /\ Cardinality(page) <= Limit
  /\ \A i \in page, j \in After \ page : i < j
  /\ Cardinality(page) < Limit => page = After

IsLast(i, ids) == i \in ids /\ \A j \in ids : j <= i

\* GET /v1/changes?since=, and the consumer applies what it gets.
Poll ==
  \E page \in SUBSET After : \E last \in page :
    /\ IsPage(page)
    /\ IsLast(last, page)
    /\ since' = last
    /\ seen' = seen \cup page
    /\ UNCHANGED <<day, nextId, open, pending, versions>>

-----------------------------------------------------------------------------

FeedInit ==
  /\ day = 1
  /\ nextId = 1
  /\ open = [p \in Publishers |-> 0]
  /\ pending = [p \in Publishers |-> {}]
  /\ versions = <<>>
  /\ since = 0
  /\ seen = {}

Publish(p) == OpenVersion(p) \/ InsertEvent(p) \/ CommitVersion(p) \/ RollBack(p)

FeedNext == Poll \/ Midnight \/ \E p \in Publishers : Publish(p)

FeedSpec == FeedInit /\ [][FeedNext]_feedVars

GivenIds == 1..nextId - 1

FeedTypeOK ==
  /\ day \in 1..MaxDay
  /\ nextId \in Nat \ {0}
  /\ open \in [Publishers -> 0..MaxDay]
  /\ pending \in [Publishers -> SUBSET GivenIds]
  /\ versions \in Seq([day : 1..MaxDay, ids : SUBSET GivenIds, late : BOOLEAN])
  /\ since \in 0..nextId - 1
  /\ seen \subseteq GivenIds

-----------------------------------------------------------------------------
(* Properties. *)

\* PLAN.md: "GET /v1/changes?since= for incremental sync".  A consumer that goes on
\* from the last id it has read has missed no event below it.  It holds as long as
\* no publish runs over midnight: ids come in the order of inserts, events in the
\* order of commits, and only the names of one day keep the two together.
SinceIsEnough == \A i \in Feed : i <= since => i \in seen

\* docs/api/README.md calls the feed append-only.  The events of the versions of any
\* one day are, however publishes race, fail and run over midnight.
Log ==
  INSTANCE AppendOnlyLog
  WITH Logs <- 1..MaxDay, shown <- [d \in 1..MaxDay |-> FeedOf(d)]
DayLogs == Log!Spec

\* Its publishes take the turns that those of Publication take, no others.
Turns == INSTANCE DayTurns WITH writing <- open
RefinesTurns == Turns!Spec

=============================================================================
