# A formal model of the UK Jamaat Directory

The Directory collects mosque timetables from feeds, websites and people, keeps
them as private *candidates*, validates them, and publishes the approved ones as
numbered *dataset versions* that the public API, bulk exports and a change feed
serve. It is a FastAPI application and a set of Celery tasks over PostgreSQL. Every
request, task or command is one READ COMMITTED transaction; there is no row version,
no advisory lock and no `SELECT ... FOR UPDATE`. What two of them may do to each
other is therefore decided by unique constraints, row locks and the order of reads
and writes in the code, and that is what these modules are about.

Paths below are relative to `src/uk_jamaat_directory/` of the repository.

## Inventory

| component | state it keeps | operations | what makes it correct |
|---|---|---|---|
| candidate intake (`schedules/candidates.py`, importers, contributions) | `schedule_candidates`: status, value, evidence | insert; supersede and insert; rewrite in place | one active row per key and source; a rewrite is validated again |
| validation and moderation (`schedules/validation.py`, `prefetch.py`, `evaluation.py`, `approval.py`, `services/schedule_moderation.py`) | statuses and errors of candidates | validate a batch; approve; reject | nothing is published that did not pass; what needs a person is never approved without one |
| source policy (`services/admin_sources.py`, `services/public_policy.py`) | policy of a source | set | a source that is not public never enters a version |
| publication (`schedules/publication.py`, `schedules/dataset.py`) | dataset versions, occurrences, change events | publish, in full or filtered | readers get whole, sound, newest versions; nothing outside a filter is lost; events tell the difference |
| public reads and change feed (`services/public_reads.py`) | none | read the newest version, page through events | a consumer that follows the feed ends with the dataset |
| freshness (`schedules/freshness.py`) | `source_health`, freshness of occurrences | recompute one source, all sources | the freshness shown agrees with the health recorded |
| exports (`exports/`, `storage/s3.py`) | six objects a version, a manifest in its row | generate | a manifest's checksums are those of the objects |
| crawl (`ingest/crawl/`, `tasks/crawl.py`) | next fetch, failure counters, artifacts | list due sources, process one | every due source is processed, failures back off |
| repo extractors (`ingest/extract/repo_extractors/`) | assignments, script files | run, sync, prune, deploy | an active assignment has a script; a repaired one comes back |
| authoring (`ingest/authoring/`) | authoring tasks | author, smoke test, review, deploy, retry | a bounded number of attempts; a task that is deployed has an assignment |
| identity (`ingest/discovery/`, `services/admin_identity.py`) | mosques, their sources, reviews | resolve, review, merge | a source belongs to one live mosque; a merge loses nothing |
| websites (`services/website_discovery.py`, `services/mib_backfill.py`, `ingest/crawl/register.py`) | `website_url` of mosques, sources `web-<mosque>` | import, backfill, discover and promote, register | no website is overwritten unasked; every active mosque that has one is crawled |
| fetch, domain policy | last fetch by domain, in one process | fetch | not modelled: network I/O |
| HTTP API, admin UI, rate limits | sessions, counters | - | not modelled: rendering around the services above |
| extractor scripts | none | page to rows | not modelled: generated pure functions |

How they interact: importers, crawls and contributions call
`upsert_schedule_candidate`, and some call the validator in the same transaction.
The validator, moderators and publishers meet only in the candidates' rows.
Publishing reads the policies, the candidates and the previous version, and calls
the freshness code for every source it touched, in its own transaction. Reads,
exports and the change feed meet publishing in the version rows. Crawling, syncing
and authoring meet in the assignments.

Hard behaviours: long transactions that write from what they read at their start
(validation, publishing, pruning, authoring); unique constraints as the only mutual
exclusion (version names, sessions, artifacts, tasks); a beat that starts work which
may still be running; files and objects changed beside the database; retries and
counters that several layers maintain. `PROJECT.json` lists them one by one under
`hazards`.

## The modules

    Candidates      candidates, verdicts, policies and all that changes them
    VersionNames    the successor of the version names of a day
    Publication     EXTENDS both: publishers as concurrent transactions
    PublishedDataset   what readers are promised, implemented by Publication
    NamingDay       publishes one after another: only the names

    ChangeFeed      ids, commits and a consumer that pages by id
    AppendOnlyLog   what a feed is, implemented by ChangeFeed
    Exports         EXTENDS ChangeFeed: bulk files beside publishing and the feed

    Crawl           beat, queue, workers, backoff, failure counters
    Assignments     script files and assignment rows, and who changes them
    Authoring       EXTENDS Assignments: the nightly orchestrator
    TaskLife        what a source is promised by it, implemented by Authoring

    Identity        imports that link sources to mosques, reviews, merges
    Registration    websites of mosques and the sources made from them

    PublicationProofs, VersionProofs, FeedProofs, CrawlProofs,
    AuthoringProofs, IdentityProofs, RegistrationProofs,
    ExportsProofs                                           theorems
    MC<module>      the small instances TLC explores

How they fit: `Registration` makes the sources that `Crawl` visits; `Authoring` writes
the scripts that let `Crawl` read them; rows enter `Candidates`; `Publication` makes
versions of them; `ChangeFeed` and `Exports` hand versions out. `Publication`,
`Exports` and `Authoring` are compositions that are checked as such. Elsewhere one
module stands for another by an action or an assumption that the other justifies:
`Assignments` has `CrawlGivesUp` where `Crawl` counts to three, and `ChangeFeed` lets
one publish of a day write events at a time, which is `DayTurns`: `Publication`
implements it (checked in `races`, proved as `TakeTurns`), and `ChangeFeed` assumes no
more (`FeedTakesTurns`).

**Candidates.** `cand` is the table: a status and a value for each row identity,
`absent` before its insert. A value stands for the times, label and timezone;
`Bad` are those `validate_candidate` finds a hard error in. The one rule of the
validator that reads other rows, duplicates of the natural key, is modelled
(`Rivals`; its key holds the source, as in `prefetch.py`). `Manual` are the rows
`_requires_manual_approval` holds of: those of an AI run (`Ai`), of a community
source or of a website without the quality gate. `public` is the set of sources
whose policy is `public_redistribution_allowed`. Upserts, approvals, rejections and
policy changes decide and commit at once and are one action each. A batch validation
reads many rows (`ValidateRead`) and writes verdicts later (`ValidateWrite`), or dies
in between; `verdicts` is what it holds. `UpsertInsert` does not ask that no active
row of the key exist: two overlapping imports do not see each other's insert, and no
constraint forbids the second.

**Publication.** A publisher is one call of `publish_candidates`; `txn[p]` is what it
holds. Its steps are the groups of statements at which other transactions could be
seen: `Select` (lines 456-472: candidates, policies and the values to publish),
`ReadPrevious` (474-476), `ReadClock`, `ReadNames` and `Insert` (`dataset.py` 47-81), `WriteRows`
(482-557) and `Commit` (the caller's). A unique constraint makes `Insert` wait for a
publisher that holds the name (`NameHeld`), then refuses it (`InsertRefused`), and
`WriteRefused` is the constraint on sessions. A publish updates its candidates in
`WriteRows`; from there to `Commit` other writers of these rows wait (`Locked`). A
filter is a set of sessions (mosque and dates) and a set of sources; `Crash` undoes a
publish at any point. `Elsewhere` is any step of `Candidates`, in between. The clock is read before the
names are: another publish may read a later time, insert and commit in between, and what
follows then is older than the version it follows. `watch` is a history variable: the
policies a running publish could have seen, and whether it was overtaken in that window.

**PublishedDataset** says that publishing is atomic. A call takes what is approved in its
scope at that moment; its end makes the next dataset of the one served *then*: exactly the
batch, and, if the call is partial, every row of a public source whose session the batch
does not cover, in or out of its scope. Nothing else changes what is served. A source whose
policy changed during the call counts either way; all others are settled. `Publication`
refines it with `rows <- LatestRows`, `approved <- Approved` and `calls <- Calls`, when
publishers take turns. A lost row, a stale one and one that was never approved are all
steps that the abstract specification does not have.

**DayTurns** is what the names of versions and their unique index amount to: a publish
writes a version of a day that has begun, and no two write versions of one day.
`Publication` and `ChangeFeed` both refine it.

**ChangeFeed.** The database hands out an id at each insert of an event and shows the
row at the commit. `OpenVersion` is the insert of a version row, which keeps other
publishes of that day out; the day is that of the name, which the publish may have
chosen before midnight. `InsertEvent`, `CommitVersion` and `RollBack` follow; ids
are not given back. `Poll` is `get_changes`: the first `Limit` events after `since`.
`AcrossMidnight` says whether a publish may run into the next day. A version is `late` if
its publish was overtaken while it chose the name: then another of its day is served.
`AppendOnlyLog` only lets entries of a log appear above all that are there; the feed is
one such log for each day (`DayLogs`).

**Exports.** `generate_dataset_exports` in the order of the code: `Collect` reads the
rows of the sources that are public, `Put` writes one object at a time, `Record` writes
the manifest in the version's row. The daily `Beat` exports the latest version, operators
any; two exports of a version may overlap, and `Fail` leaves the objects put so far. Two
files stand for six: one that depends on the database, one that also holds the time of
the export. No two exports have one time, so an object knows only whose it is: of an export
that runs, the one the manifest records, or another (`Origins`).
`Load` is a consumer that takes a verified snapshot and goes on with the feed.

**Crawl.** An action `FetchDue` is one beat: an hour passes and every source that is due
is enqueued, whether or not an earlier task of it still waits or runs. While any
extractor is due no homepage is. A worker takes a task, reads the assignment, and ends
in a success or failure that writes back the counters as `pipeline.py` and `runtime.py`
do, one of them from what was read at the start. `wait` and `pause` count beats, not
hours: `Beats` adds the one that a run ending after a beat needs, which is also why an
hourly frequency means every second beat. `streak` is a history variable.

**Assignments and Authoring.** `script` is the file of a source by its quality, `assign`
its row. Files change at once, rows at the commit; pruning unlinks before it commits, so
`prune` holds what it will write and other writers of these rows wait. `Sync`, `Disable`,
deployment and crawls are other writers. A night of the orchestrator lists candidates,
runs the batch pre-flight, gives each source a job (agent, judgement, repairs), and
records and deploys in `Commit`; `RecordFailure` is the new session after an exception.
A job acts on what was listed at the start of the night. `GlobalTimeout` and `Kill`
cancel jobs, which record nothing. The agent and the smoke test may return anything.

**TaskLife** is what all this amounts to for a source, one variable and two actions: an open
task gets an outcome, which counts, or pruning forgives it. An open task is one never
attempted or one worth another attempt. `Authoring` refines it while nights do not overlap.

**Identity.** A record of an import is a transaction: `ReadSource`, then `WriteSource`,
whose update of the row takes its lock and only then looks for pending reviews, then one
commit for each outcome. Scores are left out: a record may match, ask for a review of any
mosques, or make a new one. A review keeps its alternatives and the mosque it proposes.
Administrators accept (one or in bulk), reject, merge and activate from what they read
before; an update by key waits for the row's writer (`Held`) and overwrites.

**Registration.** Imports of the two registries, backfill and discovery each read which
mosques have no website and write later; backfill asks again in its `UPDATE`, the others do
not. Discovery tries its two default providers one after the other, and the second may
overwrite what the first has just promoted; a promoted source is known by its provider and
mosque. Merges read the sources and the status they move and write before they lock any.
`Register` inserts a source `web-<mosque>` for each mosque of a batch, and fails as a
whole if one of the names is taken: `merge_mosques` moves sources, not their names.
`revived` is a history variable: mosques merged away whose status was changed back.

## What the runs check

`serial` has one publisher, full, by source and by session, two sources that both
cover a session, policies that change during the publish, and a midnight. It checks:

- `CarriedForward`: a filtered publish loses no row outside its filter whose source
  stayed public.
- `ChangesAnnounced`: events name exactly the sessions that are new, changed or gone,
  against the dataset being replaced *at the commit*.
- `RevokedNotRepublished`: no row of a source that was not public at any moment of
  the publish.
- `RefinesDataset`: the steps of a publish are as good as `PublishedDataset`'s one.

`races` has two publishers and a midnight over two rival candidates of one key and a third
of another source, one bad value and one row that needs a moderator:

- `PublishedRowsSound`: a version holds validated values, of rows that may be
  approved automatically, one per session, although verdicts are written late.
- `NewestUnlessOvertaken`: a version is served from its commit on (it is the newest of
  its day) unless its publish was overtaken between the clock and the names. The window
  is real (`dataset.py` 48-60); everywhere else the name decides the race.
- `OneWriterADay`: of the publishes of a day, one at most is past the insert of its
  version; the change feed depends on it.
- `RefinesTurns`: publishes that write versions take turns by the day (`DayTurns`), also
  when one of yesterday and one of today write at once. A lock of the current date, in the
  place of the unique name, would end this.
- `PublishEnds`: a publish that has started ends.
- `TypeOK`, among others that verdicts and batches name existing rows.

`delivery` composes publishing by two publishers of one day, two exporters, policies and a
consumer:

- `SinceIsEnough`: from a snapshot on, the consumer misses no event, also if the version
  it took is followed by one that is taken for older.
- `DayLogs`: the feed of a day grows at its end, whichever publisher commits next.
- `CleanIsVerified`: an export that ran alone to its end leaves objects that have the
  checksums of the manifest, whatever failed or overlapped before (ADR 0008).
- `RevokedRowsLeave`: rows of a source revoked for good leave the latest files for good.
- `VerifiedAgain`: again and again the latest files can be downloaded and verified.

`crawl` has an extractor and a homepage, two workers that may both run one source, and
a crash: `ThreeStrikesOut` (a failing extractor is taken out, although the counter is
shared and survives activations), `DueIsRun` (however often it has failed), and
`HomepageServed` (if beats without a due extractor recur; otherwise homepages do starve).

`authoring` has nights over an ordinary and a banned website while crawls, syncs,
releases and pruning go on: `DeployedIsAssigned`, `AttemptsBounded`,
`SettledIsLeftAlone` (ADR 0017: what is deployed or awaits a person is not attempted
again), `RefinesLife` (no outcome is recorded on a task that is not open, none goes
uncounted) and `NoEternalCandidate` (no source is cancelled each night for ever).

`identity` has two imports of one record and an administrator: `OnePendingReview`,
`NothingForgotten` (a source without a mosque has a review that is pending or rejected)
and `LinksMoveOnPurpose` (importing again never undoes a decision made before it).

`registry` has a shell, an administrator, the beat and an operator who registers too:
`WebsitesRegistered` (every active mosque with a website gets its source) and
`BlockedByRevived`. They show the same thing from two sides: after a merged mosque is made
active again its name is taken, every nightly registration fails as a whole, until the
revival is undone.

Five runs end in a violation, each of something the repository says:

- `stale_base`: with two publishers `CarriedForward` fails. The previous rows are
  read *before* the names. If another publish commits in between, the name chosen is
  free, the insert succeeds, and the new version replaces one it has never seen.
  Reading the names (and the time) first would turn this race into a refusal.
- `removals`: rows of a source made private leave the dataset without a removal
  event, because the previous rows are read through the policy filter.
- `eleventh`: names are compared as strings, `.9` is greater than `.10`, so the
  eleventh publish of a day chooses `.10` again and fails, as does every later one.
- `overwritten`: a website of OpenStreetMap, which ADR 0011 and `docs/data/import-order.md`
  say is never overwritten by one of MuslimsInBritain, is: of two imports at once, the
  second writes what was empty when it read the mosque. With one shell that fills in
  websites it is never overwritten (`OsmWebsitesStay`).
- `change_feed`: `PLAN.md` calls `GET /v1/changes?since=` incremental sync. A publish
  that named its version before midnight does not keep out one of the new day, which may
  commit higher ids first; who has read those never sees the lower ones
  (`SinceIsEnough`). Without a publish over midnight it holds, in `delivery` and proved.

One more divergence needs no run, as it is one branch of one function: ADR 0007 has rows of
AI, community and ungated website origin wait for an explicit approval, but
`approve_candidate` (`approval.py` 36) insists on the status that validation gives only to
rows that need none. `Approve` follows the code, and the theorem `ManualNeverApproved` says
what follows: no such row is ever approved, by anyone.

Every property of a passing run has a mutant: a plausible slip in a modelled
definition (marked `Mutant` in the modules) under which TLC finds it violated.

## Bounds

`MaxPublishes` counts publishes that read the clock, `MaxEdits` the transactions of
`Candidates`, `MaxDay` the days; three candidates, two sources, two sessions, two
values. One batch validation runs at a time. Two publishes are the least that have a
"previous" dataset, can race, and can fall on two days; `serial` needs five edits to fill
two sources, publish, and change a policy or revive a row before the second publish.
`races` needs four: write a good value, read, rewrite it with a bad one, write the verdict.
The mutants show that the bounds reach the cases the properties are about. Symmetry is used
in `serial` (values) and `identity` (mosques, importers), where no element is special and
nothing is asked of liveness.

The other runs name their bounds in the same way:

- `delivery`: two publishers of one day, two versions, two events, one export by hand, one
  failure or policy change. Two days do not fit beside the exporters; publishes over
  midnight are in `change_feed`, and days without bound in the proofs.
- `crawl`: two sources, two workers, one crash or activation, one task of a source waiting
  besides those that run (more would be skipped or repeat the same), and short hours:
  only their order matters to the properties.
- `authoring`: one orchestrator, two attempts, one repair, two events (crawls, calls of
  administrators, releases, pruning runs, kills). A source has to fail twice to be given
  up, and a deployed one to be pruned and attempted again.
- `identity`: two mosques, one source, three reviews, two importers, one administrator,
  one status set or failure. What overlaps on one source does not touch another.
- `registry`: two mosques, each in the records of one registry, one shell that curates, two
  events; blocking a registration takes a merge and a status changed back. No mosque is
  banned. `overwritten` has two shells, both mosques in both registries, and no events.
- `change_feed`: two publishers, two days, four ids.

The runs say `CHECK_DEADLOCK FALSE` because the model stops when its bounds are used
up, as the system does when nobody calls it. That a *publish* is never stuck is
`PublishEnds`.

## Fairness

`Publication` asks weak fairness of `Advance(p)`, the steps of a publish that has started:
a worker executes a coroutine to its end, and PostgreSQL wakes the waiter when the
holder of a name or a row ends. Nobody is bound to start a publish, edit a row or
crash. Weak fairness suffices since a step that is enabled stays so until another
publisher ends. `PublishEnds` counts a refusal or a crash as an end: it says that waiting
ends, not that a publish succeeds. One that fails again each time, as one of a source
without a mosque does, is no violation of it.

Elsewhere it is Celery's beat (`worker.py`) that goes on, and what it has started:

- `Exports`: the daily export begins again when the last has ended, and an export that
  has begun goes on. Operators and administrators need not act.
- `Crawl`: beats recur, a run ends, and a task that waits is taken. The last is strong
  fairness: workers may be busy in between, and the broker is a list that serves the
  oldest first.
- `Authoring`: an orchestrator starts every night and its jobs go on, and so does a
  pruning run. Nothing is asked of the agent's answers: `NoEternalCandidate` rests on
  attempts being counted. A night is cut off only after some job of it has ended, since
  the limit is hours and a job takes minutes; `NoEternalCandidate` needs this.
- `Registration`: the nightly task that registers sources. `Identity` has no liveness.

## What is proved

For every value of the constants that satisfies `CandidatesAssumption` and
`PublicationAssumption` (sets and functions of the right types; AI rows need a
moderator; an unfiltered call has the whole scope), and for any number of publishers:

- `TypeCorrect`: `Safety => []TypeOK`. It is inductive once it says that verdicts and
  batches name existing rows, which holds as rows are never deleted.
- `PublishedSound`: `Safety => []PublishedRowsSound`, by `SoundInv`. Soundness of the
  committed rows alone is not inductive: approved rows, pending verdicts, batches,
  bases and unwritten versions must be sound too. The argument is that `Publishable`
  validates again, whatever status a late verdict left.
- `RevokedStaysOut`: `Safety => []RevokedNotRepublished`, by `PolicyInv`: at every
  stage, what a publisher holds comes from sources that were public in its own run,
  and what is public now is among them.
- `ManualNeverApproved`, of the same invariant: neither a late verdict nor a moderator
  approves a row that needs a person.
- `OvertakenInOneWindow`: `Safety => []NewestUnlessOvertaken`, by `NamesInv`: the names of a
  day are 1 to k; a publisher's name is at most k + 1; while it is free, no version of that
  day was committed since the publisher read the *names*, so only those committed before,
  since it read the clock, can be newer; a publisher that has inserted holds its name
  alone. So whoever loses the race for a name is refused, and the window between clock and
  names is the only one in which a publish can be overtaken.
- `OneWriterAtATime`: `Safety => []OneWriterADay`, of the same invariant.
- `TenVersionsADay`, `FreeUntilTheTenth`: the string order, which `eleventh` exhibits, for
  every run. The name a publish would choose is free exactly while its day has no tenth
  version, so the run's counterexample is the only way for a publish to choose a name
  that was taken before it chose.
- `ServedUnlessOutdated`, by `InTime`: the days of names and the times of versions, those
  being written too, lie in one order, as the day *is* the date of the time. A publish is
  newer than exactly the versions of earlier days and, if it was not overtaken in the
  window, than all of its own; one from before midnight never takes over from one of the
  new day. Which version is served is thus known in every run.
- `TakeTurns`: `Safety => RefinesTurns`. `Insert` begins a turn because `OneWriterADay`
  still holds after it and `InTime` says that its day has begun.

What a publish keeps and tells is true only of publishes that see the dataset they
replace; `stale_base` shows the race that breaks it. The hypothesis is on the run, not
on the constants: `Undisturbed` says that no publish commits while another one is
between `ReadPrevious` and its own commit, which is weaker than one publisher, or one
publish, at a time. Several publishers may still select, be refused, crash, and run over
midnight, and TLC finds such runs with two publishers overlapping up to `Select`.

- `NothingLost` (`CarriedForward`), `EverythingAnnounced` (`ChangesAnnounced`) and
  `ServesTheDataset` (`RefinesDataset`, the atomic publish): `Safety /\ Undisturbed => ...`. The invariant
  (`SoloInv`) is that the base of a publish is what is served now (`BaseIsServed`: less
  what is not public), that a version written and not committed has the rows,
  announcements and removals that its batch and that base make (`WrittenFrom`), and that no two versions have one
  time (`DistinctTimes`), without which "the latest version" would be two. Policies may
  change between base and commit; the properties quantify over what was public all along.
- `RemovalsTold`: `Safety /\ Undisturbed /\ NoneRevoked => []RemovalsAnnounced`, which is
  what `removals` violates. `NoneRevoked` says that no public source becomes private. All
  that is served is then public (`VersionsArePublic`), so the policy filter hides nothing
  of the base, and the revoked policy of that counterexample is its only cause.
- `OneAfterAnother`: publishes one at a time (`[]OneAtATime`) are undisturbed, and
  `OnePublisher`: one publisher is one at a time, which is the instance `serial` explores.

`FeedProofs`, for any number of publishers, days and failures:

- `DaysAreLogs`: `DayLogs`, over midnight too. One publish of a day at most is open, so what
  it commits lies above all that its day has shown.
- `MissedAtMidnight`: whatever a consumer has missed belongs to an earlier day than some
  event it has read, over midnight too: midnight is the only way to miss an event.
- `IncrementalSync`: `SinceIsEnough`, if no publish runs over midnight (`~AcrossMidnight`).
  Then at most one publish is open at all (`InTurn`); `change_feed` shows that the condition
  is needed.
- `FeedTakesTurns`, over midnight too: the refinement of `DayTurns`.

`ExportsProofs`, for any number of publishers, exporters and failures:

- `ExportTypes`: `TypeOK`, under no condition. It needs that published versions stay
  published.
- `SnapshotAtMidnight`, and `SnapshotSync` (`SinceIsEnough`, if no publish runs over
  midnight): the same of the composition with exports, where a consumer may start, or start
  again, from the snapshot of the latest version, which stands for all committed before it.
- `SnapshotsKeepTheLogs`: `DayLogs` of the same composition.
- `CleanExports`: `CleanIsVerified`, under no condition. The invariant is that an export
  counted as alone is the only one on its version and all it has put is still there
  (`SoloOK`), and that nobody exports a version counted as clean (`CleanOK`).

`CrawlProofs`, for any number of workers:

- `CrawlTypes`, and `StruckOut`: `ThreeStrikesOut`. The counter that decides is not the one
  the property counts; the invariant is that it is never behind (`streak[s] <= strikes[s]`)
  and that an active source has fewer than three in `streak`.

`AuthoringProofs`, for any number of sources and jobs:

- `AuthoringTypes` and `DeployedHasRow`: rows are never deleted, and the recording of a
  deployment writes both.
- `Bounded` (`AttemptsBounded`), `SettledStays` (`SettledIsLeftAlone`) and `LivesAsPromised`
  (`RefinesLife`), if one orchestrator is on at a time (`[]NightsApart`), however many
  there are. The invariant says that the task of a pending job is open, and that what the
  job has seen of it, and will count from, lies between the task's attempts and the limit.
  This stays so although crawls, syncs and pruning write in between, as pruning only ever
  resets attempts to zero. `OneOrchestrator` is the instance `authoring` explores.

`RegistrationProofs`, for any number of curators, registrars and administrators:

- `RegistrationTypes`, and `OnlyRevivedBlock` (`BlockedByRevived`): a mosque whose name is
  taken owns a source, or it was merged away and is a duplicate still, or it was revived.
  The merges in progress are part of the invariant: they move what they have read.
- `OsmWebsitesStay`: `OsmWebsiteKept`, if one shell imports, backfills and discovers. What it
  takes for empty is then not of OpenStreetMap when it writes, whatever administrators do,
  and of two providers that find a website in one run that of OpenStreetMap is written last.
  `overwritten` shows that the condition is needed.

`IdentityProofs`, for any number of importers, administrators, sources and mosques:

- `IdentityTypes`: no source and no transaction names a mosque without a row.
- `OneReview`, `NoneForgotten`, `LinksMove`: `OnePendingReview`, `NothingForgotten` and
  `LinksMoveOnPurpose`. Nothing but the lock on the source's row orders imports of it, so
  the invariant (`HoldInv`) says what its holder may rely on: it is the only one, the
  reviews it found include all that are pending, none of them is accepted meanwhile, and
  a source it read as new or as linked still is. Every other step either spares a source
  or waits for the lock. Without the wait in `WriteSource` the proof fails at that lemma.

The assumptions are the named `ASSUME`s of the modules, which TLC evaluates on each run.
The invariants were first given to TLC on the instances above. Every invariant and every
safety property of a passing run is stated by a theorem. Only model-checked are the
liveness properties (`PublishEnds`, `DueIsRun`, `HomepageServed`, `RevokedRowsLeave`,
`VerifiedAgain`, `NoEternalCandidate`, `WebsitesRegistered`), which are beyond TLAPS. The
hypotheses are needed: `stale_base` shows it of `Undisturbed`, `removals` of `NoneRevoked`,
`change_feed` of `~AcrossMidnight`, `overwritten` of the one shell, and without `NightsApart` two nights may both count the
last attempt.

## What the model leaves out

- The statements of one group are taken together: a policy that changes between two
  `SELECT`s of `Select` is one that changed before or after it.
- An import that read a row while a publish or a moderator was changing it may write
  only the columns it changed; the states this leads to are those of the same
  transactions one after another, except that a row just published may be `pending`
  again, which a later publish treats as any other.
- Freshness labels, confidence, evidence and wording of rows and events.
- A publisher's candidate that was rejected or rewritten after `Select` still becomes
  `superseded` by `Commit`. The model does so too, and no property objects: nothing in
  the repository promises otherwise.
- A version that was overtaken, or one named before midnight and committed after one of the
  new day, is never served, while its candidates are superseded. `NewestUnlessOvertaken`
  and `ServedUnlessOutdated` say when this happens; no document says that it must not.
- Locks on the rows of `source_health` and of occurrences (`publication.py` 552-554,
  `freshness.py` 158-161). A publish takes them for one source after the other in the order
  of a set, so two publishes of different days, or one and the nightly recomputation, may
  wait for each other in a circle. PostgreSQL ends it by failing one of them, which is
  `Crash`; that publishes never deadlock is *not* claimed.
- `ChangeFeed` takes the names of versions as the lock they are (`OpenVersion`);
  `TakeTurns` is why. What an event says is not modelled, only its id.
- `Exports`: older versions keep the rows of a revoked source; nothing is promised of them.
- `Crawl`: the rows a run extracts (they are upserts of `Candidates`), artifacts and their
  unique hash except as a reason for a run to fail. A homepage counts as a success only
  on a page a repo extractor has read before.
- `Assignments`: sync brings back only what failed validation. One that was marked
  `missing_script` or `retired` stays out although its script is back and passes, where ADR
  0016 says that passing the gates is sufficient for activation (`sync.py` 214); the model
  follows the code (`SyncedStatus`).
- `Authoring`: the operator's flags for retries and the limits on a night's candidates.
- `Identity`: scores, names, aliases and claims; the occurrences a merge moves; a file as
  one transaction of many records, and the deadlocks PostgreSQL breaks between two such.
  An importer may match a mosque of any status, as in the code.
- `Registration`: how a page is verified; leads left for people; web sources attached by
  hand; the providers that are not on by default, whose websites are of neither registry.
- Importing a record again writes its policy over what an administrator decided; the model
  lets policies change at any time.

## Not modelled

- Freshness labels (`schedules/freshness.py`): computed from dates and the failure
  counter and overwritten at each recomputation; no other modelled state depends on
  them. The counter is in `Crawl`.
- Fetching, robots and the per-domain throttle: network I/O and a table in one process.
- HTTP, admin UI, sessions, rate limits: parsing and rendering, one transaction a request;
  the state they change is in the modules of the services they call.
- Parsers of bulk feeds, scores and name matching, verification of websites: pure
  functions of their input, abstracted to every outcome they may have.
- Extractor scripts: hundreds of generated functions from a page to rows. They are most
  of the repository's lines, and none keeps state.

Further work: the occurrences that a merge moves between two publishes.
