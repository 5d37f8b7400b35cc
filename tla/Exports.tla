------------------------------ MODULE Exports -------------------------------
(***************************************************************************)
(* Bulk snapshots (exports/): an export of a published version collects    *)
(* its rows, puts one object per file into the store and then records the  *)
(* checksums of what it has put in the version's manifest.  The daily      *)
(* beat exports the latest version, operators any.  The rows depend on the *)
(* policies of the moment, metadata.json on the time of the export.        *)
(*                                                                         *)
(* Neither the objects nor the manifest are locked: exports of one version *)
(* may overlap, and an export may fail between any two objects.            *)
(*                                                                         *)
(* A consumer starts from a snapshot and goes on with the change feed.     *)
(***************************************************************************)
EXTENDS ChangeFeed

CONSTANTS
  Beat,         \* the worker that runs the daily task
  Operators,    \* shells that run generate-exports
  Sources,      \* sources with rows in every version
  MaxByHand,    \* bound: exports by operators
  MaxEvents     \* bound: failures and changes of policies

ASSUME ExportsAssumption ==
  /\ Beat \notin Operators
  /\ Operators \cap {"recorded", "stray", "none", "missing"} = {}
  /\ Beat \notin {"recorded", "stray", "none", "missing"}
  /\ MaxByHand \in Nat
  /\ MaxEvents \in Nat

Exporters == Operators \cup {Beat}

VARIABLES
  public,     \* sources with public_redistribution_allowed
  store,      \* version -> file -> the object stored
  manifest,   \* version -> file -> the object its manifest has the checksum of
  export,     \* exporter -> the export it is on
  solo,       \* history: exporters with no other export of the same version so far
  clean,      \* history: versions whose last export ran alone, to its end
  byHand,     \* counter for the bound
  events      \* counter for the bound

exportVars == <<public, store, manifest, export, solo, clean, byHand, events>>
vars == <<feedVars, exportVars>>

-----------------------------------------------------------------------------
(* Objects. *)

\* snapshot.ndjson, as occurrences.csv, depends on the database only, metadata.json on
\* the time too.  The order is that of build_export_files.
Files == <<"snapshot", "metadata">>
FileNames == {"snapshot", "metadata"}

\* Two times are never the same, so that of a metadata.json is known by its export: one
\* that is running, the one in the manifest, or another.
Origins == Exporters \cup {"recorded", "stray"}
NoTime == "none"

Object == [rows : SUBSET Sources, of : Origins \cup {NoTime}]
Missing == [rows |-> {}, of |-> "missing"]
Nothing == [f \in FileNames |-> Missing]

Job == [version : 1..MaxVersions, rows : SUBSET Sources, put : 0..2]
Idle == [version |-> 0, rows |-> {}, put |-> 0]
Exporting(e) == export[e] # Idle
Exports(v) == {e \in Exporters : export[e].version = v}

Body(rows, f, origin) == [rows |-> rows, of |-> IF f = "metadata" THEN origin ELSE NoTime]

\* Mutant: the checksums are those of the files built once more.
RebuiltChecksums(rows) == [f \in FileNames |-> Body(rows, f, "stray")]

Checksums(rows) == [f \in FileNames |-> Body(rows, f, "recorded")]

\* What is to be known of the origin o once the export of e has ended.
AfterFailure(o, e) == IF o = e THEN "stray" ELSE o
AfterRecord(o, e) == IF o = e THEN "recorded" ELSE IF o = "recorded" THEN "stray" ELSE o

Published == DOMAIN versions

\* get_latest_published_version: of the last day, the last one that was not late.
Newer(v, w) ==
  \/ versions[w].day < versions[v].day
  \/ versions[w].day = versions[v].day /\ w < v /\ ~versions[v].late
IsLatest(v) == v \in Published /\ ~versions[v].late /\ \A w \in Published : ~Newer(w, v)

Event == events < MaxEvents /\ events' = events + 1

-----------------------------------------------------------------------------
(* generate_dataset_exports. *)

\* collect_export_dataset: the rows of the sources that are public now.
Collect(e, v) ==
  /\ ~Exporting(e)
  /\ export' = [export EXCEPT ![e] =
                  [version |-> v, rows |-> public, put |-> 0]]
  /\ solo' = IF Exports(v) = {} THEN solo \cup {e} ELSE solo \ Exports(v)
  /\ clean' = clean \ {v}
  /\ UNCHANGED <<feedVars, public, store, manifest>>

BeatExports == \E v \in Published : IsLatest(v) /\ Collect(Beat, v) /\ UNCHANGED <<byHand, events>>
OperatorExports(e) ==
  /\ byHand < MaxByHand
  /\ byHand' = byHand + 1
  /\ \E v \in Published : Collect(e, v)
  /\ UNCHANGED events

AllPut(e) == export[e].put = Len(Files)

\* Mutant: an object that is already there is not written again.
PutMissing(e) ==
  LET v == export[e].version
      f == Files[export[e].put + 1]
  IN /\ Exporting(e)
     /\ ~AllPut(e)
     /\ export' = [export EXCEPT ![e].put = @ + 1]
     /\ store' = IF store[v][f] = Missing
                 THEN [store EXCEPT ![v][f] = Body(export[e].rows, f, e)] ELSE store
     /\ UNCHANGED <<feedVars, public, manifest, solo, clean, byHand, events>>

\* put_bytes, one file after the other.
Put(e) ==
  LET v == export[e].version
      f == Files[export[e].put + 1]
  IN /\ Exporting(e)
     /\ ~AllPut(e)
     /\ export' = [export EXCEPT ![e].put = @ + 1]
     /\ store' = [store EXCEPT ![v][f] = Body(export[e].rows, f, e)]
     /\ UNCHANGED <<feedVars, public, manifest, solo, clean, byHand, events>>

Ended(e) == export' = [export EXCEPT ![e] = Idle] /\ solo' = solo \ {e}

Becomes(v, origin) == store' = [store EXCEPT ![v]["metadata"].of = origin]
Origin(v) == store[v]["metadata"].of

\* Every object is put: the manifest is written and committed.
Record(e) ==
  LET v == export[e].version
  IN /\ Exporting(e)
     /\ AllPut(e)
     /\ manifest' = [manifest EXCEPT ![v] = Checksums(export[e].rows)]
     /\ Becomes(v, AfterRecord(Origin(v), e))
     /\ Ended(e)
     /\ clean' = IF e \in solo THEN clean \cup {v} ELSE clean
     /\ UNCHANGED <<feedVars, public, byHand, events>>

\* An upload fails, or the process: the objects put so far stay.
Fail(e) ==
  LET v == export[e].version
  IN /\ Exporting(e)
     /\ Event
     /\ Becomes(v, AfterFailure(Origin(v), e))
     /\ Ended(e)
     /\ UNCHANGED <<feedVars, public, manifest, clean, byHand>>

-----------------------------------------------------------------------------
(* Administrators and the consumer. *)

SetPolicy(s) ==
  /\ Event
  /\ public' = IF s \in public THEN public \ {s} ELSE public \cup {s}
  /\ UNCHANGED <<feedVars, store, manifest, export, solo, clean, byHand>>

Verified(v) == manifest[v] # Nothing /\ manifest[v] = store[v]

\* A consumer takes the latest snapshot, whose files have the checksums of the
\* manifest.  It stands for every version up to that one, and the last id in
\* changes.ndjson is where the feed is taken up again.
Load ==
  \E v \in Published :
    /\ IsLatest(v)
    /\ Verified(v)
    /\ IF versions[v].ids = {}
       THEN since' = since
       ELSE \E last \in versions[v].ids : IsLast(last, versions[v].ids) /\ since' = last
    /\ seen' = seen \cup UNION {versions[w].ids : w \in 1..v}
    /\ UNCHANGED <<day, nextId, open, pending, versions, exportVars>>

-----------------------------------------------------------------------------

Init ==
  /\ FeedInit
  /\ public = Sources
  /\ store = [v \in 1..MaxVersions |-> Nothing]
  /\ manifest = [v \in 1..MaxVersions |-> Nothing]
  /\ export = [e \in Exporters |-> Idle]
  /\ solo = {}
  /\ clean = {}
  /\ byHand = 0
  /\ events = 0

Work(e) == Put(e) \/ Record(e)

Next ==
  \/ FeedNext /\ UNCHANGED exportVars
  \/ BeatExports
  \/ \E e \in Operators : OperatorExports(e)
  \/ \E e \in Exporters : Work(e) \/ Fail(e)
  \/ \E s \in Sources : SetPolicy(s)
  \/ Load

Safety == Init /\ [][Next]_vars

\* The daily task is enabled (EXPORT_ENABLED) and an export that runs goes on.
Fairness == WF_vars(BeatExports) /\ \A e \in Exporters : WF_vars(Work(e))

Spec == Safety /\ Fairness

Stored == [FileNames -> Object \cup {Missing}]

TypeOK ==
  /\ FeedTypeOK
  /\ public \subseteq Sources
  /\ store \in [1..MaxVersions -> Stored]
  /\ manifest \in [1..MaxVersions -> Stored]
  /\ export \in [Exporters -> Job \cup {Idle}]
  /\ \A e \in Exporters : Exporting(e) => export[e].version \in Published
  /\ solo \subseteq Exporters
  /\ clean \subseteq 1..MaxVersions
  /\ byHand \in 0..MaxByHand
  /\ events \in 0..MaxEvents

-----------------------------------------------------------------------------
(* Properties. *)

\* Whatever has failed or overlapped before, an export that ran alone to its end
\* leaves objects with the checksums of the manifest, until the next one begins
\* (ADR 0008: "re-running export generation overwrites objects for the same version").
CleanIsVerified == \A v \in clean : Verified(v)

\* The rows of a source whose policy is revoked for good leave the files of the
\* latest version for good, even if an export that had read them is slow.
RevokedRowsLeave ==
  \A s \in Sources :
    <>[](s \notin public) =>
      <>[](\A v \in Published : IsLatest(v) => \A f \in FileNames : s \notin store[v][f].rows)

\* Again and again the files of the latest version can be downloaded and verified.
VerifiedAgain == []<>(\A v \in Published : IsLatest(v) => Verified(v))

=============================================================================
