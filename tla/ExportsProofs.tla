---------------------------- MODULE ExportsProofs ----------------------------
(***************************************************************************)
(* Theorems about Exports, for any number of publishers, operators and     *)
(* failures: an export that ran alone leaves what its manifest says, and a *)
(* consumer that starts from a snapshot and goes on with the feed misses   *)
(* no more than one that reads the feed alone.                             *)
(***************************************************************************)
EXTENDS Exports, FeedProofs

-----------------------------------------------------------------------------
(* Versions. *)

\* Versions are a sequence, and within the bound.
VersionsOK ==
  /\ FeedTypeOK
  /\ Len(versions) <= MaxVersions

LEMMA VersionsInit == ASSUME FeedInit PROVE VersionsOK
BY FeedInitially, FeedAssumption DEF FeedInv, VersionsOK, FeedInit

\* A commit appends a version; nothing else touches them.
LEMMA FeedVersions ==
  ASSUME FeedTypeOK, [FeedNext]_feedVars
  PROVE  \/ versions' = versions
         \/ \E p \in Publishers :
              /\ Len(versions) < MaxVersions
              /\ open[p] # 0
              /\ \E late \in BOOLEAN :
                   versions' = Append(versions, [day |-> open[p], ids |-> pending[p], late |-> late])
BY DEF FeedNext, Publish, OpenVersion, InsertEvent, CommitVersion, RollBack, Midnight, Poll, feedVars

LEMMA VersionsStep == ASSUME VersionsOK, [FeedNext]_feedVars PROVE VersionsOK'
<1>1. FeedTypeOK' BY FeedTypes DEF VersionsOK
<1>2. Len(versions') <= MaxVersions
  <2>1. CASE versions' = versions BY <2>1 DEF VersionsOK
  <2>2. ASSUME NEW new, Len(versions) < MaxVersions, versions' = Append(versions, new)
        PROVE  Len(versions') <= MaxVersions
    BY <2>2, FeedAssumption DEF VersionsOK, FeedTypeOK, FeedAssumption
  <2> QED BY <2>1, <2>2, FeedVersions DEF VersionsOK
<1> QED BY <1>1, <1>2 DEF VersionsOK

-----------------------------------------------------------------------------
(* The consumer. *)

\* Nor do they depend on what a consumer loads.
LEMMA LoadTypes == ASSUME FeedTypeOK, Load PROVE FeedTypeOK'
<1>1. PICK v \in Published :
        /\ IF versions[v].ids = {}
           THEN since' = since
           ELSE \E last \in versions[v].ids : since' = last
        /\ seen' = seen \cup UNION {versions[w].ids : w \in 1..v}
  BY DEF Load
<1>2. UNCHANGED <<day, nextId, open, pending, versions>> BY DEF Load
<1>3. /\ Len(versions) \in Nat /\ Published = 1..Len(versions)
      /\ \A w \in Published : versions[w].ids \subseteq GivenIds
  BY VersionFacts DEF Published
<1>4. since' = since \/ since' \in GivenIds
  <2>1. CASE versions[v].ids = {} BY <1>1, <2>1
  <2>2. CASE versions[v].ids # {} BY <1>1, <1>3, <2>2
  <2> QED BY <2>1, <2>2
<1>5. since' \in 0..nextId - 1
  <2>1. nextId \in Nat \ {0} /\ since \in 0..nextId - 1 BY DEF FeedTypeOK
  <2>2. GivenIds \subseteq 0..nextId - 1 BY <2>1 DEF GivenIds
  <2> QED BY <1>4, <2>1, <2>2
<1>6. seen' \subseteq GivenIds
  <2>1. 1..v \subseteq Published BY <1>3
  <2> QED BY <1>1, <1>3, <2>1 DEF FeedTypeOK
<1>7. GivenIds' = GivenIds BY <1>2 DEF GivenIds
<1> QED BY <1>2, <1>5, <1>6, <1>7 DEF FeedTypeOK

\* A snapshot stands for the versions up to its own, and events of its day that it
\* leaves out have ids above its last.
LEMMA LoadKeeps ==
  ASSUME FeedInv, Load
  PROVE  FeedInv'
<1>1. PICK v \in Published :
        /\ IF versions[v].ids = {}
           THEN since' = since
           ELSE \E last \in versions[v].ids : since' = last
        /\ seen' = seen \cup UNION {versions[w].ids : w \in 1..v}
  BY DEF Load
<1>2. UNCHANGED <<day, nextId, open, pending, versions>> BY DEF Load
<1>3. Feed' = Feed /\ \A d : FeedOf(d)' = FeedOf(d) BY <1>2, SameFeed
<1>4. /\ Len(versions) \in Nat /\ Published = 1..Len(versions)
      /\ \A w \in Published : versions[w].ids \subseteq Nat
  BY VersionFacts, FeedBounded DEF FeedInv, Published
<1>5. since' = since \/ since' \in versions[v].ids
  <2>1. CASE versions[v].ids = {} BY <1>1, <2>1
  <2>2. CASE versions[v].ids # {} BY <1>1, <2>2
  <2> QED BY <2>1, <2>2
<1>6. FeedTypeOK' BY LoadTypes DEF FeedInv
<1>7. Ahead' BY <1>2, <1>3 DEF FeedInv, Ahead
<1>8. Sorted' BY <1>2 DEF FeedInv, Sorted
<1>9. since' = 0 \/ since' \in Feed' BY <1>3, <1>5 DEF FeedInv, Feed, Published
<1>10. MissedOnlyAcrossDays'
  <2> SUFFICES ASSUME NEW w \in Published, NEW i \in versions[w].ids,
                      i <= since', i \notin seen'
               PROVE  \E u \in Published :
                        /\ u < w
                        /\ versions[u].day # versions[w].day
                        /\ \E j \in versions[u].ids : i < j /\ j <= since'
    BY <1>2 DEF MissedOnlyAcrossDays, Published
  <2>1. CASE since' = since
    <3>1. i \notin seen BY <1>1
    <3> QED BY <2>1, <3>1 DEF FeedInv, MissedOnlyAcrossDays, Published
  <2>2. CASE since' \in versions[v].ids
    <3>1. v < w /\ v \in Nat /\ w \in Nat
      <4>1. w \notin 1..v BY <1>1
      <4> QED BY <1>4, <4>1
    <3>2. i # since' /\ (versions[v].day = versions[w].day => since' < i)
      BY <2>2, <3>1 DEF FeedInv, Sorted, Published
    <3>3. i \in Nat /\ since' \in Nat BY <1>4, <2>2
    <3>4. versions[v].day # versions[w].day BY <3>2, <3>3
    <3>5. i < since' /\ since' <= since' BY <3>2, <3>3
    <3> QED BY <2>2, <3>1, <3>4, <3>5
  <2> QED BY <1>5, <2>1, <2>2
<1> QED BY <1>6, <1>7, <1>8, <1>9, <1>10 DEF FeedInv

\* A step of Exports is one of the feed, a Load, or none of its business.
LEMMA StepOfFeed ==
  ASSUME [Next]_vars
  PROVE  [FeedNext]_feedVars \/ Load
BY DEF Next, BeatExports, OperatorExports, Collect, Work, Put, Record, Fail, SetPolicy, vars

LEMMA DeliveryAlways == Safety => []FeedInv
<1>1. Init => FeedInv BY FeedInitially DEF Init
<1>2. FeedInv /\ [Next]_vars => FeedInv' BY StepOfFeed, FeedStep, LoadKeeps
<1> QED BY <1>1, <1>2, PTL DEF Safety

\* A consumer that starts from a snapshot, or takes one again, and goes on with the
\* feed misses an event only if it has read a higher one of another day, committed
\* before it.
THEOREM SnapshotAtMidnight == Safety => []MissedOnlyAcrossDays
<1>1. FeedInv => MissedOnlyAcrossDays BY DEF FeedInv
<1> QED BY <1>1, DeliveryAlways, PTL

\* So it misses nothing, if no publish runs over midnight: not even by a snapshot of a
\* version that is followed by one which is taken for older.
THEOREM SnapshotSync ==
  ASSUME ~AcrossMidnight
  PROVE  Safety => []SinceIsEnough
<1>1. Init => InTurn BY InTurnInitially DEF Init
<1>2. FeedInv /\ InTurn /\ [Next]_vars => InTurn'
  <2>1. ASSUME FeedInv, InTurn, [FeedNext]_feedVars PROVE InTurn' BY <2>1, InTurnStep
  <2>2. ASSUME InTurn, Load PROVE InTurn'
    <3>1. UNCHANGED <<day, open, pending, versions>> BY <2>2 DEF Load
    <3> QED BY <2>2, <3>1, SameFeed DEF InTurn
  <2> QED BY <2>1, <2>2, StepOfFeed
<1>3. FeedInv /\ InTurn => SinceIsEnough BY NothingMissed
<1> QED BY <1>1, <1>2, <1>3, DeliveryAlways, PTL DEF Safety

\* Snapshots, policies and failing exports leave the events of every day the append-only
\* log they are.
THEOREM SnapshotsKeepTheLogs == Safety => DayLogs
<1>1. Init => Log!Init BY DEF Init, FeedInit, FeedOf, VersionsOf, Log!Init
<1>2. FeedInv /\ [Next]_vars => [Log!Append]_([d \in 1..MaxDay |-> FeedOf(d)])
  <2>1. ASSUME Load PROVE \A d : FeedOf(d)' = FeedOf(d) BY <2>1, SameFeed DEF Load
  <2> QED BY <2>1, StepOfFeed, LogStep
<1> QED BY <1>1, <1>2, DeliveryAlways, PTL DEF Safety, DayLogs, Log!Spec

-----------------------------------------------------------------------------
(* Type correctness. *)

Typed == TypeOK /\ VersionsOK

LEMMA TypedInit == ASSUME Init PROVE Typed
<1>1. VersionsOK BY VersionsInit DEF Init
<1>2. Missing \in Object \cup {Missing} /\ Nothing \in Stored BY DEF Nothing, Stored
<1>3. \A e \in Exporters : ~Exporting(e) BY DEF Init, Exporting
<1> QED BY <1>1, <1>2, <1>3, ExportsAssumption DEF Init, Typed, TypeOK, VersionsOK

\* Exporters are named as nothing else is.
LEMMA OwnNames ==
  ASSUME NEW e \in Exporters
  PROVE  e \notin {"recorded", "stray", "none", "missing"}
BY ExportsAssumption DEF Exporters

\* What an export is about to put and to record are objects.
LEMMA JobObjects ==
  ASSUME NEW rows \in SUBSET Sources, NEW e \in Exporters
  PROVE  /\ \A f \in FileNames : Body(rows, f, e) \in Object
         /\ Checksums(rows) \in Stored
<1>1. \A f : Body(rows, f, e) \in Object /\ Body(rows, f, "recorded") \in Object
  BY DEF Body, Object, Origins
<1> QED BY <1>1 DEF Checksums, Stored

\* The end of an export renames no more than the origin of one metadata.json.
LEMMA Relabelled ==
  ASSUME store \in [1..MaxVersions -> Stored], NEW v \in 1..MaxVersions, NEW e \in Exporters,
         NEW origin \in {AfterFailure(Origin(v), e), AfterRecord(Origin(v), e)},
         Becomes(v, origin)
  PROVE  /\ store' \in [1..MaxVersions -> Stored]
         /\ \A w \in 1..MaxVersions : w # v => store'[w] = store[w]
         /\ store'[v]["snapshot"] = store[v]["snapshot"]
         /\ store'[v]["metadata"] = [rows |-> store[v]["metadata"].rows, of |-> origin]
<1> DEFINE old == store[v]["metadata"]
           new == [rows |-> old.rows, of |-> origin]
<1>1. store[v] \in Stored /\ old \in Object \cup {Missing} BY DEF Stored, FileNames
<1>2. old = [rows |-> old.rows, of |-> old.of] /\ old.rows \in SUBSET Sources
  BY <1>1 DEF Object, Missing
<1>3. store' = [store EXCEPT ![v]["metadata"].of = origin] BY DEF Becomes
<1>a. store' = [store EXCEPT ![v] = [store[v] EXCEPT !["metadata"] = [old EXCEPT !.of = origin]]]
  BY <1>3
<1>4. [old EXCEPT !.of = origin] = new BY <1>2
<1>5. new \in Object \cup {Missing}
  <2>1. CASE old \in Object
    <3>1. old.of \in Origins \cup {NoTime} BY <2>1 DEF Object
    <3>2. origin \in Origins \cup {NoTime}
      BY <3>1 DEF AfterFailure, AfterRecord, Origin, Origins
    <3> QED BY <1>2, <3>2 DEF Object
  <2>2. CASE old = Missing
    <3>1. old.of = "missing" /\ old.rows = {} BY <2>2 DEF Missing
    <3>2. origin = "missing" BY <3>1, OwnNames DEF AfterFailure, AfterRecord, Origin
    <3> QED BY <3>1, <3>2 DEF Missing
  <2> QED BY <1>1, <2>1, <2>2
<1> HIDE DEF new, old
<1>6. store' = [store EXCEPT ![v] = [store[v] EXCEPT !["metadata"] = new]] BY <1>a, <1>4
<1>7. "metadata" \in FileNames /\ "snapshot" \in FileNames /\ "snapshot" # "metadata"
  BY DEF FileNames
<1>8. store[v] \in [FileNames -> Object \cup {Missing}] BY <1>1 DEF Stored
<1>9. [store[v] EXCEPT !["metadata"] = new] \in Stored BY <1>5, <1>8 DEF Stored
<1>10. /\ store' \in [1..MaxVersions -> Stored]
       /\ \A w \in 1..MaxVersions : w # v => store'[w] = store[w]
       /\ store'[v] = [store[v] EXCEPT !["metadata"] = new]
  BY <1>6, <1>9
<1> QED BY <1>7, <1>8, <1>10 DEF new, old

\* The put of one object.
LEMMA Stocked ==
  ASSUME Typed, NEW e \in Exporters, Put(e)
  PROVE  LET v == export[e].version
             n == export[e].put
             f == Files[n + 1]
             j == [version |-> v, rows |-> export[e].rows, put |-> n + 1]
             b == Body(export[e].rows, f, e)
         IN /\ v \in 1..MaxVersions /\ v \in Published /\ n \in {0, 1} /\ f \in FileNames
            /\ j \in Job /\ export' = [export EXCEPT ![e] = j]
            /\ b \in Object
            /\ store' \in [1..MaxVersions -> Stored]
            /\ store'[v][f] = b
            /\ \A g \in FileNames : g # f => store'[v][g] = store[v][g]
            /\ \A w \in 1..MaxVersions : w # v => store'[w] = store[w]
<1> DEFINE v == export[e].version
           n == export[e].put
           f == Files[n + 1]
           j == [version |-> v, rows |-> export[e].rows, put |-> n + 1]
           b == Body(export[e].rows, f, e)
<1>a. export \in [Exporters -> Job \cup {Idle}] /\ store \in [1..MaxVersions -> Stored]
  BY DEF Typed, TypeOK
<1>b. /\ export' = [export EXCEPT ![e].put = n + 1]
      /\ store' = [store EXCEPT ![v][f] = b]
      /\ Exporting(e) /\ n # 2
  BY DEF Put, AllPut, Files
<1>1. /\ export[e] \in Job /\ v \in 1..MaxVersions /\ n \in {0, 1}
      /\ export[e] = [version |-> v, rows |-> export[e].rows, put |-> n]
      /\ export[e].rows \in SUBSET Sources
  BY <1>a, <1>b DEF Exporting, Job
<1>2. f \in FileNames BY <1>1 DEF Files, FileNames
<1>3. j \in Job BY <1>1 DEF Job
<1>4. [export[e] EXCEPT !.put = n + 1] = j BY <1>1
<1>5. export' = [export EXCEPT ![e] = [export[e] EXCEPT !.put = n + 1]] BY <1>b
<1>6. export' = [export EXCEPT ![e] = j] BY <1>4, <1>5
<1>7. b \in Object BY <1>1, <1>2, JobObjects
<1>8. v \in Published BY <1>b DEF Typed, TypeOK
<1> HIDE DEF v, n, f, j, b
<1>9. store[v] \in [FileNames -> Object \cup {Missing}] BY <1>a, <1>1 DEF Stored
<1>10. store' = [store EXCEPT ![v] = [store[v] EXCEPT ![f] = b]] BY <1>b
<1>11. [store[v] EXCEPT ![f] = b] \in Stored BY <1>2, <1>7, <1>9 DEF Stored
<1>12. /\ store' \in [1..MaxVersions -> Stored]
       /\ \A w \in 1..MaxVersions : w # v => store'[w] = store[w]
       /\ store'[v] = [store[v] EXCEPT ![f] = b]
  BY <1>a, <1>1, <1>10, <1>11
<1>13. store'[v][f] = b /\ \A g \in FileNames : g # f => store'[v][g] = store[v][g]
  BY <1>2, <1>9, <1>12
<1> QED BY <1>1, <1>2, <1>3, <1>6, <1>7, <1>8, <1>12, <1>13 DEF v, n, f, j, b

\* The end of an export, whether or not it has put everything.
LEMMA Over ==
  ASSUME Typed, NEW e \in Exporters, Record(e) \/ Fail(e)
  PROVE  LET v == export[e].version
         IN /\ export[e] \in Job /\ v \in 1..MaxVersions
            /\ export' = [export EXCEPT ![e] = Idle]
            /\ solo' = solo \ {e}
            /\ store' \in [1..MaxVersions -> Stored]
            /\ \A w \in 1..MaxVersions : w # v => store'[w] = store[w]
            /\ manifest' \in [1..MaxVersions -> Stored]
            /\ \A w \in 1..MaxVersions : w # v => manifest'[w] = manifest[w]
            /\ store'[v]["snapshot"] = store[v]["snapshot"]
<1> DEFINE v == export[e].version
<1>1. /\ export \in [Exporters -> Job \cup {Idle}] /\ store \in [1..MaxVersions -> Stored]
      /\ manifest \in [1..MaxVersions -> Stored]
  BY DEF Typed, TypeOK
<1>2. export' = [export EXCEPT ![e] = Idle] /\ solo' = solo \ {e} /\ Exporting(e)
  BY DEF Record, Fail, Ended
<1>3. export[e] \in Job /\ v \in 1..MaxVersions /\ export[e].rows \in SUBSET Sources
  BY <1>1, <1>2 DEF Exporting, Job
<1>4. \E origin \in {AfterFailure(Origin(v), e), AfterRecord(Origin(v), e)} : Becomes(v, origin)
  BY DEF Record, Fail
<1>5. /\ store' \in [1..MaxVersions -> Stored]
      /\ \A w \in 1..MaxVersions : w # v => store'[w] = store[w]
      /\ store'[v]["snapshot"] = store[v]["snapshot"]
  <2> HIDE DEF v
  <2> QED BY <1>1, <1>3, <1>4, Relabelled
<1>6. manifest' = manifest \/ manifest' = [manifest EXCEPT ![v] = Checksums(export[e].rows)]
  BY DEF Record, Fail
<1>7. Checksums(export[e].rows) \in Stored BY <1>3, JobObjects
<1>8. /\ manifest' \in [1..MaxVersions -> Stored]
      /\ \A w \in 1..MaxVersions : w # v => manifest'[w] = manifest[w]
  <2> HIDE DEF v
  <2> QED BY <1>1, <1>6, <1>7
<1> QED BY <1>2, <1>3, <1>5, <1>8

\* Published versions stay published.
LEMMA StillPublished ==
  ASSUME FeedTypeOK, [FeedNext]_feedVars
  PROVE  Published \subseteq Published'
<1>1. Len(versions) \in Nat /\ Published = 1..Len(versions) BY VersionFacts DEF Published
<1>2. ASSUME NEW x, versions' = Append(versions, x) PROVE Published \subseteq Published'
  BY <1>1, <1>2 DEF FeedTypeOK, Published
<1> QED BY <1>2, FeedVersions DEF Published

LEMMA SameFeedTypes ==
  ASSUME FeedTypeOK, UNCHANGED feedVars
  PROVE  FeedTypeOK' /\ Published' = Published
BY DEF feedVars, FeedTypeOK, GivenIds, Published

LEMMA TypedStep ==
  ASSUME Typed, [Next]_vars
  PROVE  TypeOK'
<1>a. /\ export \in [Exporters -> Job \cup {Idle}] /\ store \in [1..MaxVersions -> Stored]
      /\ \A e \in Exporters : Exporting(e) => export[e].version \in Published
      /\ FeedTypeOK
  BY DEF Typed, TypeOK
<1>b. /\ Len(versions) \in Nat /\ Published = 1..Len(versions) /\ Len(versions) <= MaxVersions
      /\ MaxVersions \in Nat
  BY <1>a, VersionFacts, FeedAssumption DEF Typed, VersionsOK, Published
<1>1. CASE [FeedNext]_feedVars /\ UNCHANGED exportVars
  <2>1. FeedTypeOK' /\ Published \subseteq Published' BY <1>a, <1>1, FeedTypes, StillPublished
  <2> QED BY <1>1, <2>1 DEF exportVars, Exporting, Typed, TypeOK
<1>2. CASE Load
  <2>1. FeedTypeOK' BY <1>a, <1>2, LoadTypes
  <2> QED BY <1>2, <2>1 DEF Load, exportVars, Exporting, Published, Typed, TypeOK
<1>3. ASSUME NEW e \in Exporters, NEW v \in Published, Collect(e, v),
             byHand' \in 0..MaxByHand, events' \in 0..MaxEvents
      PROVE  TypeOK'
  <2> DEFINE j == [version |-> v, rows |-> public, put |-> 0]
  <2>1. v \in 1..MaxVersions BY <1>b
  <2>2. j \in Job /\ j.version = v BY <2>1 DEF Job, Typed, TypeOK
  <2>3. export' = [export EXCEPT ![e] = j] BY <1>3 DEF Collect
  <2> HIDE DEF j
  <2>4. export' \in [Exporters -> Job \cup {Idle}] BY <1>a, <2>2, <2>3
  <2>5. \A d \in Exporters : Exporting(d)' => export'[d].version \in Published
    BY <1>a, <2>2, <2>3 DEF Exporting
  <2>6. FeedTypeOK' /\ Published' = Published BY <1>a, <1>3, SameFeedTypes DEF Collect
  <2>7. solo' \subseteq Exporters /\ clean' \subseteq 1..MaxVersions
    BY <1>3 DEF Collect, Typed, TypeOK
  <2> QED BY <1>3, <2>4, <2>5, <2>6, <2>7 DEF Collect, Typed, TypeOK
<1>4. ASSUME NEW e \in Exporters, Put(e) PROVE TypeOK'
  <2> DEFINE j == [version |-> export[e].version, rows |-> export[e].rows,
                   put |-> export[e].put + 1]
  <2>1. /\ j \in Job /\ export' = [export EXCEPT ![e] = j]
        /\ export[e].version \in Published /\ store' \in [1..MaxVersions -> Stored]
    BY <1>4, Stocked
  <2>2. j.version = export[e].version OBVIOUS
  <2> HIDE DEF j
  <2>3. export' \in [Exporters -> Job \cup {Idle}] BY <1>a, <2>1
  <2>4. \A d \in Exporters : Exporting(d)' => export'[d].version \in Published
    BY <1>a, <2>1, <2>2 DEF Exporting
  <2>5. FeedTypeOK' /\ Published' = Published BY <1>a, <1>4, SameFeedTypes DEF Put
  <2> QED BY <1>4, <2>1, <2>3, <2>4, <2>5 DEF Put, Typed, TypeOK
<1>5. ASSUME NEW e \in Exporters, Record(e) \/ Fail(e) PROVE TypeOK'
  <2>1. /\ export[e] \in Job /\ export[e].version \in 1..MaxVersions
        /\ export' = [export EXCEPT ![e] = Idle] /\ solo' = solo \ {e}
        /\ store' \in [1..MaxVersions -> Stored]
        /\ manifest' \in [1..MaxVersions -> Stored]
    BY <1>5, Over
  <2>2. export' \in [Exporters -> Job \cup {Idle}] BY <1>a, <2>1
  <2>3. \A d \in Exporters : Exporting(d)' => export'[d].version \in Published
    BY <1>a, <2>1 DEF Exporting
  <2>4. clean' \subseteq 1..MaxVersions
    <3>1. clean' = clean \/ clean' = clean \cup {export[e].version}
      BY <1>5 DEF Record, Fail
    <3> QED BY <2>1, <3>1 DEF Typed, TypeOK
  <2>5. FeedTypeOK' /\ Published' = Published
    BY <1>a, <1>5, SameFeedTypes DEF Record, Fail
  <2>6. UNCHANGED <<public, byHand>> BY <1>5 DEF Record, Fail
  <2>7. events' \in 0..MaxEvents
    BY <1>5, ExportsAssumption DEF Record, Fail, Event, Typed, TypeOK
  <2>8. solo' \subseteq Exporters BY <2>1 DEF Typed, TypeOK
  <2> QED BY <2>1, <2>2, <2>3, <2>4, <2>5, <2>6, <2>7, <2>8 DEF Typed, TypeOK
<1>6. ASSUME NEW s \in Sources, SetPolicy(s) PROVE TypeOK'
  <2>1. FeedTypeOK' /\ Published' = Published BY <1>a, <1>6, SameFeedTypes DEF SetPolicy
  <2>2. events' \in 0..MaxEvents BY <1>6, ExportsAssumption DEF SetPolicy, Event, Typed, TypeOK
  <2> QED BY <1>6, <2>1, <2>2 DEF SetPolicy, Exporting, Typed, TypeOK
<1>7. CASE BeatExports
  <2>1. byHand' \in 0..MaxByHand /\ events' \in 0..MaxEvents
    BY <1>7 DEF BeatExports, Typed, TypeOK
  <2> QED BY <1>3, <1>7, <2>1 DEF BeatExports, Exporters
<1>8. ASSUME NEW e \in Operators, OperatorExports(e) PROVE TypeOK'
  <2>1. byHand' \in 0..MaxByHand /\ events' \in 0..MaxEvents
    BY <1>8, ExportsAssumption DEF OperatorExports, Typed, TypeOK
  <2> QED BY <1>3, <1>8, <2>1 DEF OperatorExports, Exporters
<1> QED BY <1>1, <1>2, <1>4, <1>5, <1>6, <1>7, <1>8 DEF Next, Work, vars

LEMMA TypedAlways == Safety => []Typed
<1>1. Typed /\ [Next]_vars => Typed'
  <2> SUFFICES ASSUME Typed, [Next]_vars PROVE Typed' OBVIOUS
  <2>1. TypeOK' BY TypedStep
  <2>2. VersionsOK'
    <3>1. CASE [FeedNext]_feedVars BY <3>1, VersionsStep DEF Typed
    <3>2. CASE Load
      <4>1. FeedTypeOK' BY <3>2, LoadTypes DEF Typed, VersionsOK
      <4> QED BY <3>2, <4>1 DEF Load, Typed, VersionsOK
    <3> QED BY <3>1, <3>2, StepOfFeed
  <2> QED BY <2>1, <2>2 DEF Typed
<1> QED BY <1>1, TypedInit, PTL DEF Safety

\* Every reachable state is well typed: an export writes objects and checksums for
\* versions that exist, and never for one that has gone.
THEOREM ExportTypes == Safety => []TypeOK
<1>1. Typed => TypeOK BY DEF Typed
<1> QED BY <1>1, TypedAlways, PTL

-----------------------------------------------------------------------------
(* Objects and manifests. *)

\* What a solo export has put is still there.
Intact(e) ==
  LET stored == store[export[e].version]
      rows == export[e].rows
  IN /\ export[e].put >= 1 => stored["snapshot"] = Body(rows, "snapshot", e)
     /\ export[e].put = 2 => stored["metadata"] = Body(rows, "metadata", e)

\* Solo exports are alone on their version.
SoloOK ==
  \A e \in solo :
    /\ Exporting(e)
    /\ \A d \in Exporters : export[d].version = export[e].version => d = e
    /\ Intact(e)

\* Nobody exports a clean version, and it can be verified.
CleanOK ==
  \A v \in clean :
    /\ \A e \in Exporters : export[e].version # v
    /\ Verified(v)

LEMMA CleanInit == Init => SoloOK /\ CleanOK
BY DEF Init, SoloOK, CleanOK

\* Other exporters go on as they were.
LEMMA NewJob ==
  ASSUME Typed, NEW e \in Exporters, NEW j, export' = [export EXCEPT ![e] = j]
  PROVE  /\ export'[e] = j
         /\ \A d \in Exporters : d # e => export'[d] = export[d]
BY DEF Typed, TypeOK

\* An export that no step touches keeps what it has put, if its version keeps it.
LEMMA StillIntact ==
  ASSUME NEW e, export'[e] = export[e], Intact(e),
         store'[export[e].version] = store[export[e].version]
  PROVE  Intact(e)'
BY DEF Intact, Body, NoTime

\* An export begins.
LEMMA CollectStep ==
  ASSUME Typed, SoloOK, CleanOK, NEW e \in Exporters, NEW v \in Published, Collect(e, v)
  PROVE  SoloOK' /\ CleanOK'
<1> DEFINE j == [version |-> v, rows |-> public, put |-> 0]
<1>1. export' = [export EXCEPT ![e] = j] /\ UNCHANGED <<store, manifest, versions>>
  BY DEF Collect, feedVars
<1>2. v # 0
  <2>1. Len(versions) \in Nat /\ Published = 1..Len(versions)
    BY VersionFacts DEF Typed, TypeOK, Published
  <2> QED BY <2>1
<1>3. j.version = v /\ j.put = 0 /\ j # Idle BY <1>2 DEF Idle
<1>4. /\ ~Exporting(e) /\ e \notin solo
      /\ clean' = clean \ {v}
      /\ solo' = IF Exports(v) = {} THEN solo \cup {e} ELSE solo \ Exports(v)
  BY DEF Collect, SoloOK
<1> HIDE DEF j
<1>5. export'[e] = j /\ \A d \in Exporters : d # e => export'[d] = export[d]
  BY <1>1, NewJob
<1>6. solo \subseteq Exporters BY DEF Typed, TypeOK
<1>7. SoloOK'
  <2> SUFFICES ASSUME NEW d \in solo'
               PROVE  /\ Exporting(d)'
                      /\ \A c \in Exporters : export'[c].version = export'[d].version => c = d
                      /\ Intact(d)'
    BY DEF SoloOK
  <2>1. CASE d = e
    <3>1. Exports(v) = {} BY <1>4, <2>1 DEF Exports
    <3>2. \A c \in Exporters : c # e => export'[c].version # v BY <1>5, <3>1 DEF Exports
    <3>3. Intact(d)' BY <1>3, <1>5, <2>1 DEF Intact
    <3>4. Exporting(d)' BY <1>3, <1>5, <2>1 DEF Exporting
    <3> QED BY <1>3, <1>5, <2>1, <3>2, <3>3, <3>4
  <2>2. CASE d # e
    <3>1. d \in solo /\ d \in Exporters /\ d \notin Exports(v) BY <1>4, <1>6, <2>2
    <3>2. export[d].version # v BY <3>1 DEF Exports
    <3>3. export'[d] = export[d] BY <1>5, <2>2, <3>1
    <3>4. \A c \in Exporters : export'[c].version = export'[d].version => c = d
      BY <1>3, <1>5, <3>1, <3>2, <3>3 DEF SoloOK
    <3>5. Intact(d)' BY <1>1, <3>1, <3>3, StillIntact DEF SoloOK
    <3>6. Exporting(d)' BY <3>1, <3>3 DEF SoloOK, Exporting
    <3> QED BY <3>4, <3>5, <3>6
  <2> QED BY <2>1, <2>2
<1>8. CleanOK'
  <2> SUFFICES ASSUME NEW w \in clean'
               PROVE  (\A d \in Exporters : export'[d].version # w) /\ Verified(w)'
    BY DEF CleanOK
  <2>1. w \in clean /\ w # v BY <1>4
  <2>2. Verified(w) /\ \A d \in Exporters : export[d].version # w BY <2>1 DEF CleanOK
  <2>3. Verified(w)' BY <1>1, <2>2 DEF Verified, Nothing
  <2> QED BY <1>3, <1>5, <2>1, <2>2, <2>3
<1> QED BY <1>7, <1>8

\* The next object is put.
LEMMA PutStep ==
  ASSUME Typed, SoloOK, CleanOK, NEW e \in Exporters, Put(e)
  PROVE  SoloOK' /\ CleanOK'
<1> DEFINE v == export[e].version
           n == export[e].put
           f == Files[n + 1]
           j == [version |-> v, rows |-> export[e].rows, put |-> n + 1]
           b == Body(export[e].rows, f, e)
<1>1. /\ v \in 1..MaxVersions /\ n \in {0, 1}
      /\ j \in Job /\ export' = [export EXCEPT ![e] = j]
      /\ store'[v][f] = b
      /\ \A g \in FileNames : g # f => store'[v][g] = store[v][g]
      /\ \A w \in 1..MaxVersions : w # v => store'[w] = store[w]
  BY Stocked
<1>2. f = IF n = 0 THEN "snapshot" ELSE "metadata" BY <1>1 DEF Files
<1>3. /\ j.version = v /\ j.put = n + 1 /\ j.rows = export[e].rows
      /\ j # Idle
  BY <1>1 DEF Idle
<1>4. UNCHANGED <<manifest, solo, clean>> /\ Exporting(e) BY DEF Put
<1>5. export'[e] = j /\ \A d \in Exporters : d # e => export'[d] = export[d]
  <2> HIDE DEF j
  <2> QED BY <1>1, NewJob
<1>6. \A d \in Exporters : export'[d].version = export[d].version
  <2> HIDE DEF j
  <2> QED BY <1>3, <1>5
<1>7. solo \subseteq Exporters /\ clean \subseteq 1..MaxVersions
      /\ \A d \in Exporters : Exporting(d) => export[d].version \in 1..MaxVersions
  BY DEF Typed, TypeOK, Exporting, Job
<1>8. SoloOK'
  <2> SUFFICES ASSUME NEW d \in solo
               PROVE  /\ Exporting(d)'
                      /\ \A c \in Exporters : export'[c].version = export'[d].version => c = d
                      /\ Intact(d)'
    BY <1>4 DEF SoloOK
  <2>1. /\ d \in Exporters /\ Exporting(d) /\ Intact(d)
        /\ \A c \in Exporters : export[c].version = export[d].version => c = d
    BY <1>7 DEF SoloOK
  <2>2. \A c \in Exporters : export'[c].version = export'[d].version => c = d
    BY <1>6, <2>1
  <2>3. CASE d # e
    <3>1. export[d].version # v /\ export[d].version \in 1..MaxVersions BY <1>7, <2>1, <2>3
    <3>2. export'[d] = export[d] BY <1>5, <2>1, <2>3
    <3>3. Intact(d)' BY <1>1, <2>1, <3>1, <3>2, StillIntact
    <3>4. Exporting(d)' BY <2>1, <3>2 DEF Exporting
    <3> QED BY <2>2, <3>3, <3>4
  <2>4. export'[e].version = v /\ export'[e].rows = export[e].rows /\ export'[e].put = n + 1
    <3> HIDE DEF j
    <3> QED BY <1>3, <1>5
  <2>5. CASE d = e
    <3>1. ASSUME n = 0 PROVE Intact(d)'
      <4>1. store'[v]["snapshot"] = Body(export[e].rows, "snapshot", e) BY <1>1, <1>2, <3>1
      <4>2. export'[e].put = 1 BY <1>3, <1>5, <3>1
      <4> QED BY <1>1, <2>5, <2>4, <4>1, <4>2 DEF Intact
    <3>2. ASSUME n = 1 PROVE Intact(d)'
      <4>1. store'[v]["metadata"] = Body(export[e].rows, "metadata", e) BY <1>1, <1>2, <3>2
      <4>2. store[v]["snapshot"] = Body(export[e].rows, "snapshot", e)
        BY <2>1, <2>5, <3>2 DEF Intact
      <4>3. store'[v]["snapshot"] = store[v]["snapshot"] BY <1>1, <1>2, <3>2 DEF FileNames
      <4> QED BY <2>5, <2>4, <4>1, <4>2, <4>3 DEF Intact
    <3>3. Exporting(e)' BY <1>3, <1>5 DEF Exporting
    <3> QED BY <1>1, <2>2, <2>5, <3>1, <3>2, <3>3
  <2> QED BY <2>3, <2>5
<1>9. CleanOK'
  <2> SUFFICES ASSUME NEW w \in clean
               PROVE  (\A d \in Exporters : export'[d].version # w) /\ Verified(w)'
    BY <1>4 DEF CleanOK
  <2>1. Verified(w) /\ \A d \in Exporters : export[d].version # w BY DEF CleanOK
  <2>2. store'[w] = store[w] BY <1>1, <1>7, <2>1
  <2>3. Verified(w)' BY <1>4, <2>1, <2>2 DEF Verified, Nothing
  <2> QED BY <1>6, <2>1, <2>3
<1> QED BY <1>8, <1>9

\* An export that has run alone records what it has put, and nothing has come between.
LEMMA RecordsWhatIsThere ==
  ASSUME Typed, SoloOK, NEW e \in solo, Record(e), NEW w, w = export[e].version
  PROVE  Verified(w)'
<1> DEFINE v == export[e].version
           rows == export[e].rows
<1>1. e \in Exporters /\ Intact(e) BY DEF SoloOK, Typed, TypeOK
<1>2. /\ manifest' = [manifest EXCEPT ![v] = Checksums(rows)]
      /\ Becomes(v, AfterRecord(Origin(v), e))
      /\ export[e].put = 2
  BY DEF Record, AllPut, Files
<1>3. /\ v \in 1..MaxVersions
      /\ manifest \in [1..MaxVersions -> Stored] /\ store \in [1..MaxVersions -> Stored]
      /\ store' \in [1..MaxVersions -> Stored]
      /\ store'[v]["snapshot"] = store[v]["snapshot"]
  BY <1>1, Over DEF Typed, TypeOK
<1>4. /\ store[v]["snapshot"] = Body(rows, "snapshot", e)
      /\ store[v]["metadata"] = Body(rows, "metadata", e)
  BY <1>1, <1>2 DEF Intact
<1>5. store'[v]["metadata"] = Body(rows, "metadata", "recorded")
  <2>1. store[v]["metadata"].rows = rows /\ Origin(v) = e BY <1>4 DEF Body, Origin
  <2>2. AfterRecord(Origin(v), e) = "recorded" BY <2>1 DEF AfterRecord
  <2>3. store'[v]["metadata"] = [rows |-> rows, of |-> "recorded"]
    <3> HIDE DEF v, rows
    <3> QED BY <1>1, <1>2, <1>3, <2>1, <2>2, Relabelled
  <2> QED BY <2>3 DEF Body
<1>6. store'[v]["snapshot"] = Body(rows, "snapshot", "recorded") BY <1>3, <1>4 DEF Body
<1>7. store'[v] = Checksums(rows)
  <2>1. store'[v] = [g \in FileNames |-> store'[v][g]] BY <1>3 DEF Stored
  <2> QED BY <1>5, <1>6, <2>1 DEF Checksums, FileNames
<1>8. manifest'[v] = Checksums(rows) BY <1>2, <1>3
<1>9. Checksums(rows) # Nothing
  <2>1. Checksums(rows)["snapshot"].of = "none" BY DEF Checksums, Body, FileNames, NoTime
  <2>2. Nothing["snapshot"].of = "missing" BY DEF Nothing, Missing, FileNames
  <2> QED BY <2>1, <2>2
<1>10. manifest'[v] # Nothing /\ manifest'[v] = store'[v] BY <1>7, <1>8, <1>9
<1> QED BY <1>10 DEF Verified, Nothing

\* An export ends, whether or not it has got to its end.
LEMMA EndStep ==
  ASSUME Typed, SoloOK, CleanOK, NEW e \in Exporters, Record(e) \/ Fail(e)
  PROVE  SoloOK' /\ CleanOK'
<1> DEFINE v == export[e].version
<1>1. /\ v \in 1..MaxVersions
      /\ export' = [export EXCEPT ![e] = Idle]
      /\ solo' = solo \ {e}
      /\ \A w \in 1..MaxVersions : w # v => store'[w] = store[w]
      /\ \A w \in 1..MaxVersions : w # v => manifest'[w] = manifest[w]
  BY Over
<1>2. export'[e] = Idle /\ \A d \in Exporters : d # e => export'[d] = export[d]
  BY <1>1, NewJob
<1>3. Idle.version = 0 BY DEF Idle
<1>4. solo \subseteq Exporters /\ clean \subseteq 1..MaxVersions
      /\ \A d \in Exporters : Exporting(d) => export[d].version \in 1..MaxVersions
  BY DEF Typed, TypeOK, Exporting, Job
<1>5. SoloOK'
  <2> SUFFICES ASSUME NEW d \in solo, d # e
               PROVE  /\ Exporting(d)'
                      /\ \A c \in Exporters : export'[c].version = export'[d].version => c = d
                      /\ Intact(d)'
    BY <1>1 DEF SoloOK
  <2>1. /\ d \in Exporters /\ Exporting(d) /\ Intact(d)
        /\ \A c \in Exporters : export[c].version = export[d].version => c = d
    BY <1>4 DEF SoloOK
  <2>2. export'[d] = export[d] BY <1>2, <2>1
  <2>3. export[d].version \in 1..MaxVersions /\ export[d].version # v BY <1>4, <2>1
  <2>4. \A c \in Exporters : export'[c].version = export'[d].version => c = d
    BY <1>2, <1>3, <2>1, <2>2, <2>3
  <2>5. Intact(d)' BY <1>1, <2>1, <2>2, <2>3, StillIntact
  <2>6. Exporting(d)' BY <2>1, <2>2 DEF Exporting
  <2> QED BY <2>4, <2>5, <2>6
<1>6. CleanOK'
  <2> SUFFICES ASSUME NEW w \in clean'
               PROVE  (\A d \in Exporters : export'[d].version # w) /\ Verified(w)'
    BY DEF CleanOK
  <2>1. CASE w \in clean
    <3>1. w \in 1..MaxVersions /\ Verified(w) /\ \A d \in Exporters : export[d].version # w
      BY <1>4, <2>1 DEF CleanOK
    <3>2. w # v BY <3>1
    <3>3. Verified(w)' BY <1>1, <3>1, <3>2 DEF Verified, Nothing
    <3>4. \A d \in Exporters : export'[d].version # w BY <1>2, <1>3, <3>1
    <3> QED BY <3>3, <3>4
  <2>2. CASE w \notin clean
    <3>1. Record(e) /\ e \in solo /\ w = v BY <2>2 DEF Record, Fail
    <3>2. \A d \in Exporters : export[d].version = v => d = e BY <3>1 DEF SoloOK
    <3>3. \A d \in Exporters : export'[d].version # w BY <1>1, <1>2, <1>3, <3>1, <3>2
    <3>4. Verified(w)' BY <3>1, RecordsWhatIsThere
    <3> QED BY <3>3, <3>4
  <2> QED BY <2>1, <2>2
<1> QED BY <1>5, <1>6

LEMMA ExportStep ==
  ASSUME Typed, SoloOK, CleanOK, [Next]_vars
  PROVE  SoloOK' /\ CleanOK'
<1>1. CASE UNCHANGED <<store, manifest, export, solo, clean>>
  <2>1. SoloOK' BY <1>1 DEF SoloOK, Exporting, Intact, Body, NoTime
  <2>2. CleanOK' BY <1>1 DEF CleanOK, Verified, Nothing
  <2> QED BY <2>1, <2>2
<1>2. ASSUME NEW e \in Exporters, NEW v \in Published, Collect(e, v)
      PROVE  SoloOK' /\ CleanOK'
  BY <1>2, CollectStep
<1>3. ASSUME NEW e \in Exporters, Work(e) \/ Fail(e)
      PROVE  SoloOK' /\ CleanOK'
  BY <1>3, PutStep, EndStep DEF Work
<1>4. ASSUME ~UNCHANGED <<store, manifest, export, solo, clean>>
      PROVE  \/ \E e \in Exporters, v \in Published : Collect(e, v)
             \/ \E e \in Exporters : Work(e) \/ Fail(e)
  <2>1. \/ BeatExports
        \/ \E e \in Operators : OperatorExports(e)
        \/ \E e \in Exporters : Work(e) \/ Fail(e)
    BY <1>4 DEF Next, SetPolicy, Load, exportVars, vars
  <2> QED BY <2>1 DEF BeatExports, OperatorExports, Exporters
<1> QED BY <1>1, <1>2, <1>3, <1>4

\* Whatever has failed or overlapped before, an export that ran alone to its end
\* leaves objects with the checksums of the manifest until the next one begins.
THEOREM CleanExports == Safety => []CleanIsVerified
<1>1. Typed /\ SoloOK /\ CleanOK /\ [Next]_vars => (SoloOK /\ CleanOK)' BY ExportStep
<1>2. CleanOK => CleanIsVerified BY DEF CleanOK, CleanIsVerified
<1> QED BY <1>1, <1>2, CleanInit, TypedAlways, PTL DEF Safety

=============================================================================
