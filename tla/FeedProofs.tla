----------------------------- MODULE FeedProofs -----------------------------
(***************************************************************************)
(* What the change feed promises, for any number of publishers, events,    *)
(* pages and days: whatever runs over midnight, the events of one day are  *)
(* an append-only log, and a consumer that goes on from the last id it has *)
(* read misses an event only if it has read a higher one of another day.   *)
(*                                                                         *)
(* The publish that is open is the only one of its day, so the ids it has  *)
(* been given are above all that readers have been shown of that day.  If  *)
(* no publish runs over midnight it is the only one at all, the days are   *)
(* in order too, and nothing is missed.  The run change_feed shows that    *)
(* midnight breaks that.                                                   *)
(***************************************************************************)
EXTENDS ChangeFeed, TLAPS

\* An event is missed across days only: the consumer had read a higher id of a version
\* of another day that was committed before it.
MissedOnlyAcrossDays ==
  \A v \in DOMAIN versions : \A i \in versions[v].ids :
    (i <= since /\ i \notin seen) =>
      \E w \in DOMAIN versions :
        /\ w < v
        /\ versions[w].day # versions[v].day
        /\ \E j \in versions[w].ids : i < j /\ j <= since

\* The ids of a version that is being written: its publish is the only one of the day,
\* and they are above those of the day that readers can see, and of nobody else.
Ahead ==
  /\ \A p, q \in Publishers : open[p] # 0 /\ open[p] = open[q] => p = q
  /\ \A p \in Publishers : open[p] = 0 => pending[p] = {}
  /\ \A p, q \in Publishers : p # q => pending[p] \cap pending[q] = {}
  /\ \A p \in Publishers : pending[p] \cap Feed = {}
  /\ \A p \in Publishers, d \in 1..MaxDay :
       d = open[p] => \A i \in pending[p], j \in FeedOf(d) : i > j

\* The ids of committed versions: of one version each, and in order within a day.
Sorted ==
  \A v, w \in DOMAIN versions : v < w =>
    /\ versions[v].ids \cap versions[w].ids = {}
    /\ versions[v].day = versions[w].day =>
         \A i \in versions[v].ids, j \in versions[w].ids : i < j

FeedInv ==
  /\ FeedTypeOK
  /\ Ahead
  /\ Sorted
  /\ since = 0 \/ since \in Feed
  /\ MissedOnlyAcrossDays

-----------------------------------------------------------------------------

\* A version is published and has the type of one.
LEMMA VersionFacts ==
  ASSUME FeedTypeOK
  PROVE  /\ Len(versions) \in Nat /\ DOMAIN versions = 1..Len(versions)
         /\ \A v \in DOMAIN versions :
              /\ versions[v].day \in 1..MaxDay /\ versions[v].ids \subseteq GivenIds
              /\ versions[v].late \in BOOLEAN
<1> DEFINE Version == [day : 1..MaxDay, ids : SUBSET GivenIds, late : BOOLEAN]
<1>1. versions \in Seq(Version) BY DEF FeedTypeOK
<1>2. \A v \in DOMAIN versions : versions[v] \in Version
  <2> HIDE DEF Version
  <2> QED BY <1>1
<1>3. Len(versions) \in Nat /\ DOMAIN versions = 1..Len(versions)
  <2> HIDE DEF Version
  <2> QED BY <1>1
<1> QED BY <1>2, <1>3

\* What readers see has an id that was given.
LEMMA FeedBounded ==
  ASSUME FeedTypeOK
  PROVE  Feed \subseteq GivenIds /\ GivenIds \subseteq Nat \ {0}
<1>1. Feed \subseteq GivenIds BY VersionFacts DEF Feed
<1> QED BY <1>1 DEF FeedTypeOK, GivenIds

\* A new version comes after those there are, and adds its events to those of its day.
LEMMA FeedGrows ==
  ASSUME FeedTypeOK, NEW new, versions' = Append(versions, new)
  PROVE  LET n == Len(versions) + 1
         IN /\ n \in Nat /\ n \notin DOMAIN versions
            /\ \A v \in DOMAIN versions : v < n
            /\ DOMAIN versions' = DOMAIN versions \cup {n}
            /\ \A v \in DOMAIN versions : versions'[v] = versions[v]
            /\ versions'[n] = new
            /\ Feed' = Feed \cup new.ids
            /\ \A d : FeedOf(d)' = IF d = new.day THEN FeedOf(d) \cup new.ids ELSE FeedOf(d)
<1> DEFINE n == Len(versions) + 1
<1>1. Len(versions) \in Nat /\ DOMAIN versions = 1..Len(versions) BY VersionFacts
<1>2. /\ DOMAIN versions' = 1..n
      /\ \A v \in 1..Len(versions) : versions'[v] = versions[v]
      /\ versions'[n] = new
  BY DEF FeedTypeOK
<1>3. 1..n = (1..Len(versions)) \cup {n} BY <1>1
<1>4. n \in Nat /\ n \notin DOMAIN versions /\ \A v \in DOMAIN versions : v < n BY <1>1
<1>5. DOMAIN versions' = DOMAIN versions \cup {n} BY <1>1, <1>2, <1>3
<1> HIDE DEF n
<1>6. Feed' = Feed \cup new.ids BY <1>1, <1>2, <1>5 DEF Feed
<1>7. ASSUME NEW d
      PROVE  FeedOf(d)' = IF d = new.day THEN FeedOf(d) \cup new.ids ELSE FeedOf(d)
  <2>1. VersionsOf(d)' = IF d = new.day THEN VersionsOf(d) \cup {n} ELSE VersionsOf(d)
    BY <1>1, <1>2, <1>4, <1>5 DEF VersionsOf
  <2>2. \A v \in VersionsOf(d) : versions'[v] = versions[v] BY <1>1, <1>2 DEF VersionsOf
  <2>3. CASE d = new.day
    <3>1. VersionsOf(d)' = VersionsOf(d) \cup {n} BY <2>1, <2>3
    <3>2. \A x : x \in FeedOf(d)' <=> \E v \in VersionsOf(d) \cup {n} : x \in versions'[v].ids
      BY <3>1 DEF FeedOf
    <3>3. \A x : x \in FeedOf(d) <=> \E v \in VersionsOf(d) : x \in versions[v].ids BY DEF FeedOf
    <3>4. \A x : x \in FeedOf(d)' <=> x \in FeedOf(d) \/ x \in versions'[n].ids
      BY <2>2, <3>2, <3>3
    <3> QED BY <1>2, <2>3, <3>4
  <2>4. CASE d # new.day
    <3>1. VersionsOf(d)' = VersionsOf(d) BY <2>1, <2>4
    <3> QED BY <2>2, <2>4, <3>1 DEF FeedOf
  <2> QED BY <2>3, <2>4
<1> QED BY <1>1, <1>2, <1>4, <1>5, <1>6, <1>7 DEF n

\* The feed is the same when versions are.
LEMMA SameFeed ==
  ASSUME versions' = versions
  PROVE  Feed' = Feed /\ \A d : FeedOf(d)' = FeedOf(d)
BY DEF Feed, FeedOf, VersionsOf

\* A publisher that ends holds nothing.
LEMMA CloseTypes ==
  ASSUME FeedTypeOK, NEW p \in Publishers, Close(p)
  PROVE  /\ open' \in [Publishers -> 0..MaxDay]
         /\ pending' \in [Publishers -> SUBSET GivenIds]
         /\ \A q \in Publishers : /\ open'[q] = IF q = p THEN 0 ELSE open[q]
                                 /\ pending'[q] = IF q = p THEN {} ELSE pending[q]
BY FeedAssumption DEF FeedTypeOK, Close

LEMMA FeedTypes == ASSUME FeedTypeOK, [FeedNext]_feedVars PROVE FeedTypeOK'
<1>1. ASSUME NEW p \in Publishers, OpenVersion(p) PROVE FeedTypeOK'
  <2>1. PICK d \in 1..day : open' = [open EXCEPT ![p] = d] BY <1>1 DEF OpenVersion
  <2>2. d \in 0..MaxDay BY FeedAssumption DEF FeedTypeOK
  <2> QED BY <1>1, <2>1, <2>2 DEF FeedTypeOK, OpenVersion, GivenIds
<1>2. ASSUME NEW p \in Publishers, InsertEvent(p) PROVE FeedTypeOK'
  <2>1. nextId \in Nat \ {0} /\ nextId' = nextId + 1 BY <1>2 DEF FeedTypeOK, InsertEvent
  <2>2. GivenIds \subseteq GivenIds' /\ nextId \in GivenIds' BY <2>1 DEF GivenIds
  <2>3. pending' \in [Publishers -> SUBSET GivenIds']
    BY <1>2, <2>2 DEF FeedTypeOK, InsertEvent
  <2>4. versions \in Seq([day : 1..MaxDay, ids : SUBSET GivenIds', late : BOOLEAN])
    <3> DEFINE Before == [day : 1..MaxDay, ids : SUBSET GivenIds, late : BOOLEAN]
               Now == [day : 1..MaxDay, ids : SUBSET GivenIds', late : BOOLEAN]
    <3>1. Before \subseteq Now BY <2>2
    <3>2. versions \in Seq(Before) BY DEF FeedTypeOK
    <3> HIDE DEF Before, Now
    <3>3. versions \in Seq(Now) BY <3>1, <3>2
    <3> QED BY <3>3 DEF Now
  <2>5. since \in 0..nextId' - 1 BY <2>1 DEF FeedTypeOK
  <2> QED BY <1>2, <2>1, <2>2, <2>3, <2>4, <2>5 DEF FeedTypeOK, InsertEvent
<1>3. ASSUME NEW p \in Publishers, RollBack(p) PROVE FeedTypeOK'
  BY <1>3, CloseTypes DEF FeedTypeOK, RollBack, GivenIds
<1>4. ASSUME NEW p \in Publishers, CommitVersion(p) PROVE FeedTypeOK'
  <2> DEFINE Version == [day : 1..MaxDay, ids : SUBSET GivenIds, late : BOOLEAN]
  <2>1. PICK late \in BOOLEAN :
          versions' = Append(versions, [day |-> open[p], ids |-> pending[p], late |-> late])
    BY <1>4 DEF CommitVersion
  <2> DEFINE v == [day |-> open[p], ids |-> pending[p], late |-> late]
  <2>a. v \in Version BY <1>4 DEF FeedTypeOK, CommitVersion
  <2>b. versions \in Seq(Version) /\ versions' = Append(versions, v) BY <2>1 DEF FeedTypeOK
  <2>2. versions' \in Seq(Version)
    <3> HIDE DEF Version, v
    <3> QED BY <2>a, <2>b
  <2> QED BY <1>4, <2>2, CloseTypes DEF FeedTypeOK, CommitVersion, GivenIds
<1>5. CASE Midnight
  BY <1>5, FeedAssumption DEF FeedTypeOK, Midnight, GivenIds
<1>6. CASE Poll
  <2>1. PICK page \in SUBSET After : \E last \in page :
          IsLast(last, page) /\ since' = last /\ seen' = seen \cup page
    BY <1>6 DEF Poll
  <2>2. PICK last \in page : since' = last /\ seen' = seen \cup page
    BY <2>1
  <2>3. page \subseteq GivenIds BY FeedBounded DEF After
  <2> QED BY <1>6, <2>2, <2>3 DEF FeedTypeOK, Poll, GivenIds
<1>7. CASE UNCHANGED feedVars
  BY <1>7 DEF feedVars, FeedTypeOK, GivenIds
<1> QED BY <1>1, <1>2, <1>3, <1>4, <1>5, <1>6, <1>7 DEF FeedNext, Publish

-----------------------------------------------------------------------------
(* The invariant. *)

LEMMA FeedInitially == FeedInit => FeedInv
<1> SUFFICES ASSUME FeedInit PROVE FeedInv
  OBVIOUS
<1>1. versions = <<>> /\ DOMAIN versions = {} BY DEF FeedInit
<1>2. Feed = {} BY <1>1 DEF Feed
<1>3. FeedTypeOK BY FeedAssumption DEF FeedInit, FeedTypeOK, GivenIds
<1>4. Ahead BY <1>2 DEF FeedInit, Ahead
<1> QED BY <1>1, <1>3, <1>4 DEF FeedInit, FeedInv, Sorted, MissedOnlyAcrossDays

\* Who opens a version is the only one of that day.
LEMMA OpenKeeps ==
  ASSUME FeedInv, FeedTypeOK', NEW p \in Publishers, OpenVersion(p)
  PROVE  FeedInv'
<1>1. PICK d \in 1..day : (\A q \in Publishers : open[q] # d) /\ open' = [open EXCEPT ![p] = d]
  BY DEF OpenVersion
<1>2. UNCHANGED <<day, nextId, pending, versions, since, seen>> BY DEF OpenVersion
<1>3. Feed' = Feed /\ \A e : FeedOf(e)' = FeedOf(e) BY <1>2, SameFeed
<1>4. \A q \in Publishers : open'[q] = IF q = p THEN d ELSE open[q]
  BY <1>1 DEF FeedInv, FeedTypeOK
<1>5. d # 0 /\ pending[p] = {} BY DEF OpenVersion, FeedInv, FeedTypeOK, Ahead
<1>6. Ahead' BY <1>1, <1>2, <1>3, <1>4, <1>5 DEF FeedInv, Ahead
<1> QED BY <1>2, <1>3, <1>6 DEF FeedInv, Sorted, MissedOnlyAcrossDays

\* A new event has the highest id of all.
LEMMA InsertKeeps ==
  ASSUME FeedInv, FeedTypeOK', NEW p \in Publishers, InsertEvent(p)
  PROVE  FeedInv'
<1>1. /\ pending' = [pending EXCEPT ![p] = @ \cup {nextId}] /\ open[p] # 0
      /\ UNCHANGED <<day, open, versions, since, seen>>
  BY DEF InsertEvent
<1>2. Feed' = Feed /\ \A d : FeedOf(d)' = FeedOf(d) BY <1>1, SameFeed
<1>3. nextId \in Nat \ {0} BY DEF FeedInv, FeedTypeOK
<1>4. \A i \in GivenIds : nextId > i BY <1>3 DEF GivenIds
<1>5. \A d : FeedOf(d) \subseteq Feed BY DEF FeedOf, VersionsOf, Feed
<1>6. Feed \subseteq GivenIds BY FeedBounded DEF FeedInv
<1>7. \A q \in Publishers : /\ pending[q] \subseteq GivenIds
                            /\ pending'[q] = IF q = p THEN pending[q] \cup {nextId} ELSE pending[q]
  BY <1>1 DEF FeedInv, FeedTypeOK
<1>8. nextId \notin GivenIds BY <1>3 DEF GivenIds
<1>9. Ahead'
  <2>1. ASSUME NEW q \in Publishers, NEW r \in Publishers, q # r
        PROVE  pending'[q] \cap pending'[r] = {}
    <3>1. nextId \notin pending[q] /\ nextId \notin pending[r] BY <1>7, <1>8
    <3>2. pending[q] \cap pending[r] = {} BY <2>1 DEF FeedInv, Ahead
    <3> QED BY <1>7, <2>1, <3>1, <3>2
  <2>2. ASSUME NEW q \in Publishers PROVE pending'[q] \cap Feed' = {}
    <3>1. nextId \notin Feed BY <1>6, <1>8
    <3>2. pending[q] \cap Feed = {} BY DEF FeedInv, Ahead
    <3> QED BY <1>2, <1>7, <3>1, <3>2
  <2>3. ASSUME NEW q \in Publishers, NEW d \in 1..MaxDay, d = open[q],
               NEW i \in pending'[q], NEW j \in FeedOf(d)
        PROVE  i > j
    <3>1. CASE i = nextId BY <1>4, <1>5, <1>6, <3>1
    <3>2. CASE i \in pending[q] BY <2>3, <3>2 DEF FeedInv, Ahead
    <3> QED BY <1>7, <3>1, <3>2
  <2>4. \A q \in Publishers : open[q] = 0 => pending'[q] = {}
    BY <1>1, <1>7 DEF FeedInv, Ahead
  <2> QED BY <1>1, <1>2, <2>1, <2>2, <2>3, <2>4 DEF FeedInv, Ahead
<1> QED BY <1>1, <1>2, <1>9 DEF FeedInv, Sorted, MissedOnlyAcrossDays

LEMMA RollBackKeeps ==
  ASSUME FeedInv, FeedTypeOK', NEW p \in Publishers, RollBack(p)
  PROVE  FeedInv'
<1>1. UNCHANGED <<day, nextId, versions, since, seen>> BY DEF RollBack
<1>2. Feed' = Feed /\ \A d : FeedOf(d)' = FeedOf(d) BY <1>1, SameFeed
<1>3. \A q \in Publishers : /\ open'[q] = IF q = p THEN 0 ELSE open[q]
                            /\ pending'[q] = IF q = p THEN {} ELSE pending[q]
  BY CloseTypes DEF RollBack, FeedInv
<1>4. Ahead' BY <1>2, <1>3 DEF FeedInv, Ahead
<1> QED BY <1>1, <1>2, <1>4 DEF FeedInv, Sorted, MissedOnlyAcrossDays

\* A committed event that the consumer has passed is one of a day that it has passed
\* with an event of another day: its own day had none above it.
LEMMA CommitKeeps ==
  ASSUME FeedInv, FeedTypeOK', NEW p \in Publishers, CommitVersion(p)
  PROVE  /\ FeedInv'
         /\ \A d : FeedOf(d)' = IF d = open[p] THEN FeedOf(d) \cup pending[p] ELSE FeedOf(d)
<1>a. FeedTypeOK BY DEF FeedInv
<1>1. PICK late \in BOOLEAN :
        versions' = Append(versions, [day |-> open[p], ids |-> pending[p], late |-> late])
  BY DEF CommitVersion
<1> DEFINE new == [day |-> open[p], ids |-> pending[p], late |-> late]
           n == Len(versions) + 1
<1>2. new.day = open[p] /\ new.ids = pending[p] OBVIOUS
<1>3. versions' = Append(versions, new) BY <1>1
<1> HIDE DEF new, n
<1>4. /\ n \in Nat /\ n \notin DOMAIN versions /\ \A v \in DOMAIN versions : v < n
      /\ DOMAIN versions' = DOMAIN versions \cup {n}
      /\ \A v \in DOMAIN versions : versions'[v] = versions[v]
      /\ versions'[n] = new
      /\ Feed' = Feed \cup pending[p]
      /\ \A d : FeedOf(d)' = IF d = open[p] THEN FeedOf(d) \cup pending[p] ELSE FeedOf(d)
  BY <1>a, <1>2, <1>3, FeedGrows DEF n
<1>5. \A q \in Publishers : /\ open'[q] = IF q = p THEN 0 ELSE open[q]
                            /\ pending'[q] = IF q = p THEN {} ELSE pending[q]
  BY <1>a, CloseTypes DEF CommitVersion
<1>6. open[p] # 0 /\ open[p] \in 1..MaxDay /\ UNCHANGED <<since, seen>>
  BY <1>a DEF CommitVersion, FeedTypeOK
<1>7. \A v \in DOMAIN versions : v \in Nat /\ versions[v].ids \subseteq Feed
  BY <1>a, VersionFacts DEF Feed
<1>8. Ahead'
  <2>1. \A q \in Publishers : pending'[q] \cap Feed' = {}
    BY <1>4, <1>5 DEF FeedInv, Ahead
  <2>2. ASSUME NEW q \in Publishers, NEW d \in 1..MaxDay, d = open'[q],
               NEW i \in pending'[q], NEW j \in FeedOf(d)'
        PROVE  i > j
    <3>1. q # p /\ i \in pending[q] /\ d = open[q] BY <1>5, <2>2
    <3>2. open[q] # 0 BY <3>1 DEF FeedInv, Ahead
    <3>3. d # open[p] BY <3>1, <3>2 DEF FeedInv, Ahead
    <3>4. FeedOf(d)' = FeedOf(d) BY <1>4, <3>3
    <3> QED BY <2>2, <3>1, <3>4 DEF FeedInv, Ahead
  <2> QED BY <1>5, <2>1, <2>2 DEF FeedInv, Ahead
<1>9. Sorted'
  <2> SUFFICES ASSUME NEW v \in DOMAIN versions', NEW w \in DOMAIN versions', v < w
               PROVE  /\ versions'[v].ids \cap versions'[w].ids = {}
                      /\ versions'[v].day = versions'[w].day =>
                           \A i \in versions'[v].ids, j \in versions'[w].ids : i < j
    BY DEF Sorted
  <2>1. v \in DOMAIN versions BY <1>4, <1>7
  <2>2. CASE w \in DOMAIN versions BY <1>4, <2>1, <2>2 DEF FeedInv, Sorted
  <2>3. CASE w = n
    <3>1. versions'[w].ids = pending[p] /\ versions'[w].day = open[p] BY <1>2, <1>4, <2>3
    <3>2. versions[v].ids \cap pending[p] = {} BY <1>7, <2>1 DEF FeedInv, Ahead
    <3>3. versions[v].day = open[p] => versions[v].ids \subseteq FeedOf(open[p])
      BY <2>1 DEF FeedOf, VersionsOf
    <3>4. \A i \in pending[p], j \in FeedOf(open[p]) : j < i
      <4>1. pending[p] \subseteq Nat /\ FeedOf(open[p]) \subseteq Nat
        BY <1>a, FeedBounded DEF FeedTypeOK, FeedOf, VersionsOf, Feed
      <4> QED BY <1>6, <4>1 DEF FeedInv, Ahead
    <3> QED BY <1>4, <2>1, <3>1, <3>2, <3>3, <3>4
  <2> QED BY <1>4, <2>2, <2>3
<1>10. MissedOnlyAcrossDays'
  <2> SUFFICES ASSUME NEW v \in DOMAIN versions', NEW i \in versions'[v].ids,
                      i <= since, i \notin seen
               PROVE  \E w \in DOMAIN versions' :
                        /\ w < v
                        /\ versions'[w].day # versions'[v].day
                        /\ \E j \in versions'[w].ids : i < j /\ j <= since
    BY <1>6 DEF MissedOnlyAcrossDays
  <2>1. CASE v \in DOMAIN versions
    <3>1. PICK w \in DOMAIN versions :
            /\ w < v
            /\ versions[w].day # versions[v].day
            /\ \E j \in versions[w].ids : i < j /\ j <= since
      BY <1>4, <2>1 DEF FeedInv, MissedOnlyAcrossDays
    <3> QED BY <1>4, <2>1, <3>1
  <2>2. CASE v = n
    <3>1. i \in pending[p] BY <1>2, <1>4, <2>2
    <3>2. i \in Nat \ {0} /\ since \in Nat
      BY <1>a, <3>1, FeedBounded DEF FeedTypeOK
    <3>3. since \in Feed BY <3>2 DEF FeedInv
    <3>4. i < since BY <3>1, <3>2, <3>3 DEF FeedInv, Ahead
    <3>5. PICK w \in DOMAIN versions : since \in versions[w].ids BY <3>3 DEF Feed
    <3>6. versions[w].day # open[p]
      <4> SUFFICES ASSUME versions[w].day = open[p] PROVE FALSE OBVIOUS
      <4>1. since \in FeedOf(open[p]) BY <3>5 DEF FeedOf, VersionsOf
      <4>2. i > since BY <1>6, <3>1, <4>1 DEF FeedInv, Ahead
      <4> QED BY <3>2, <3>4, <4>2
    <3>7. versions'[w] = versions[w] /\ versions'[v].day = open[p] /\ w < v
      BY <1>2, <1>4, <2>2
    <3> QED BY <1>4, <3>2, <3>4, <3>5, <3>6, <3>7
  <2> QED BY <1>4, <2>1, <2>2
<1>11. since' = 0 \/ since' \in Feed' BY <1>4, <1>6 DEF FeedInv
<1> QED BY <1>4, <1>8, <1>9, <1>10, <1>11 DEF FeedInv

\* A page leaves no event behind: any that is not on it is above its last.
LEMMA PollKeeps ==
  ASSUME FeedInv, FeedTypeOK', Poll
  PROVE  FeedInv'
<1>0. PICK page \in SUBSET After : \E last \in page :
        IsPage(page) /\ IsLast(last, page) /\ since' = last /\ seen' = seen \cup page
  BY DEF Poll
<1>1. PICK last \in page :
        IsPage(page) /\ IsLast(last, page) /\ since' = last /\ seen' = seen \cup page
  BY <1>0
<1>2. UNCHANGED <<day, nextId, open, pending, versions>> BY DEF Poll
<1>3. Feed' = Feed /\ \A d : FeedOf(d)' = FeedOf(d) BY <1>2, SameFeed
<1>4. Feed \subseteq Nat /\ since \in Nat /\ last \in Feed /\ last > since
  BY <1>1, FeedBounded DEF After, FeedInv, FeedTypeOK
<1>5. Ahead' BY <1>2, <1>3 DEF FeedInv, Ahead
<1>6. MissedOnlyAcrossDays'
  <2> SUFFICES ASSUME NEW v \in DOMAIN versions, NEW i \in versions[v].ids,
                      i <= last, i \notin seen'
               PROVE  \E w \in DOMAIN versions :
                        /\ w < v
                        /\ versions[w].day # versions[v].day
                        /\ \E j \in versions[w].ids : i < j /\ j <= last
    BY <1>1, <1>2 DEF MissedOnlyAcrossDays
  <2>1. i \in Feed /\ i \in Nat BY <1>4 DEF Feed
  <2>2. i <= since
    <3> SUFFICES ASSUME i > since PROVE FALSE BY <1>4, <2>1
    <3>1. i \in After \ page BY <1>1, <2>1 DEF After
    <3>2. last < i BY <1>1, <3>1 DEF IsPage
    <3>3. last \in Nat BY <1>4
    <3> QED BY <2>1, <3>2, <3>3
  <2>3. PICK w \in DOMAIN versions :
          /\ w < v
          /\ versions[w].day # versions[v].day
          /\ \E j \in versions[w].ids : i < j /\ j <= since
    BY <1>1, <2>2 DEF FeedInv, MissedOnlyAcrossDays
  <2>4. \A j \in versions[w].ids : j <= since => j <= last
    <3>1. versions[w].ids \subseteq Nat BY <1>4 DEF Feed
    <3> QED BY <1>4, <3>1
  <2> QED BY <2>3, <2>4
<1>7. Sorted' BY <1>2 DEF FeedInv, Sorted
<1> QED BY <1>1, <1>3, <1>4, <1>5, <1>6, <1>7 DEF FeedInv

LEMMA FeedStep ==
  ASSUME FeedInv, [FeedNext]_feedVars
  PROVE  FeedInv'
<1>t. FeedTypeOK' BY FeedTypes DEF FeedInv
<1>1. CASE Poll BY <1>t, <1>1, PollKeeps
<1>2. ASSUME NEW p \in Publishers, Publish(p) PROVE FeedInv'
  BY <1>t, <1>2, OpenKeeps, InsertKeeps, CommitKeeps, RollBackKeeps DEF Publish
<1>3. CASE Midnight \/ UNCHANGED feedVars
  <2>1. UNCHANGED <<nextId, open, pending, versions, since, seen>>
    BY <1>3 DEF Midnight, feedVars
  <2>2. Feed' = Feed /\ \A d : FeedOf(d)' = FeedOf(d) BY <2>1, SameFeed
  <2>3. Ahead' BY <2>1, <2>2 DEF FeedInv, Ahead
  <2> QED BY <1>t, <2>1, <2>2, <2>3 DEF FeedInv, Sorted, MissedOnlyAcrossDays
<1> QED BY <1>1, <1>2, <1>3 DEF FeedNext

LEMMA FeedAlways == FeedSpec => []FeedInv
<1>1. FeedInv /\ [FeedNext]_feedVars => FeedInv' BY FeedStep
<1> QED BY <1>1, FeedInitially, PTL DEF FeedSpec

\* Over midnight, too, a consumer that goes on from the last id it has read misses an
\* event only if it has read a higher one of another day, committed before it.
THEOREM MissedAtMidnight == FeedSpec => []MissedOnlyAcrossDays
<1>1. FeedInv => MissedOnlyAcrossDays BY DEF FeedInv
<1> QED BY <1>1, FeedAlways, PTL

-----------------------------------------------------------------------------
(* Logs. *)

\* Only a commit shows events, and what it shows is above all that was shown of the day.
LEMMA LogStep ==
  ASSUME FeedInv, [FeedNext]_feedVars
  PROVE  [Log!Append]_([d \in 1..MaxDay |-> FeedOf(d)])
<1> DEFINE shown == [d \in 1..MaxDay |-> FeedOf(d)]
<1>1. ASSUME NEW p \in Publishers, CommitVersion(p) PROVE Log!Append
  <2>1. FeedTypeOK' BY FeedTypes DEF FeedInv
  <2>2. \A d : FeedOf(d)' = IF d = open[p] THEN FeedOf(d) \cup pending[p] ELSE FeedOf(d)
    BY <1>1, <2>1, CommitKeeps
  <2>3. \A i \in pending[p], j \in FeedOf(open[p]) : i > j
    <3>1. open[p] \in 1..MaxDay BY <1>1 DEF FeedInv, FeedTypeOK, CommitVersion
    <3> QED BY <3>1 DEF FeedInv, Ahead
  <2>4. \A d \in 1..MaxDay : shown[d] = FeedOf(d) /\ shown'[d] = FeedOf(d)' OBVIOUS
  <2>5. \A d \in 1..MaxDay :
          /\ shown[d] \subseteq shown'[d]
          /\ \A new \in shown'[d] \ shown[d], old \in shown[d] : new > old
    <3> HIDE DEF shown
    <3> QED BY <2>2, <2>3, <2>4
  <2> QED BY <2>5 DEF Log!Append
<1>2. CASE versions' = versions
  <2>1. \A d \in 1..MaxDay : FeedOf(d)' = FeedOf(d) BY <1>2, SameFeed
  <2> QED BY <2>1
<1> QED BY <1>1, <1>2 DEF FeedNext, Publish, OpenVersion, InsertEvent, RollBack, Midnight,
                          Poll, feedVars

\* The events of a day are an append-only log, however many publishers race for the day,
\* fail, and write its versions until after midnight.
THEOREM DaysAreLogs == FeedSpec => DayLogs
<1>1. FeedInit => Log!Init BY DEF FeedInit, FeedOf, VersionsOf, Log!Init
<1>2. FeedInv /\ [FeedNext]_feedVars => [Log!Append]_([d \in 1..MaxDay |-> FeedOf(d)])
  BY LogStep
<1> QED BY <1>1, <1>2, FeedAlways, PTL DEF FeedSpec, DayLogs, Log!Spec

-----------------------------------------------------------------------------
(* Without publishes over midnight. *)

\* The open publish is of today, the only one, and above all that readers can see; so
\* versions of different days are in order too.
InTurn ==
  /\ \A p \in Publishers : open[p] # 0 => open[p] = day
  /\ \A p \in Publishers : \A i \in pending[p], j \in Feed : i > j
  /\ \A v, w \in DOMAIN versions : v < w =>
       \A i \in versions[v].ids, j \in versions[w].ids : i < j

LEMMA InTurnStep ==
  ASSUME FeedInv, InTurn, ~AcrossMidnight, [FeedNext]_feedVars
  PROVE  InTurn'
<1>a. FeedTypeOK BY DEF FeedInv
<1>1. ASSUME NEW p \in Publishers, OpenVersion(p) PROVE InTurn'
  <2>1. open' = [open EXCEPT ![p] = day] BY <1>1 DEF OpenVersion
  <2>2. UNCHANGED <<day, pending, versions>> BY <1>1 DEF OpenVersion
  <2> QED BY <1>a, <2>1, <2>2, SameFeed DEF InTurn, FeedTypeOK
<1>2. ASSUME NEW p \in Publishers, InsertEvent(p) PROVE InTurn'
  <2>1. Feed' = Feed BY <1>2, SameFeed DEF InsertEvent
  <2>2. \A i \in Feed : nextId > i BY <1>a, FeedBounded DEF FeedTypeOK, GivenIds
  <2>3. \A q \in Publishers : pending'[q] \subseteq pending[q] \cup {nextId}
    BY <1>a, <1>2 DEF InsertEvent, FeedTypeOK
  <2>4. UNCHANGED <<day, open, versions>> BY <1>2 DEF InsertEvent
  <2> QED BY <2>1, <2>2, <2>3, <2>4 DEF InTurn
<1>3. ASSUME NEW p \in Publishers, RollBack(p) PROVE InTurn'
  <2>1. Feed' = Feed BY <1>3, SameFeed DEF RollBack
  <2>2. \A q \in Publishers : /\ open'[q] = IF q = p THEN 0 ELSE open[q]
                              /\ pending'[q] \subseteq pending[q]
    BY <1>a, <1>3, CloseTypes DEF RollBack
  <2>3. UNCHANGED <<day, versions>> BY <1>3 DEF RollBack
  <2> QED BY <2>1, <2>2, <2>3 DEF InTurn
<1>4. ASSUME NEW p \in Publishers, CommitVersion(p) PROVE InTurn'
  <2>1. PICK late \in BOOLEAN :
          versions' = Append(versions, [day |-> open[p], ids |-> pending[p], late |-> late])
    BY <1>4 DEF CommitVersion
  <2> DEFINE new == [day |-> open[p], ids |-> pending[p], late |-> late]
             n == Len(versions) + 1
  <2>2. new.ids = pending[p] /\ versions' = Append(versions, new) BY <2>1
  <2> HIDE DEF new, n
  <2>3. /\ n \in Nat /\ \A v \in DOMAIN versions : v < n
        /\ DOMAIN versions' = DOMAIN versions \cup {n}
        /\ \A v \in DOMAIN versions : versions'[v] = versions[v]
        /\ versions'[n] = new /\ Feed' = Feed \cup new.ids
    BY <1>a, <2>2, FeedGrows DEF n
  <2>4. \A q \in Publishers : /\ open'[q] = IF q = p THEN 0 ELSE open[q]
                              /\ pending'[q] = IF q = p THEN {} ELSE pending[q]
    BY <1>a, <1>4, CloseTypes DEF CommitVersion
  <2>5. \A q \in Publishers \ {p} : pending[q] = {}
    <3>1. open[p] # 0 BY <1>4 DEF CommitVersion
    <3>2. \A q \in Publishers \ {p} : open[q] = 0 BY <3>1 DEF InTurn, FeedInv, Ahead
    <3> QED BY <3>2 DEF FeedInv, Ahead
  <2>6. \A q \in Publishers : pending'[q] = {} BY <2>4, <2>5
  <2>7. \A v \in DOMAIN versions : v \in Nat /\ versions[v].ids \subseteq Feed
    BY <1>a, VersionFacts DEF Feed
  <2>8. \A i \in pending[p], j \in Feed : j < i
    <3>1. pending[p] \subseteq Nat /\ Feed \subseteq Nat BY <1>a, FeedBounded DEF FeedTypeOK
    <3> QED BY <3>1 DEF InTurn
  <2>9. ASSUME NEW v \in DOMAIN versions', NEW w \in DOMAIN versions', v < w
        PROVE  \A i \in versions'[v].ids, j \in versions'[w].ids : i < j
    <3>1. v \in DOMAIN versions BY <2>3, <2>7, <2>9
    <3>2. CASE w \in DOMAIN versions BY <2>3, <2>9, <3>1, <3>2 DEF InTurn
    <3>3. CASE w = n BY <2>2, <2>3, <2>7, <2>8, <3>1, <3>3
    <3> QED BY <2>3, <3>2, <3>3
  <2>10. day' = day BY <1>4 DEF CommitVersion
  <2> QED BY <2>4, <2>6, <2>9, <2>10 DEF InTurn
<1>5. CASE Midnight BY <1>5, SameFeed DEF Midnight, InTurn
<1>6. CASE Poll \/ UNCHANGED feedVars
  BY <1>6, SameFeed DEF Poll, feedVars, InTurn
<1> QED BY <1>1, <1>2, <1>3, <1>4, <1>5, <1>6 DEF FeedNext, Publish

\* In order, nothing can be missed across days.
LEMMA NothingMissed ==
  ASSUME FeedInv, InTurn
  PROVE  SinceIsEnough
<1> SUFFICES ASSUME NEW v \in DOMAIN versions, NEW i \in versions[v].ids,
                    i <= since, i \notin seen
             PROVE  FALSE
  BY DEF SinceIsEnough, Feed
<1>1. PICK w \in DOMAIN versions : w < v /\ \E j \in versions[w].ids : i < j
  BY DEF FeedInv, MissedOnlyAcrossDays
<1>2. PICK j \in versions[w].ids : i < j BY <1>1
<1>3. j < i BY <1>1 DEF InTurn
<1>4. i \in Nat /\ j \in Nat BY VersionFacts DEF FeedInv, FeedTypeOK, GivenIds
<1> QED BY <1>2, <1>3, <1>4

LEMMA InTurnInitially == FeedInit => InTurn
BY DEF FeedInit, InTurn

\* Without publishes over midnight a consumer that goes on from the last id it has
\* read misses nothing, however many publishers there are and wherever they fail.
THEOREM IncrementalSync ==
  ASSUME ~AcrossMidnight
  PROVE  FeedSpec => []SinceIsEnough
<1>1. FeedInv /\ InTurn /\ [FeedNext]_feedVars => InTurn' BY InTurnStep
<1>2. FeedInv /\ InTurn => SinceIsEnough BY NothingMissed
<1> QED BY <1>1, <1>2, InTurnInitially, FeedAlways, PTL DEF FeedSpec

-----------------------------------------------------------------------------
(* Turns. *)

LEMMA TurnStep ==
  ASSUME [FeedNext]_feedVars
  PROVE  [Turns!Next]_<<day, open>>
<1>1. ASSUME NEW p \in Publishers, OpenVersion(p) PROVE Turns!Begin(p)
  BY <1>1 DEF OpenVersion, Turns!Begin
<1>2. ASSUME NEW p \in Publishers, CommitVersion(p) \/ RollBack(p) PROVE Turns!End(p)
  BY <1>2 DEF CommitVersion, RollBack, Close, Turns!End
<1>3. CASE Midnight BY <1>3 DEF Midnight, Turns!Next, Turns!NextDay
<1>4. CASE Poll \/ UNCHANGED feedVars BY <1>4 DEF Poll, feedVars
<1>5. ASSUME NEW p \in Publishers, InsertEvent(p) PROVE UNCHANGED <<day, open>>
  BY <1>5 DEF InsertEvent
<1> QED BY <1>1, <1>2, <1>3, <1>4, <1>5 DEF FeedNext, Publish, Turns!Next

\* The publishes of the feed's model take turns by the day, over midnight too: it
\* assumes no more of publishing than Publication is proved to keep (TakeTurns).
THEOREM FeedTakesTurns == FeedSpec => RefinesTurns
<1>1. FeedInit => Turns!Init BY DEF FeedInit, Turns!Init
<1>2. [FeedNext]_feedVars => [Turns!Next]_<<day, open>> BY TurnStep
<1> QED BY <1>1, <1>2, PTL DEF FeedSpec, RefinesTurns, Turns!Spec

=============================================================================
