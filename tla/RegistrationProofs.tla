-------------------------- MODULE RegistrationProofs --------------------------
(***************************************************************************)
(* Theorems about Registration, for any number of mosques, shells,         *)
(* administrators and failures: when the name of a source that is to be    *)
(* registered is taken, and when a website of OpenStreetMap stays.         *)
(***************************************************************************)
EXTENDS Registration, TLAPS

\* The actors of a step are actors.
LEMMA Everybody ==
  /\ Curators \subseteq Actors
  /\ Registrars \subseteq Actors
  /\ Admins \subseteq Actors
BY DEF Actors

-----------------------------------------------------------------------------
(* Type correctness. *)

LEMMA InitType == ASSUME Init PROVE TypeOK
BY RegistrationAssumption DEF Init, TypeOK, Txns, RegistrationAssumption

\* A transaction that begins or ends leaves transactions.
LEMMA BeginType ==
  ASSUME TypeOK, NEW a \in Actors, NEW t \in Txns, Begin(a, t)
  PROVE  txn' \in [Actors -> Txns]
BY DEF Begin, TypeOK

LEMMA EndType ==
  ASSUME TypeOK, NEW a \in Actors, End(a)
  PROVE  txn' \in [Actors -> Txns]
BY DEF End, TypeOK, Txns

\* What an open transaction holds.
LEMMA Holds ==
  ASSUME TypeOK, NEW a \in Actors
  PROVE  /\ txn[a].at = "import" =>
              /\ txn[a].from \in Registries
              /\ txn[a].mosque \in Mosques
              /\ txn[a].empty \in BOOLEAN
         /\ txn[a].at \in {"backfill", "discover", "register"} => txn[a].mosques \subseteq Mosques
         /\ txn[a].at = "activate" => txn[a].mosque \in Mosques
         /\ txn[a].at = "merge" =>
              /\ txn[a].canonical \in Mosques
              /\ txn[a].duplicate \in Mosques
              /\ txn[a].sources \subseteq Mosques
              /\ txn[a].marked \in BOOLEAN
BY DEF TypeOK, Txns, NoTxn

\* Curators keep the types.
LEMMA CurateType ==
  ASSUME TypeOK, NEW a \in Curators, Curate(a)
  PROVE  TypeOK'
<1>a. a \in Actors
  BY Everybody
<1> USE RegistrationAssumption DEF RegistrationAssumption
<1>1. CASE ReadRecord(a)
  <2>1. PICK registry \in Registries : \E m \in Listed[registry] :
          Begin(a, [at |-> "import", from |-> registry, mosque |-> m, empty |-> m \in Missing])
    BY <1>1 DEF ReadRecord
  <2>2. PICK m \in Listed[registry] :
          Begin(a, [at |-> "import", from |-> registry, mosque |-> m, empty |-> m \in Missing])
    BY <2>1
  <2>3. m \in Mosques
    BY <2>2 DEF Registries
  <2>4. [at |-> "import", from |-> registry, mosque |-> m, empty |-> m \in Missing] \in Txns
    BY <2>3 DEF Txns
  <2>5. txn' \in [Actors -> Txns]
    BY <1>a, <2>2, <2>4, BeginType
  <2> QED
    BY <1>1, <2>5 DEF ReadRecord, TypeOK
<1>2. CASE ApplyRecord(a)
  <2>1. txn' \in [Actors -> Txns]
    BY <1>2, <1>a, EndType DEF ApplyRecord
  <2>2. txn[a].mosque \in Mosques /\ txn[a].from \in Origins
    BY <1>2, <1>a, Holds DEF ApplyRecord, Origins
  <2>3. site' \in [Mosques -> Origins \cup {None}]
    BY <1>2, <2>2 DEF ApplyRecord, TypeOK
  <2> QED
    BY <1>2, <2>1, <2>3 DEF ApplyRecord, TypeOK
<1>3. CASE ReadBackfill(a)
  <2>1. [at |-> "backfill", mosques |-> Listed["mib"] \cap Missing] \in Txns
    BY DEF Txns, Missing
  <2>2. txn' \in [Actors -> Txns]
    BY <1>3, <1>a, <2>1, BeginType DEF ReadBackfill
  <2> QED
    BY <1>3, <2>2 DEF ReadBackfill, TypeOK
<1>4. CASE Backfill(a)
  <2>1. txn' \in [Actors -> Txns]
    BY <1>4, <1>a, EndType DEF Backfill
  <2> QED
    BY <1>4, <2>1 DEF Backfill, TypeOK, Origins, Registries
<1>5. CASE StartDiscovery(a)
  <2>1. [at |-> "discover", mosques |-> Missing] \in Txns
    BY DEF Txns, Missing
  <2>2. txn' \in [Actors -> Txns]
    BY <1>5, <1>a, <2>1, BeginType DEF StartDiscovery
  <2> QED
    BY <1>5, <2>2 DEF StartDiscovery, TypeOK
<1>6. CASE Promote(a)
  <2>1. txn' \in [Actors -> Txns]
    BY <1>6, <1>a, EndType DEF Promote
  <2>2. PICK verified \in SUBSET Leads(txn[a].mosques) :
          /\ site' = [m \in Mosques |-> IF <<"osm", m>> \in verified \ promoted THEN "osm"
                                       ELSE IF <<"mib", m>> \in verified \ promoted THEN "mib"
                                       ELSE site[m]]
          /\ promoted' = promoted \cup (verified \ promoted)
    BY <1>6 DEF Promote
  <2>3. txn[a].mosques \subseteq Mosques
    BY <1>6, <1>a, Holds DEF Promote
  <2>4. promoted' \subseteq Registries \X Mosques
    BY <2>2, <2>3 DEF Leads, TypeOK
  <2>5. site' \in [Mosques -> Origins \cup {None}]
    BY <2>2 DEF TypeOK, Origins, Registries
  <2> QED
    BY <1>6, <2>1, <2>4, <2>5 DEF Promote, TypeOK
<1> QED
  BY <1>1, <1>2, <1>3, <1>4, <1>5, <1>6 DEF Curate

\* So do registrations.
LEMMA RegisterType ==
  ASSUME TypeOK, NEW a \in Registrars, RegisterSources(a)
  PROVE  TypeOK'
<1>a. a \in Actors
  BY Everybody
<1>1. CASE ReadActive(a)
  <2>1. PICK batch \in SUBSET {m \in Mosques : Wanting(m)} :
          Begin(a, [at |-> "register", mosques |-> batch])
    BY <1>1 DEF ReadActive
  <2>2. [at |-> "register", mosques |-> batch] \in Txns
    BY <2>1 DEF Txns
  <2>3. txn' \in [Actors -> Txns]
    BY <1>a, <2>1, <2>2, BeginType
  <2> QED
    BY <1>1, <2>3 DEF ReadActive, TypeOK
<1>2. CASE Register(a)
  <2>1. txn' \in [Actors -> Txns]
    BY <1>2, <1>a, EndType DEF Register
  <2>2. web' \in [Mosques -> Mosques \cup {None}]
    BY <1>2 DEF Register, TypeOK
  <2> QED
    BY <1>2, <2>1, <2>2 DEF Register, TypeOK
<1> QED
  BY <1>1, <1>2 DEF RegisterSources

LEMMA SetStatusType ==
  ASSUME TypeOK, NEW m \in Mosques, NEW st \in {"needs_review", "active", "duplicate"},
         SetStatus(m, st)
  PROVE  /\ status' \in [Mosques -> {"needs_review", "active", "duplicate"}]
         /\ revived' \subseteq Mosques
BY DEF SetStatus, TypeOK

\* So do administrators.
LEMMA AdministerType ==
  ASSUME TypeOK, NEW a \in Admins, Administer(a)
  PROVE  TypeOK'
<1>a. a \in Actors
  BY Everybody
<1> USE RegistrationAssumption DEF RegistrationAssumption
<1>1. CASE EditWebsite(a)
  BY <1>1 DEF EditWebsite, Event, TypeOK, Origins
<1>2. CASE EditStatus(a)
  <2>1. PICK m \in Mosques, st \in {"needs_review", "active", "duplicate"} : SetStatus(m, st)
    BY <1>2 DEF EditStatus
  <2> QED
    BY <1>2, <2>1, SetStatusType DEF EditStatus, Event, TypeOK
<1>3. CASE ReadToActivate(a)
  <2>1. PICK m \in Mosques : Begin(a, [at |-> "activate", mosque |-> m])
    BY <1>3 DEF ReadToActivate
  <2>2. [at |-> "activate", mosque |-> m] \in Txns
    BY DEF Txns
  <2>3. txn' \in [Actors -> Txns]
    BY <1>a, <2>1, <2>2, BeginType
  <2> QED
    BY <1>3, <2>3 DEF ReadToActivate, TypeOK
<1>4. CASE Activate(a)
  <2>1. txn' \in [Actors -> Txns]
    BY <1>4, <1>a, EndType DEF Activate
  <2>2. txn[a].mosque \in Mosques
    BY <1>4, <1>a, Holds DEF Activate
  <2> QED
    BY <1>4, <2>1, <2>2, SetStatusType DEF Activate, TypeOK
<1>5. CASE ReadToMerge(a)
  <2>1. PICK canonical \in Mosques, duplicate \in Mosques :
          Begin(a, [at |-> "merge", canonical |-> canonical, duplicate |-> duplicate,
                    sources |-> {m \in Mosques : web[m] = duplicate},
                    marked |-> status[duplicate] = "duplicate"])
    BY <1>5 DEF ReadToMerge
  <2>2. [at |-> "merge", canonical |-> canonical, duplicate |-> duplicate,
         sources |-> {m \in Mosques : web[m] = duplicate},
         marked |-> status[duplicate] = "duplicate"] \in Txns
    BY DEF Txns
  <2>3. txn' \in [Actors -> Txns]
    BY <1>a, <2>1, <2>2, BeginType
  <2> QED
    BY <1>5, <2>3 DEF ReadToMerge, Event, TypeOK
<1>6. CASE Merge(a)
  <2>1. txn' \in [Actors -> Txns]
    BY <1>6, <1>a, EndType DEF Merge
  <2>2. /\ txn[a].canonical \in Mosques /\ txn[a].duplicate \in Mosques
        /\ MoveSources(txn[a])
    BY <1>6, <1>a, Holds DEF Merge
  <2>3. web' \in [Mosques -> Mosques \cup {None}] /\ fed' \subseteq Mosques
    BY <2>2 DEF MoveSources, TypeOK
  <2>4. /\ status' \in [Mosques -> {"needs_review", "active", "duplicate"}]
        /\ revived' \subseteq Mosques
    BY <1>6, <2>2, SetStatusType DEF Merge, TypeOK
  <2> QED
    BY <1>6, <2>1, <2>3, <2>4 DEF Merge, TypeOK
<1> QED
  BY <1>1, <1>2, <1>3, <1>4, <1>5, <1>6 DEF Administer

\* Every step keeps the types.
LEMMA NextType == ASSUME TypeOK, [Next]_vars PROVE TypeOK'
<1> USE RegistrationAssumption DEF RegistrationAssumption
<1>1. ASSUME NEW m \in Mosques, Feed(m)
      PROVE  TypeOK'
  BY <1>1 DEF Feed, Event, TypeOK
<1>2. ASSUME NEW a \in Actors, Fail(a)
      PROVE  TypeOK'
  <2>1. txn' \in [Actors -> Txns]
    BY <1>2, EndType DEF Fail
  <2> QED
    BY <1>2, <2>1 DEF Fail, Event, TypeOK
<1>3. CASE UNCHANGED vars
  BY <1>3 DEF vars, TypeOK
<1> QED
  BY <1>1, <1>2, <1>3, CurateType, RegisterType, AdministerType DEF Next

\* The types of Registration hold in every behaviour.
THEOREM RegistrationTypes == Safety => []TypeOK
BY InitType, NextType, PTL DEF Safety

-----------------------------------------------------------------------------
(* Names of sources. *)

\* A mosque that has been merged away: it is marked, or somebody has changed that.
Gone(m) == status[m] = "duplicate" \/ m \in revived

\* The mosques a merge has found gone: those that had lost a source to its duplicate,
\* and the duplicate if it need not be marked.
FoundGone(t) ==
  {m \in Mosques : \/ m \in t.sources /\ m # t.duplicate
                   \/ m = t.duplicate /\ t.marked}

\* A source belongs to the mosque it is named for, unless that was merged away.
NamesInv ==
  /\ \A m \in Mosques : web[m] \notin {m, None} => Gone(m)
  /\ \A a \in Admins : txn[a].at = "merge" => \A m \in FoundGone(txn[a]) : Gone(m)

\* Who is gone stays so: this is what revived records.
LEMMA SetStatusGone ==
  ASSUME TypeOK, NEW m \in Mosques, NEW st, SetStatus(m, st)
  PROVE  /\ \A x \in Mosques : Gone(x) => Gone(x)'
         /\ st = "duplicate" => Gone(m)'
BY DEF SetStatus, TypeOK, Gone

\* A step that moves no source and begins no merge.
LEMMA NamesKept ==
  ASSUME NamesInv, UNCHANGED web, \A m \in Mosques : Gone(m) => Gone(m)',
         \A a \in Admins : txn'[a].at = "merge" => txn'[a] = txn[a]
  PROVE  NamesInv'
<1>1. \A m \in Mosques : web'[m] \notin {m, None} => Gone(m)'
  BY DEF NamesInv
<1>2. ASSUME NEW a \in Admins, txn'[a].at = "merge", NEW m \in FoundGone(txn[a])
      PROVE  Gone(m)'
  <2>1. txn[a].at = "merge"
    BY <1>2
  <2> QED
    BY <1>2, <2>1 DEF NamesInv, FoundGone
<1>3. \A a \in Admins : txn'[a].at = "merge" => FoundGone(txn[a])' = FoundGone(txn[a])
  BY DEF FoundGone
<1> QED
  BY <1>1, <1>2, <1>3 DEF NamesInv

\* What beginning and ending other transactions does to merges: nothing.
LEMMA MergesKept ==
  ASSUME TypeOK, NEW a \in Actors, NEW t, t.at # "merge" \/ t = NoTxn,
         txn' = [txn EXCEPT ![a] = t]
  PROVE  \A b \in Admins : txn'[b].at = "merge" => txn'[b] = txn[b]
<1>1. NoTxn.at = "idle"
  BY DEF NoTxn
<1>2. t.at # "merge"
  BY <1>1
<1> QED
  BY <1>2, Everybody DEF TypeOK

\* A registration names a source for the mosque that gets it.
LEMMA RegisterNames ==
  ASSUME TypeOK, NamesInv, NEW a \in Registrars, Register(a)
  PROVE  NamesInv'
<1>1. UNCHANGED <<status, revived>> /\ txn' = [txn EXCEPT ![a] = NoTxn]
  BY DEF Register, End
<1>2. \A m \in Mosques : web'[m] = web[m] \/ web'[m] = m
  BY DEF Register, TypeOK
<1>3. \A m \in Mosques : web'[m] \notin {m, None} => Gone(m)'
  BY <1>1, <1>2 DEF NamesInv, Gone
<1>4. \A b \in Admins : txn'[b].at = "merge" => txn'[b] = txn[b]
  BY <1>1, Everybody, MergesKept
<1>5. \A b \in Admins : txn'[b].at = "merge" => \A m \in FoundGone(txn'[b]) : Gone(m)
  BY <1>4 DEF NamesInv
<1> QED
  BY <1>1, <1>3, <1>5 DEF NamesInv, Gone, FoundGone

\* A source with its duplicate that a merge finds is named for one that is gone.
LEMMA ReadToMergeNames ==
  ASSUME TypeOK, NamesInv, NEW a \in Admins, ReadToMerge(a)
  PROVE  NamesInv'
<1>1. PICK canonical \in Mosques, duplicate \in Mosques :
        Begin(a, [at |-> "merge", canonical |-> canonical, duplicate |-> duplicate,
                  sources |-> {m \in Mosques : web[m] = duplicate},
                  marked |-> status[duplicate] = "duplicate"])
  BY DEF ReadToMerge
<1> DEFINE t == [at |-> "merge", canonical |-> canonical, duplicate |-> duplicate,
                 sources |-> {m \in Mosques : web[m] = duplicate},
                 marked |-> status[duplicate] = "duplicate"]
<1>2. txn' = [txn EXCEPT ![a] = t] /\ UNCHANGED <<status, web, revived>>
  BY <1>1 DEF ReadToMerge, Begin
<1>3. \A m \in FoundGone(t) : Gone(m)
  <2>1. duplicate # None
    BY RegistrationAssumption DEF RegistrationAssumption
  <2> QED
    BY <2>1 DEF FoundGone, NamesInv, Gone
<1> HIDE DEF t
<1>4. \A b \in Admins : b # a => txn'[b] = txn[b]
  BY <1>2 DEF TypeOK
<1>5. txn'[a] = t
  BY <1>2, Everybody DEF TypeOK
<1>6. \A b \in Admins : txn'[b].at = "merge" => \A m \in FoundGone(txn'[b]) : Gone(m)
  BY <1>3, <1>4, <1>5 DEF NamesInv
<1> QED
  BY <1>2, <1>6 DEF NamesInv, Gone, FoundGone

\* A merge moves sources of mosques that are gone, and of one that it marks.
LEMMA MergeNames ==
  ASSUME TypeOK, NamesInv, NEW a \in Admins, Merge(a)
  PROVE  NamesInv'
<1>a. a \in Actors
  BY Everybody
<1> DEFINE duplicate == txn[a].duplicate
<1>1. /\ web' = [m \in Mosques |-> IF m \in txn[a].sources THEN txn[a].canonical ELSE web[m]]
      /\ txn' = [txn EXCEPT ![a] = NoTxn]
      /\ txn[a].at = "merge" /\ duplicate \in Mosques
  BY <1>a, Holds DEF Merge, MoveSources, End
<1>2. /\ \A m \in Mosques : Gone(m) => Gone(m)'
      /\ \A m \in Mosques : m = duplicate => Gone(m)'
  <2>1. CASE txn[a].marked
    <3>1. UNCHANGED <<status, revived>>
      BY <2>1 DEF Merge
    <3>2. \A m \in Mosques : m = duplicate => Gone(m)
      BY <1>1, <2>1 DEF NamesInv, FoundGone
    <3> QED
      BY <3>1, <3>2 DEF Gone
  <2>2. CASE ~txn[a].marked
    <3>1. SetStatus(duplicate, "duplicate")
      BY <2>2 DEF Merge
    <3> HIDE DEF duplicate
    <3>2. \A x \in Mosques : Gone(x) => Gone(x)'
      BY <1>1, <3>1, SetStatusGone
    <3>3. ASSUME NEW m \in Mosques, m = duplicate PROVE Gone(m)'
      <4>1. SetStatus(m, "duplicate")
        BY <3>1, <3>3
      <4> QED
        BY <4>1, SetStatusGone
    <3> QED
      BY <3>2, <3>3
  <2> QED
    BY <2>1, <2>2
<1>3. ASSUME NEW m \in Mosques, web'[m] \notin {m, None}
      PROVE  Gone(m)'
  <2>1. CASE m \in txn[a].sources /\ m # duplicate
    BY <1>1, <1>2, <2>1 DEF NamesInv, FoundGone
  <2>2. CASE m = duplicate
    BY <1>2, <2>2
  <2>3. CASE m \notin txn[a].sources
    BY <1>1, <1>2, <1>3, <2>3 DEF NamesInv
  <2> QED
    BY <2>1, <2>2, <2>3
<1>4. \A b \in Admins : txn'[b].at = "merge" => txn'[b] = txn[b]
  BY <1>1, <1>a, MergesKept
<1>5. ASSUME NEW b \in Admins, txn'[b].at = "merge", NEW m \in FoundGone(txn'[b])
      PROVE  Gone(m)'
  <2>1. m \in Mosques /\ Gone(m)
    BY <1>4, <1>5 DEF NamesInv, FoundGone
  <2> QED
    BY <1>2, <2>1
<1> QED
  BY <1>3, <1>5 DEF NamesInv, FoundGone

LEMMA NextNames == ASSUME TypeOK, NamesInv, [Next]_vars PROVE NamesInv'
<1>0. ASSUME UNCHANGED <<status, web, revived>>,
             \A a \in Admins : txn'[a].at = "merge" => txn'[a] = txn[a]
      PROVE  NamesInv'
  BY <1>0, NamesKept DEF Gone
<1>1. ASSUME UNCHANGED <<status, web, revived, txn>>
      PROVE  NamesInv'
  BY <1>0, <1>1
<1>2. ASSUME NEW a \in Actors, UNCHANGED <<status, web, revived>>, End(a)
      PROVE  NamesInv'
  BY <1>0, <1>2, MergesKept DEF End
<1>3. ASSUME NEW a \in Curators, Curate(a)
      PROVE  NamesInv'
  <2>1. UNCHANGED <<status, web, revived>>
    BY <1>3 DEF Curate, ReadRecord, ApplyRecord, ReadBackfill, Backfill, StartDiscovery, Promote
  <2>2. ASSUME NEW b \in Admins PROVE txn'[b] = txn[b]
    <3>1. b # a
      BY RegistrationAssumption DEF RegistrationAssumption
    <3>2. \E t : txn' = [txn EXCEPT ![a] = t]
      BY <1>3 DEF Curate, ReadRecord, ApplyRecord, ReadBackfill, Backfill,
                  StartDiscovery, Promote, Begin, End
    <3> QED
      BY <3>1, <3>2, Everybody DEF TypeOK
  <2> QED
    BY <1>0, <2>1, <2>2
<1>4. ASSUME NEW a \in Registrars, RegisterSources(a)
      PROVE  NamesInv'
  <2>1. CASE Register(a)
    BY <2>1, RegisterNames
  <2>2. CASE ReadActive(a)
    <3>1. PICK batch : Begin(a, [at |-> "register", mosques |-> batch])
      BY <2>2 DEF ReadActive
    <3>2. \A b \in Admins : txn'[b].at = "merge" => txn'[b] = txn[b]
      BY <3>1, Everybody, MergesKept DEF Begin
    <3> QED
      BY <1>0, <2>2, <3>2 DEF ReadActive
  <2> QED
    BY <1>4, <2>1, <2>2 DEF RegisterSources
<1>5. ASSUME NEW a \in Admins, Administer(a)
      PROVE  NamesInv'
  <2>1. CASE EditWebsite(a)
    BY <1>1, <2>1 DEF EditWebsite
  <2>2. CASE EditStatus(a)
    <3>1. UNCHANGED <<web, txn>> /\ \A x \in Mosques : Gone(x) => Gone(x)'
      BY <2>2, SetStatusGone DEF EditStatus
    <3> QED
      BY <3>1, NamesKept
  <2>3. CASE ReadToActivate(a)
    <3>1. PICK m : Begin(a, [at |-> "activate", mosque |-> m])
      BY <2>3 DEF ReadToActivate
    <3>2. \A b \in Admins : txn'[b].at = "merge" => txn'[b] = txn[b]
      BY <3>1, Everybody, MergesKept DEF Begin
    <3> QED
      BY <1>0, <2>3, <3>2 DEF ReadToActivate
  <2>4. CASE Activate(a)
    <3>1. txn[a].mosque \in Mosques
      BY <2>4, Everybody, Holds DEF Activate
    <3>2. UNCHANGED web /\ \A x \in Mosques : Gone(x) => Gone(x)'
      BY <2>4, <3>1, SetStatusGone DEF Activate
    <3>3. \A b \in Admins : txn'[b].at = "merge" => txn'[b] = txn[b]
      BY <2>4, Everybody, MergesKept DEF Activate, End
    <3> QED
      BY <3>2, <3>3, NamesKept
  <2>5. CASE ReadToMerge(a)
    BY <2>5, ReadToMergeNames
  <2>6. CASE Merge(a)
    BY <2>6, MergeNames
  <2> QED
    BY <1>5, <2>1, <2>2, <2>3, <2>4, <2>5, <2>6 DEF Administer
<1>6. ASSUME NEW m \in Mosques, Feed(m)
      PROVE  NamesInv'
  BY <1>1, <1>6 DEF Feed
<1>7. ASSUME NEW a \in Actors, Fail(a)
      PROVE  NamesInv'
  BY <1>2, <1>7 DEF Fail
<1>8. CASE UNCHANGED vars
  BY <1>1, <1>8 DEF vars
<1> QED
  BY <1>3, <1>4, <1>5, <1>6, <1>7, <1>8 DEF Next

\* Whatever registrations overlap with whatever merges, a name that a registration
\* wants is taken only after somebody has revived a mosque that was merged away.
THEOREM OnlyRevivedBlock == Safety => []BlockedByRevived
<1>1. Init => NamesInv
  <2> SUFFICES ASSUME Init PROVE NamesInv
    OBVIOUS
  <2>1. \A a \in Admins : txn[a].at = "idle"
    BY Everybody DEF Init, NoTxn
  <2> QED
    BY <2>1 DEF Init, NamesInv
<1>2. TypeOK /\ NamesInv /\ [Next]_vars => NamesInv'
  BY NextNames
<1>3. NamesInv => BlockedByRevived
  <2> SUFFICES ASSUME NamesInv, NEW m \in Mosques, Wanting(m), web[m] # None
               PROVE  m \in revived
    BY DEF BlockedByRevived
  <2>1. web[m] # m /\ status[m] # "duplicate"
    BY DEF Wanting, Crawlable, Owns
  <2> QED
    BY <2>1 DEF NamesInv, Gone
<1> QED
  BY RegistrationTypes, <1>1, <1>2, <1>3, PTL DEF Safety

-----------------------------------------------------------------------------
(* Websites. *)

\* One curator who has read a mosque without a website finds it without one of OSM: an
\* administrator at most has given it another.
StillNotOsm ==
  \A a \in Curators :
    /\ txn[a].at = "import" /\ txn[a].empty => site[txn[a].mosque] # "osm"
    /\ txn[a].at = "discover" => \A m \in txn[a].mosques : site[m] # "osm"

KeepsOsm == \A m \in Mosques : site[m] = "osm" => site'[m] # "mib"

LEMMA NotOsmStep ==
  ASSUME TypeOK, StillNotOsm, \A a, b \in Curators : a = b, [Next]_vars
  PROVE  StillNotOsm' /\ KeepsOsm
<1>1. ASSUME UNCHANGED site, \A a \in Curators : txn'[a] \in {txn[a], NoTxn}
      PROVE  StillNotOsm' /\ KeepsOsm
  <2>1. NoTxn.at = "idle"
    BY DEF NoTxn
  <2> QED
    BY <1>1, <2>1 DEF StillNotOsm, KeepsOsm
<1>2. ASSUME NEW a \in Curators, Curate(a)
      PROVE  StillNotOsm' /\ KeepsOsm
  <2>a. a \in Actors /\ \A b \in Curators : b = a
    BY Everybody
  <2>1. ASSUME End(a)
        PROVE  StillNotOsm'
    <3>1. txn'[a] = NoTxn /\ NoTxn.at = "idle"
      BY <2>1, <2>a DEF End, TypeOK, NoTxn
    <3> QED
      BY <2>a, <3>1 DEF StillNotOsm
  <2>2. CASE ReadRecord(a)
    <3>1. PICK registry \in Registries : \E m \in Listed[registry] :
            Begin(a, [at |-> "import", from |-> registry, mosque |-> m, empty |-> m \in Missing])
      BY <2>2 DEF ReadRecord
    <3>2. PICK m \in Listed[registry] :
            Begin(a, [at |-> "import", from |-> registry, mosque |-> m, empty |-> m \in Missing])
      BY <3>1
    <3>3. txn'[a] = [at |-> "import", from |-> registry, mosque |-> m, empty |-> m \in Missing]
      BY <2>a, <3>2 DEF Begin, TypeOK
    <3>4. site' = site
      BY <2>2 DEF ReadRecord
    <3>5. m \in Missing => site[m] # "osm"
      BY RegistrationAssumption DEF Missing, RegistrationAssumption
    <3>6. txn'[a].at = "import" /\ txn'[a].mosque = m /\ txn'[a].empty = (m \in Missing)
      BY <3>3
    <3>7. StillNotOsm'
      BY <2>a, <3>4, <3>5, <3>6 DEF StillNotOsm
    <3> QED
      BY <3>4, <3>7 DEF KeepsOsm
  <2>3. CASE ApplyRecord(a)
    <3>1. txn[a].empty => site[txn[a].mosque] # "osm"
      BY <2>3 DEF ApplyRecord, StillNotOsm
    <3>2. KeepsOsm
      BY <2>3, <3>1 DEF ApplyRecord, KeepsOsm, TypeOK
    <3> QED
      BY <2>1, <2>3, <3>2 DEF ApplyRecord
  <2>4. CASE ReadBackfill(a)
    <3>1. txn'[a].at = "backfill" /\ site' = site
      BY <2>4, <2>a DEF ReadBackfill, Begin, TypeOK
    <3> QED
      BY <2>a, <3>1 DEF StillNotOsm, KeepsOsm
  <2>5. CASE Backfill(a)
    <3>1. KeepsOsm
      BY <2>5, RegistrationAssumption DEF RegistrationAssumption, Backfill, KeepsOsm, TypeOK
    <3> QED
      BY <2>1, <2>5, <3>1 DEF Backfill
  <2>6. CASE StartDiscovery(a)
    <3>1. txn'[a] = [at |-> "discover", mosques |-> Missing] /\ site' = site
      BY <2>6, <2>a DEF StartDiscovery, Begin, TypeOK
    <3>2. \A m \in Missing : site[m] # "osm"
      BY RegistrationAssumption DEF Missing, RegistrationAssumption
    <3> QED
      BY <2>a, <3>1, <3>2 DEF StillNotOsm, KeepsOsm
  <2>7. CASE Promote(a)
    <3>1. PICK verified \in SUBSET Leads(txn[a].mosques) :
            site' = [m \in Mosques |-> IF <<"osm", m>> \in verified \ promoted THEN "osm"
                                       ELSE IF <<"mib", m>> \in verified \ promoted THEN "mib"
                                       ELSE site[m]]
      BY <2>7 DEF Promote
    <3>2. \A m \in Mosques : <<"mib", m>> \in verified => site[m] # "osm"
      BY <2>7 DEF Promote, Leads, StillNotOsm
    <3>3. KeepsOsm
      BY <3>1, <3>2 DEF KeepsOsm
    <3> QED
      BY <2>1, <2>7, <3>3 DEF Promote
  <2> QED
    BY <1>2, <2>2, <2>3, <2>4, <2>5, <2>6, <2>7 DEF Curate
<1>3. ASSUME NEW a \in Registrars \cup Admins, NEW t,
             UNCHANGED site, txn' = [txn EXCEPT ![a] = t]
      PROVE  StillNotOsm' /\ KeepsOsm
  <2>1. \A b \in Curators : b # a /\ b \in Actors
    BY Everybody, RegistrationAssumption DEF RegistrationAssumption, Registrars
  <2> QED
    BY <1>1, <1>3, <2>1 DEF TypeOK
<1>4. ASSUME NEW a \in Registrars, RegisterSources(a)
      PROVE  StillNotOsm' /\ KeepsOsm
  <2>1. UNCHANGED site /\ \E t : txn' = [txn EXCEPT ![a] = t]
    BY <1>4 DEF RegisterSources, ReadActive, Register, Begin, End
  <2> QED
    BY <1>3, <2>1
<1>5. ASSUME NEW a \in Admins, Administer(a)
      PROVE  StillNotOsm' /\ KeepsOsm
  <2>1. CASE EditWebsite(a)
    <3>1. PICK m \in Mosques, to \in {"admin", "blank"} : site' = [site EXCEPT ![m] = to]
      BY <2>1 DEF EditWebsite
    <3>2. \A x \in Mosques : site'[x] = site[x] \/ site'[x] \in {"admin", "blank"}
      BY <3>1 DEF TypeOK
    <3>3. txn' = txn
      BY <2>1 DEF EditWebsite
    <3>4. KeepsOsm
      BY <3>2 DEF KeepsOsm
    <3>5. StillNotOsm'
      BY <3>2, <3>3, Everybody, Holds DEF StillNotOsm
    <3> QED
      BY <3>4, <3>5
  <2>2. CASE EditStatus(a)
    BY <1>1, <2>2 DEF EditStatus
  <2>3. CASE ReadToActivate(a) \/ Activate(a) \/ ReadToMerge(a) \/ Merge(a)
    <3>1. UNCHANGED site /\ \E t : txn' = [txn EXCEPT ![a] = t]
      BY <2>3 DEF ReadToActivate, Activate, ReadToMerge, Merge, Begin, End
    <3> QED
      BY <1>3, <3>1
  <2> QED
    BY <1>5, <2>1, <2>2, <2>3 DEF Administer
<1>6. ASSUME NEW m \in Mosques, Feed(m)
      PROVE  StillNotOsm' /\ KeepsOsm
  BY <1>1, <1>6 DEF Feed
<1>7. ASSUME NEW a \in Actors, Fail(a)
      PROVE  StillNotOsm' /\ KeepsOsm
  <2>1. \A b \in Curators : txn'[b] \in {txn[b], NoTxn}
    BY <1>7, Everybody DEF Fail, End, TypeOK
  <2> QED
    BY <1>1, <1>7, <2>1 DEF Fail
<1>8. CASE UNCHANGED vars
  BY <1>1, <1>8 DEF vars
<1> QED
  BY <1>2, <1>4, <1>5, <1>6, <1>7, <1>8 DEF Next

\* With one shell at a time that imports, backfills and discovers, a website of
\* OpenStreetMap is never overwritten by one of MuslimsInBritain, whatever administrators
\* edit and merge meanwhile: what ADR 0011 says holds of transactions that do not overlap.
THEOREM OsmWebsitesStay ==
  ASSUME \A a, b \in Curators : a = b
  PROVE  Safety => OsmWebsiteKept
<1>1. Init => StillNotOsm
  <2> SUFFICES ASSUME Init PROVE StillNotOsm
    OBVIOUS
  <2>1. \A a \in Curators : txn[a].at = "idle"
    BY Everybody DEF Init, NoTxn
  <2> QED
    BY <2>1 DEF StillNotOsm
<1>2. TypeOK /\ StillNotOsm /\ [Next]_vars => StillNotOsm' /\ [KeepsOsm]_vars
  BY NotOsmStep
<1> QED
  BY RegistrationTypes, <1>1, <1>2, PTL DEF Safety, OsmWebsiteKept, KeepsOsm
=============================================================================
