---------------------------- MODULE Registration ----------------------------
(***************************************************************************)
(* Websites: how a mosque gets its website_url, and how that becomes the   *)
(* source that is crawled.  Imports of registries fill an empty one        *)
(* (ingest/discovery/resolve.py), so do a backfill (services/              *)
(* mib_backfill.py) and website discovery (services/website_discovery.py); *)
(* every night the beat registers a source web-<mosque> for each active    *)
(* mosque that has a website and no such source (ingest/crawl/register.py).*)
(*                                                                         *)
(* Each of them is one transaction that reads at its beginning and writes  *)
(* at its end: discovery visits websites in between.  A merge moves the    *)
(* sources of a mosque, but a source keeps the name it was registered by.  *)
(***************************************************************************)
EXTENDS Naturals

CONSTANTS
  Mosques,
  Banned,       \* mosques whose website is on a directory or shared domain
  Listed,       \* registry ("osm", "mib") -> mosques whose record has a website
  Curators,     \* shells that import, backfill and discover
  Beat, Shell,  \* who registers: the nightly task, an operator
  Admins,       \* administrators
  None,         \* no website; no source
  MaxEvents     \* bound: administrators' edits and merges, feeds, failures

ASSUME RegistrationAssumption ==
  /\ Banned \subseteq Mosques
  /\ Listed \in [{"osm", "mib"} -> SUBSET Mosques]
  /\ None \notin Mosques \cup {"osm", "mib", "admin", "blank"}
  /\ Beat # Shell
  /\ Curators \cap {Beat, Shell} = {}
  /\ Admins \cap (Curators \cup {Beat, Shell}) = {}
  /\ MaxEvents \in Nat

VARIABLES
  status,     \* mosque -> "needs_review", "active" or "duplicate"
  site,       \* mosque -> where its website_url comes from, or None
  promoted,   \* <<registry, mosque>> of the sources website-<provider>-<mosque>
  web,        \* mosque -> the mosque that web-<mosque> belongs to, or None
  fed,        \* mosques with recent MyLocalMasjid data
  txn,        \* actor -> the transaction it is in
  revived,    \* history: mosques that were duplicates and are not left so
  events      \* counter for the bound

vars == <<status, site, promoted, web, fed, txn, revived, events>>

Registrars == {Beat, Shell}
Actors == Curators \cup Registrars \cup Admins
Registries == {"osm", "mib"}
Origins == Registries \cup {"admin", "blank"}
NoTxn == [at |-> "idle"]

Event == events < MaxEvents /\ events' = events + 1
Begin(a, t) == txn[a] = NoTxn /\ txn' = [txn EXCEPT ![a] = t]
End(a) == txn' = [txn EXCEPT ![a] = NoTxn]

Missing == {m \in Mosques : site[m] \in {None, "blank"}}

-----------------------------------------------------------------------------
(* Filling in websites. *)

\* A registry's record of a mosque that is linked to it.
ReadRecord(a) ==
  /\ \E registry \in Registries : \E m \in Listed[registry] :
       Begin(a, [at |-> "import", from |-> registry, mosque |-> m, empty |-> m \in Missing])
  /\ UNCHANGED <<status, site, promoted, web, fed, revived, events>>

\* A public record fills what was empty when its mosque was read.
ApplyRecord(a) ==
  /\ txn[a].at = "import"
  /\ site' = IF txn[a].empty THEN [site EXCEPT ![txn[a].mosque] = txn[a].from] ELSE site
  /\ End(a)
  /\ UNCHANGED <<status, promoted, web, fed, revived, events>>

\* Mutant: a record that no mosque is linked to is taken along.
ReadBackfillUnlinked(a) ==
  /\ Begin(a, [at |-> "backfill", mosques |-> {None} \cup (Listed["mib"] \cap Missing)])
  /\ UNCHANGED <<status, site, promoted, web, fed, revived, events>>

\* The records with a website that are linked to a mosque without one.
ReadBackfill(a) ==
  /\ Begin(a, [at |-> "backfill", mosques |-> Listed["mib"] \cap Missing])
  /\ UNCHANGED <<status, site, promoted, web, fed, revived, events>>

\* The UPDATE asks again that there be none: a blank one is left.
Backfill(a) ==
  /\ txn[a].at = "backfill"
  /\ site' = [m \in Mosques |-> IF m \in txn[a].mosques /\ site[m] = None THEN "mib" ELSE site[m]]
  /\ End(a)
  /\ UNCHANGED <<status, promoted, web, fed, revived, events>>

StartDiscovery(a) ==
  /\ Begin(a, [at |-> "discover", mosques |-> Missing])
  /\ UNCHANGED <<status, site, promoted, web, fed, revived, events>>

\* run_website_discovery tries its providers in this order: the metadata of the records
\* of MuslimsInBritain, the tags of those of OpenStreetMap.
Leads(mosques) == {lead \in Registries \X mosques : lead[2] \in Listed[lead[1]]}

\* Of the leads any may be promoted, each once.  Whether the mosque still has no website
\* is not asked; what the second provider finds overwrites what the first has found.
Promote(a) ==
  /\ txn[a].at = "discover"
  /\ \E verified \in SUBSET Leads(txn[a].mosques) :
       LET new == verified \ promoted
       IN /\ site' = [m \in Mosques |-> IF <<"osm", m>> \in new THEN "osm"
                                      ELSE IF <<"mib", m>> \in new THEN "mib"
                                      ELSE site[m]]
          /\ promoted' = promoted \cup new
  /\ End(a)
  /\ UNCHANGED <<status, web, fed, revived, events>>

-----------------------------------------------------------------------------
(* Registering crawl sources. *)

Owns(m) == \E x \in Mosques : web[x] = m

Crawlable(m) == status[m] = "active" /\ m \notin Missing \cup Banned

Wanting(m) == Crawlable(m) /\ ~Owns(m) /\ m \notin fed

\* Mutant: mosques that have a source are not skipped.
ReadActiveAll(a) ==
  /\ Begin(a, [at |-> "register", mosques |-> {m \in Mosques : Crawlable(m) /\ m \notin fed}])
  /\ UNCHANGED <<status, site, promoted, web, fed, revived, events>>

\* An operator may name a limit.
ReadActive(a) ==
  /\ \E batch \in SUBSET {m \in Mosques : Wanting(m)} :
       /\ a = Beat => batch = {m \in Mosques : Wanting(m)}
       /\ Begin(a, [at |-> "register", mosques |-> batch])
  /\ UNCHANGED <<status, site, promoted, web, fed, revived, events>>

\* (source_type, external_id) is unique: one source whose name is taken, and
\* none is registered.
Register(a) ==
  /\ txn[a].at = "register"
  /\ web' = IF \A m \in txn[a].mosques : web[m] = None
            THEN [m \in Mosques |-> IF m \in txn[a].mosques THEN m ELSE web[m]]
            ELSE web
  /\ End(a)
  /\ UNCHANGED <<status, site, promoted, fed, revived, events>>

-----------------------------------------------------------------------------
(* Administrators and feeds. *)

SetStatus(m, st) ==
  /\ status' = [status EXCEPT ![m] = st]
  /\ revived' = IF status[m] = "duplicate" /\ st # "duplicate" THEN revived \cup {m} ELSE revived

\* update_mosque: a website may be replaced or blanked.
EditWebsite(a) ==
  /\ Event
  /\ txn[a] = NoTxn
  /\ \E m \in Mosques, to \in {"admin", "blank"} : site' = [site EXCEPT ![m] = to]
  /\ UNCHANGED <<status, promoted, web, fed, txn, revived>>

EditStatus(a) ==
  /\ Event
  /\ txn[a] = NoTxn
  /\ \E m \in Mosques, st \in {"needs_review", "active", "duplicate"} : SetStatus(m, st)
  /\ UNCHANGED <<site, promoted, web, fed, txn>>

\* bulk_activate_reviewed_mosques: with what else makes a mosque eligible left out.
ReadToActivate(a) ==
  /\ \E m \in Mosques :
       status[m] = "needs_review" /\ Begin(a, [at |-> "activate", mosque |-> m])
  /\ UNCHANGED <<status, site, promoted, web, fed, revived, events>>

Activate(a) ==
  /\ txn[a].at = "activate"
  /\ SetStatus(txn[a].mosque, "active")
  /\ End(a)
  /\ UNCHANGED <<site, promoted, web, fed, events>>

\* merge_mosques reads both mosques and the sources of the duplicate.
ReadToMerge(a) ==
  /\ Event
  /\ \E canonical \in Mosques : \E duplicate \in Mosques \ {canonical} :
       Begin(a, [at |-> "merge", canonical |-> canonical, duplicate |-> duplicate,
                 sources |-> {m \in Mosques : web[m] = duplicate},
                 marked |-> status[duplicate] = "duplicate"])
  /\ UNCHANGED <<status, site, promoted, web, fed, revived>>

MoveSources(t) ==
  /\ web' = [m \in Mosques |-> IF m \in t.sources THEN t.canonical ELSE web[m]]
  /\ fed' = IF t.duplicate \in fed THEN (fed \ {t.duplicate}) \cup {t.canonical} ELSE fed

\* Mutant: a merge leaves the duplicate active.
MergeWithoutMark(a) ==
  /\ txn[a].at = "merge"
  /\ MoveSources(txn[a])
  /\ End(a)
  /\ UNCHANGED <<status, site, promoted, revived, events>>

\* The status is written if it is not the one that was read.  The website of the
\* duplicate is not kept.
Merge(a) ==
  /\ txn[a].at = "merge"
  /\ MoveSources(txn[a])
  /\ IF txn[a].marked THEN UNCHANGED <<status, revived>>
     ELSE SetStatus(txn[a].duplicate, "duplicate")
  /\ End(a)
  /\ UNCHANGED <<site, promoted, events>>

\* A feed of the mosque is imported, or has not been for long.
Feed(m) ==
  /\ Event
  /\ fed' = IF m \in fed THEN fed \ {m} ELSE fed \cup {m}
  /\ UNCHANGED <<status, site, promoted, web, txn, revived>>

Fail(a) ==
  /\ Event
  /\ txn[a] # NoTxn
  /\ End(a)
  /\ UNCHANGED <<status, site, promoted, web, fed, revived>>

-----------------------------------------------------------------------------

Init ==
  /\ status = [m \in Mosques |-> "needs_review"]
  /\ site = [m \in Mosques |-> None]
  /\ promoted = {}
  /\ web = [m \in Mosques |-> None]
  /\ fed = {}
  /\ txn = [a \in Actors |-> NoTxn]
  /\ revived = {}
  /\ events = 0

Curate(a) ==
  \/ ReadRecord(a) \/ ApplyRecord(a)
  \/ ReadBackfill(a) \/ Backfill(a)
  \/ StartDiscovery(a) \/ Promote(a)

Administer(a) ==
  \/ EditWebsite(a) \/ EditStatus(a)
  \/ ReadToActivate(a) \/ Activate(a)
  \/ ReadToMerge(a) \/ Merge(a)

RegisterSources(a) == ReadActive(a) \/ Register(a)

Next ==
  \/ \E a \in Curators : Curate(a)
  \/ \E a \in Registrars : RegisterSources(a)
  \/ \E a \in Admins : Administer(a)
  \/ \E m \in Mosques : Feed(m)
  \/ \E a \in Actors : Fail(a)

Safety == Init /\ [][Next]_vars

\* Celery's beat starts the task every night, and it runs to its end.
Spec == Safety /\ WF_vars(RegisterSources(Beat))

Txns ==
  {NoTxn}
    \cup [at : {"import"}, from : Registries, mosque : Mosques, empty : BOOLEAN]
    \cup [at : {"backfill", "discover", "register"}, mosques : SUBSET Mosques]
    \cup [at : {"activate"}, mosque : Mosques]
    \cup [at : {"merge"}, canonical : Mosques, duplicate : Mosques,
          sources : SUBSET Mosques, marked : BOOLEAN]

TypeOK ==
  /\ status \in [Mosques -> {"needs_review", "active", "duplicate"}]
  /\ site \in [Mosques -> Origins \cup {None}]
  /\ promoted \subseteq Registries \X Mosques
  /\ web \in [Mosques -> Mosques \cup {None}]
  /\ fed \subseteq Mosques
  /\ txn \in [Actors -> Txns]
  /\ revived \subseteq Mosques
  /\ events \in 0..MaxEvents

-----------------------------------------------------------------------------
(* Properties. *)

\* ADR 0011: "a website sourced from OSM is never overwritten by an MiB website".  It
\* is, by an import or a discovery that had read the mosque before the website of OSM
\* was committed.
OsmWebsiteKept == [][\A m \in Mosques : site[m] = "osm" => site'[m] # "mib"]_vars

\* The name of the source that a mosque wants is taken only if the mosque had been
\* merged away and its status changed back.  (Then no registration succeeds any more,
\* of any mosque, until that is undone.)
BlockedByRevived == \A m \in Mosques : Wanting(m) /\ web[m] # None => m \in revived

\* README: "The Directory registers crawl sources from active mosque website_url
\* values".  Unless a mosque that was merged away is revived, each gets its source,
\* whatever operators register, merge and fail to do meanwhile.
WebsitesRegistered ==
  [](revived = {}) => \A m \in Mosques : Wanting(m) ~> ~Wanting(m)

=============================================================================
