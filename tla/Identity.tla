------------------------------ MODULE Identity ------------------------------
(***************************************************************************)
(* Identity: which mosque a source belongs to.  Imports of registries and  *)
(* community submissions resolve each record to a mosque or ask for a      *)
(* review (ingest/discovery/resolve.py); administrators decide reviews,    *)
(* merge mosques and activate them (services/admin_identity.py).           *)
(*                                                                         *)
(* Transactions are READ COMMITTED: each statement sees what has committed *)
(* before it, an UPDATE by key waits for the row's writer and overwrites.  *)
(* A record is one transaction of an importer.  Really a file is one, with *)
(* a savepoint per record: what it holds back longer, it does not order.   *)
(* Scoring is abstracted: any match, review or new mosque may result.      *)
(***************************************************************************)
EXTENDS Naturals, Sequences, FiniteSets

CONSTANTS
  Mosques,      \* pool of mosque rows
  Sources,      \* (source_type, external_id) pairs
  Importers,    \* import runs and submissions
  Admins,       \* administrators
  New, None,    \* no source row; a source row without a mosque
  MaxReviews,   \* bound: reviews ever created
  MaxEvents     \* bound: statuses set and sources attached by hand, failures

ASSUME IdentityAssumption ==
  /\ IsFiniteSet(Mosques)
  /\ New \notin Mosques /\ None \notin Mosques /\ New # None
  /\ Importers \cap Admins = {}
  /\ MaxReviews \in Nat /\ MaxEvents \in Nat

VARIABLES
  status,     \* mosque -> its status, "absent" without a row
  link,       \* source -> New, None or its mosque
  reviews,    \* identity_match_reviews in order of creation
  txn,        \* actor -> the transaction it is in
  events      \* counter for the bound

vars == <<status, link, reviews, txn, events>>

Statuses == {"needs_review", "active", "inactive", "duplicate"}
Verdicts == {"pending", "accepted", "rejected"}
\* A review: its alternatives, and the mosque proposed for it when it is accepted.
Reviews == [src : Sources, cands : SUBSET Mosques, proposed : Mosques \cup {None},
            status : Verdicts]
NoTxn == [at |-> "idle"]

Existing == {m \in Mosques : status[m] # "absent"}
Linked(s) == link[s] \in Mosques
Of(m) == {s \in Sources : link[s] = m}
Pending == {i \in DOMAIN reviews : reviews[i].status = "pending"}
PendingOf(s) == {i \in Pending : reviews[i].src = s}

\* The source rows whose UPDATE or INSERT has not committed.
Held(s) == \E a \in Importers : txn[a].at = "written" /\ txn[a].src = s

Event == events < MaxEvents /\ events' = events + 1
Begin(a, t) == txn[a] = NoTxn /\ txn' = [txn EXCEPT ![a] = t]
End(a) == txn' = [txn EXCEPT ![a] = NoTxn]

\* Writes the rows of rewritten, whatever has become of them.
Rewrite(rewritten) ==
  reviews' = [i \in DOMAIN reviews |->
                IF i \in DOMAIN rewritten THEN rewritten[i] ELSE reviews[i]]

Accepted(i, m) == [reviews[i] EXCEPT !.proposed = m, !.status = "accepted"]

\* Accepted by an import that has found a mosque: no alternatives are left.
Resolve(found, m) == Rewrite([i \in found |-> [Accepted(i, m) EXCEPT !.cands = {}]])

-----------------------------------------------------------------------------
(* Importing a record. *)

\* The source, and with it whether it is linked, is read first.
ReadSource(a, s) ==
  /\ Begin(a, [at |-> "read", src |-> s, link |-> link[s]])
  /\ UNCHANGED <<status, link, reviews, events>>

\* Mutant: the early return for a linked source is dropped.
ForgetfulResolutions(l) ==
  [kind : {"match"}, to : Existing] \cup {[kind |-> "create"]}

\* What a record that was read with link l may come to: a linked source keeps
\* its mosque; any other gets a review, a match with any mosque whatever its
\* status, or a mosque of its own.
Resolutions(l) ==
  IF l \in Mosques
  THEN {[kind |-> "known"]}
  ELSE [kind : {"review"}, cands : {C \in SUBSET Existing : C # {} /\ Cardinality(C) <= 3}]
       \cup [kind : {"match"}, to : Existing] \cup {[kind |-> "create"]}

\* Mutant: the reviews are read before the row is locked.
EarlyLookup(a) ==
  /\ txn[a].at = "read"
  /\ IF txn[a].link = New /\ link[txn[a].src] # New
     THEN End(a)
     ELSE \E r \in Resolutions(txn[a].link) :
            txn' = [txn EXCEPT ![a] = [at |-> "written", src |-> @.src, link |-> @.link,
                                       result |-> r, found |-> PendingOf(@.src)]]
  /\ UNCHANGED <<status, link, reviews, events>>

\* Updating the source's row takes its lock; only then are its reviews read.
\* An insert finds the row of another that came first, and the record fails.
WriteSource(a) ==
  /\ txn[a].at = "read"
  /\ LET s == txn[a].src IN
     /\ ~Held(s)
     /\ IF txn[a].link = New /\ link[s] # New
        THEN End(a)
        ELSE \E r \in Resolutions(txn[a].link) :
               txn' = [txn EXCEPT ![a] = [at |-> "written", src |-> s, link |-> @.link,
                                          result |-> r, found |-> PendingOf(s)]]
  /\ UNCHANGED <<status, link, reviews, events>>

\* A pending review is rewritten, its status left as it is; without one, a new
\* one is created.  The source's link is not written.
UpsertReview(s, found, cands) ==
  IF found = {}
  THEN /\ Len(reviews) < MaxReviews
       /\ reviews' = Append(reviews, [src |-> s, cands |-> cands, proposed |-> None,
                                      status |-> "pending"])
  ELSE \E i \in found : reviews' = [reviews EXCEPT ![i].cands = cands]

CommitReview(a) ==
  /\ txn[a].at = "written" /\ txn[a].result.kind = "review"
  /\ LET s == txn[a].src IN
     /\ UpsertReview(s, txn[a].found, txn[a].result.cands)
     /\ link' = IF txn[a].link = New THEN [link EXCEPT ![s] = None] ELSE link
  /\ End(a)
  /\ UNCHANGED <<status, events>>

CommitMatch(a) ==
  /\ txn[a].at = "written" /\ txn[a].result.kind = "match"
  /\ link' = [link EXCEPT ![txn[a].src] = txn[a].result.to]
  /\ Resolve(txn[a].found, txn[a].result.to)
  /\ End(a)
  /\ UNCHANGED <<status, events>>

\* Mutant: the mosque is not added.
CommitUnsaved(a) ==
  /\ txn[a].at = "written" /\ txn[a].result.kind = "create"
  /\ \E m \in Mosques \ Existing : link' = [link EXCEPT ![txn[a].src] = m]
  /\ End(a)
  /\ UNCHANGED <<status, reviews, events>>

\* The pending reviews of a source that gets a mosque of its own stay pending.
CommitCreate(a) ==
  /\ txn[a].at = "written" /\ txn[a].result.kind = "create"
  /\ \E m \in Mosques \ Existing :
       /\ status' = [status EXCEPT ![m] = "needs_review"]
       /\ link' = [link EXCEPT ![txn[a].src] = m]
  /\ End(a)
  /\ UNCHANGED <<reviews, events>>

CommitKnown(a) ==
  /\ txn[a].at = "written" /\ txn[a].result.kind = "known"
  /\ Resolve(txn[a].found, txn[a].link)
  /\ End(a)
  /\ UNCHANGED <<status, link, events>>

\* An error of the record, or of the whole run, leaves nothing behind.
ImportFails(a) ==
  /\ Event
  /\ txn[a].at \in {"read", "written"}
  /\ End(a)
  /\ UNCHANGED <<status, link, reviews>>

-----------------------------------------------------------------------------
(* Reviewing. *)

\* A review is accepted for one of its candidates: its alternatives, for while it
\* is pending no mosque is proposed.  Bulk acceptance takes any number of reviews
\* with a single candidate.
Picks ==
  (UNION {[{i} -> reviews[i].cands] : i \in Pending})
  \cup {[i \in R |-> CHOOSE m \in Mosques : reviews[i].cands = {m}] :
          R \in SUBSET {i \in Pending : Cardinality(reviews[i].cands) = 1}}

ReadToAccept(a) ==
  /\ \E picks \in Picks :
       /\ DOMAIN picks # {}
       /\ Begin(a, [at |-> "accepting", picks |-> picks])
  /\ UNCHANGED <<status, link, reviews, events>>

\* Mutant: the source is not linked.
AcceptWithoutLink(a) ==
  /\ txn[a].at = "accepting"
  /\ Rewrite([i \in DOMAIN txn[a].picks |-> Accepted(i, txn[a].picks[i])])
  /\ End(a)
  /\ UNCHANGED <<status, link, events>>

\* Neither the review's status nor the source's link is read again.  The mosque is
\* proposed by what is accepted, for a later merge to move.
Accept(a) ==
  /\ txn[a].at = "accepting"
  /\ LET picks == txn[a].picks
         Sourced(s) == {i \in DOMAIN picks : reviews[i].src = s}
     IN /\ \A i \in DOMAIN picks : ~Held(reviews[i].src)
        /\ link' = [s \in Sources |->
                      IF Sourced(s) = {} THEN link[s]
                      ELSE picks[CHOOSE i \in Sourced(s) : TRUE]]
        /\ Rewrite([i \in DOMAIN picks |-> Accepted(i, picks[i])])
  /\ End(a)
  /\ UNCHANGED <<status, events>>

ReadToReject(a) ==
  /\ \E i \in Pending : Begin(a, [at |-> "rejecting", review |-> i])
  /\ UNCHANGED <<status, link, reviews, events>>

Reject(a) ==
  /\ txn[a].at = "rejecting"
  /\ Rewrite([i \in {txn[a].review} |-> [reviews[i] EXCEPT !.status = "rejected"]])
  /\ End(a)
  /\ UNCHANGED <<status, link, events>>

-----------------------------------------------------------------------------
(* Mosques. *)

\* The status of either mosque is not looked at.
ReadToMerge(a) ==
  /\ \E canonical, duplicate \in Existing :
       /\ canonical # duplicate
       /\ Begin(a, [at |-> "merging", into |-> canonical, duplicate |-> duplicate,
                    sources |-> Of(duplicate), was |-> status[duplicate]])
  /\ UNCHANGED <<status, link, reviews, events>>

\* Attributes are written when they differ from what was read; the reviews that
\* propose the duplicate are found and rewritten by one statement.
Merge(a) ==
  /\ txn[a].at = "merging"
  /\ \A s \in txn[a].sources : ~Held(s)
  /\ link' = [s \in Sources |-> IF s \in txn[a].sources THEN txn[a].into ELSE link[s]]
  /\ status' = IF txn[a].was = "duplicate" THEN status
               ELSE [status EXCEPT ![txn[a].duplicate] = "duplicate"]
  /\ LET Proposing == {i \in DOMAIN reviews : reviews[i].proposed = txn[a].duplicate}
     IN Rewrite([i \in Proposing |-> [reviews[i] EXCEPT !.proposed = txn[a].into]])
  /\ End(a)
  /\ UNCHANGED events

\* A mosque to review with a source, none of whose sources awaits a review.
Activatable ==
  {m \in Mosques : /\ status[m] = "needs_review"
                   /\ Of(m) # {}
                   /\ \A s \in Of(m) : PendingOf(s) = {}}

ReadToActivate(a) ==
  /\ \E M \in SUBSET Activatable :
       /\ M # {}
       /\ Begin(a, [at |-> "activating", mosques |-> M])
  /\ UNCHANGED <<status, link, reviews, events>>

Activate(a) ==
  /\ txn[a].at = "activating"
  /\ status' = [m \in Mosques |-> IF m \in txn[a].mosques THEN "active" ELSE status[m]]
  /\ End(a)
  /\ UNCHANGED <<link, reviews, events>>

CreateMosque(a) ==
  /\ Event
  /\ txn[a] = NoTxn
  /\ \E m \in Mosques \ Existing, st \in Statuses : status' = [status EXCEPT ![m] = st]
  /\ UNCHANGED <<link, reviews, txn>>

UpdateMosque(a) ==
  /\ Event
  /\ txn[a] = NoTxn
  /\ \E m \in Existing, st \in Statuses : status' = [status EXCEPT ![m] = st]
  /\ UNCHANGED <<link, reviews, txn>>

\* Attaching a source that has a row already is refused.
AttachSource(a) ==
  /\ Event
  /\ txn[a] = NoTxn
  /\ \E s \in Sources, m \in Existing :
       /\ link[s] = New /\ ~Held(s)
       /\ link' = [link EXCEPT ![s] = m]
  /\ UNCHANGED <<status, reviews, txn>>

-----------------------------------------------------------------------------
Init ==
  /\ status \in [Mosques -> {"absent", "needs_review"}]
  /\ link = [s \in Sources |-> New]
  /\ reviews = <<>>
  /\ txn = [a \in Importers \cup Admins |-> NoTxn]
  /\ events = 0

Import(a) ==
  \/ \E s \in Sources : ReadSource(a, s)
  \/ WriteSource(a)
  \/ CommitReview(a)
  \/ CommitMatch(a)
  \/ CommitCreate(a)
  \/ CommitKnown(a)
  \/ ImportFails(a)

Review(a) == ReadToAccept(a) \/ Accept(a) \/ ReadToReject(a) \/ Reject(a)

Curate(a) ==
  \/ ReadToMerge(a) \/ Merge(a)
  \/ ReadToActivate(a) \/ Activate(a)
  \/ CreateMosque(a) \/ UpdateMosque(a) \/ AttachSource(a)

Next ==
  \/ \E a \in Importers : Import(a)
  \/ \E a \in Admins : Review(a) \/ Curate(a)

Spec == Init /\ [][Next]_vars

-----------------------------------------------------------------------------
(* Types and properties. *)

Result(r) ==
  \/ r.kind \in {"known", "create"} /\ DOMAIN r = {"kind"}
  \/ r.kind = "match" /\ r.to \in Mosques
  \/ r.kind = "review" /\ r.cands \subseteq Mosques

ImporterTxn(t) ==
  \/ t = NoTxn
  \/ t.at = "read" /\ t.src \in Sources /\ t.link \in Mosques \cup {New, None}
  \/ /\ t.at = "written" /\ t.src \in Sources /\ t.link \in Mosques \cup {New, None}
     /\ Result(t.result) /\ t.found \subseteq DOMAIN reviews

AdminTxn(t) ==
  \/ t = NoTxn
  \/ t.at = "accepting" /\ DOMAIN t.picks \subseteq DOMAIN reviews
                        /\ \A i \in DOMAIN t.picks : t.picks[i] \in Mosques
  \/ t.at = "rejecting" /\ t.review \in DOMAIN reviews
  \/ t.at = "merging" /\ t.into \in Mosques /\ t.duplicate \in Mosques
                      /\ t.sources \subseteq Sources
  \/ t.at = "activating" /\ t.mosques \subseteq Mosques

\* The variables keep their types; in particular no source, and no open
\* transaction, names a mosque without a row.
TypeOK ==
  /\ status \in [Mosques -> Statuses \cup {"absent"}]
  /\ link \in [Sources -> Existing \cup {New, None}]
  /\ reviews \in Seq(Reviews)
  /\ \A a \in Importers : ImporterTxn(txn[a])
  /\ \A a \in Admins : AdminTxn(txn[a])
  /\ events \in 0..MaxEvents

\* No source has two reviews pending, however imports of it overlap: the
\* second waits for the source's row before it looks for a review to rewrite
\* (resolve.py:_upsert_match_review; nothing in the schema forbids a second).
OnePendingReview == \A s \in Sources : \A i, j \in PendingOf(s) : i = j

\* A source without a mosque is never lost from sight: it has a review that is
\* pending, or one that an administrator rejected, whatever imports, reviews
\* and merges overlapped.
NothingForgotten ==
  \A s \in Sources : link[s] = None =>
    \E i \in DOMAIN reviews : reviews[i].src = s /\ reviews[i].status \in {"pending", "rejected"}

\* A source that has a mosque gets another only by a merge or an accepted
\* review, or from an import that had read it before it had one: re-importing
\* a registry never undoes what an administrator decided before.
LinksMoveOnPurpose ==
  [][\A s \in Sources : Linked(s) /\ link'[s] # link[s] =>
       \/ \E a \in Admins : txn[a].at \in {"accepting", "merging"} /\ txn'[a] = NoTxn
       \/ \E a \in Importers : txn[a].at = "written" /\ txn[a].src = s
                               /\ txn[a].link \notin Mosques]_vars
=============================================================================
