--------------------------- MODULE IdentityProofs ----------------------------
(***************************************************************************)
(* Theorems about Identity, for any number of importers, administrators,   *)
(* records and mosques: no source has two reviews pending, and none        *)
(* without a mosque is lost from sight.                                    *)
(*                                                                         *)
(* The lock on a source's row is all that orders imports of it.  So the    *)
(* invariant says what a transaction that holds the lock may rely on: the  *)
(* reviews it has found are all that are pending, and nobody accepts them. *)
(***************************************************************************)
EXTENDS Identity, SequenceTheorems, FiniteSetTheorems, TLAPS

Actors == Importers \cup Admins

\* The mosques that a transaction names have rows.
TxnRows(t) ==
  /\ t.at \in {"read", "written"} => t.link \in Existing \cup {New, None}
  /\ t.at = "written" =>
       /\ t.result.kind = "match" => t.result.to \in Existing
       /\ t.result.kind = "review" => t.result.cands \subseteq Existing
       /\ t.result.kind = "known" => t.link \in Existing
  /\ t.at = "accepting" => \A i \in DOMAIN t.picks : t.picks[i] \in Existing
  /\ t.at = "merging" => t.into \in Existing
  /\ t.at = "activating" => t.mosques \subseteq Existing

TxnsOK ==
  /\ txn = [a \in Actors |-> txn[a]]
  /\ \A a \in Importers : ImporterTxn(txn[a]) /\ TxnRows(txn[a])
  /\ \A a \in Admins : AdminTxn(txn[a]) /\ TxnRows(txn[a])

CandsOK == \A i \in DOMAIN reviews : reviews[i].cands \subseteq Existing

\* TypeOK, and what it needs to be inductive.
TypeInv == TypeOK /\ TxnsOK /\ CandsOK

-----------------------------------------------------------------------------
(* Reviews. *)

LEMMA ReviewsDomain ==
  ASSUME reviews \in Seq(Reviews)
  PROVE  /\ DOMAIN reviews = 1..Len(reviews)
         /\ Len(reviews) \in Nat
         /\ \A i \in DOMAIN reviews : reviews[i] \in Reviews
BY LenProperties, ElementOfSeq

\* Reviews are rewritten and added, never removed, nor moved to another source.
ReviewsGrow ==
  /\ reviews' \in Seq(Reviews)
  /\ DOMAIN reviews \subseteq DOMAIN reviews'
  /\ \A i \in DOMAIN reviews : reviews'[i].src = reviews[i].src

\* Of the reviews the verdict is given on R; they lose candidates, never win one.
Decide(R, verdict) ==
  /\ ReviewsGrow
  /\ DOMAIN reviews' = DOMAIN reviews
  /\ \A i \in DOMAIN reviews :
       /\ reviews'[i].cands \subseteq reviews[i].cands
       /\ reviews'[i].status = IF i \in R THEN verdict ELSE reviews[i].status

\* Rewriting reviews so decides them.
LEMMA RewriteDecides ==
  ASSUME reviews \in Seq(Reviews), NEW rewritten, Rewrite(rewritten), NEW R, NEW verdict,
         R \cap DOMAIN reviews \subseteq DOMAIN rewritten,
         \A i \in DOMAIN reviews \cap DOMAIN rewritten :
           /\ rewritten[i] \in Reviews
           /\ rewritten[i].src = reviews[i].src
           /\ rewritten[i].cands \subseteq reviews[i].cands
           /\ rewritten[i].status = IF i \in R THEN verdict ELSE reviews[i].status
  PROVE  Decide(R, verdict)
<1>1. /\ DOMAIN reviews = 1..Len(reviews)
      /\ Len(reviews) \in Nat
      /\ \A i \in DOMAIN reviews : reviews[i] \in Reviews
  BY ReviewsDomain
<1>2. DOMAIN reviews' = 1..Len(reviews)
  BY <1>1 DEF Rewrite
<1>3. \A i \in DOMAIN reviews :
        reviews'[i] = IF i \in DOMAIN rewritten THEN rewritten[i] ELSE reviews[i]
  BY DEF Rewrite
<1>4. \A i \in DOMAIN reviews :
        /\ reviews'[i] \in Reviews
        /\ reviews'[i].src = reviews[i].src
        /\ reviews'[i].cands \subseteq reviews[i].cands
        /\ reviews'[i].status = IF i \in R THEN verdict ELSE reviews[i].status
  BY <1>1, <1>3
<1>5. reviews' \in [1..Len(reviews) -> Reviews]
  BY <1>1, <1>4 DEF Rewrite
<1>6. reviews' \in Seq(Reviews)
  BY <1>1, <1>5
<1> QED
  BY <1>1, <1>2, <1>4, <1>6 DEF ReviewsGrow, Decide

\* An accepted review is what it was, but for the mosque and the status.
LEMMA AcceptedFacts ==
  ASSUME reviews \in Seq(Reviews), NEW i \in DOMAIN reviews, NEW m \in Mosques
  PROVE  /\ Accepted(i, m) \in Reviews
         /\ Accepted(i, m).src = reviews[i].src
         /\ Accepted(i, m).cands = reviews[i].cands
         /\ Accepted(i, m).status = "accepted"
<1>1. reviews[i] \in Reviews
  BY ReviewsDomain
<1> QED
  BY <1>1 DEF Accepted, Reviews, Verdicts

LEMMA ResolveDecides ==
  ASSUME reviews \in Seq(Reviews), NEW found, NEW m \in Mosques, Resolve(found, m)
  PROVE  Decide(found, "accepted")
<1> DEFINE rewritten == [i \in found |-> [Accepted(i, m) EXCEPT !.cands = {}]]
<1>1. \A i \in DOMAIN reviews \cap found :
        /\ rewritten[i] \in Reviews
        /\ rewritten[i].src = reviews[i].src
        /\ rewritten[i].cands \subseteq reviews[i].cands
        /\ rewritten[i].status = "accepted"
  <2> TAKE i \in DOMAIN reviews \cap found
  <2> DEFINE r == Accepted(i, m)
  <2>1. r \in Reviews /\ r.src = reviews[i].src /\ r.status = "accepted"
    BY AcceptedFacts
  <2> HIDE DEF r
  <2>2. [r EXCEPT !.cands = {}] \in Reviews
    BY <2>1 DEF Reviews
  <2>3. /\ [r EXCEPT !.cands = {}].src = r.src
        /\ [r EXCEPT !.cands = {}].cands = {}
        /\ [r EXCEPT !.cands = {}].status = r.status
    BY <2>1 DEF Reviews
  <2>4. rewritten[i] = [r EXCEPT !.cands = {}]
    BY DEF r
  <2> HIDE DEF rewritten
  <2> QED
    BY <2>1, <2>2, <2>3, <2>4
<1>2. Rewrite(rewritten) /\ DOMAIN rewritten = found
  BY DEF Resolve
<1> HIDE DEF rewritten
<1> QED
  BY <1>1, <1>2, RewriteDecides

LEMMA AcceptDecides ==
  ASSUME reviews \in Seq(Reviews), NEW picks, \A i \in DOMAIN picks : picks[i] \in Mosques,
         Rewrite([i \in DOMAIN picks |-> Accepted(i, picks[i])])
  PROVE  Decide(DOMAIN picks, "accepted")
<1> DEFINE rewritten == [i \in DOMAIN picks |-> Accepted(i, picks[i])]
<1>1. /\ DOMAIN rewritten = DOMAIN picks
      /\ \A i \in DOMAIN picks : rewritten[i] = Accepted(i, picks[i])
      /\ Rewrite(rewritten)
  OBVIOUS
<1> HIDE DEF rewritten
<1> QED
  BY <1>1, AcceptedFacts, RewriteDecides

LEMMA RejectDecides ==
  ASSUME reviews \in Seq(Reviews), NEW j,
         Rewrite([i \in {j} |-> [reviews[i] EXCEPT !.status = "rejected"]])
  PROVE  Decide({j}, "rejected")
<1> DEFINE rewritten == [i \in {j} |-> [reviews[i] EXCEPT !.status = "rejected"]]
<1>1. \A i \in DOMAIN reviews \cap {j} :
        /\ rewritten[i] \in Reviews
        /\ rewritten[i].src = reviews[i].src
        /\ rewritten[i].cands \subseteq reviews[i].cands
        /\ rewritten[i].status = "rejected"
  BY ReviewsDomain DEF Reviews, Verdicts
<1>2. Rewrite(rewritten) /\ DOMAIN rewritten = {j}
  OBVIOUS
<1> HIDE DEF rewritten
<1> QED
  BY <1>1, <1>2, RewriteDecides

\* A merge decides nothing: it only moves what accepted reviews propose.
LEMMA MergeDecides ==
  ASSUME reviews \in Seq(Reviews), NEW R, NEW m \in Mosques,
         Rewrite([i \in R |-> [reviews[i] EXCEPT !.proposed = m]])
  PROVE  Decide({}, "accepted")
<1> DEFINE rewritten == [i \in R |-> [reviews[i] EXCEPT !.proposed = m]]
<1>1. \A i \in DOMAIN reviews \cap R :
        /\ rewritten[i] \in Reviews
        /\ rewritten[i].src = reviews[i].src
        /\ rewritten[i].cands \subseteq reviews[i].cands
        /\ rewritten[i].status = reviews[i].status
  BY ReviewsDomain DEF Reviews
<1>2. Rewrite(rewritten) /\ DOMAIN rewritten = R
  OBVIOUS
<1> HIDE DEF rewritten
<1> QED
  BY <1>1, <1>2, RewriteDecides

\* What UpsertReview does, without a review found and with one.
LEMMA UpsertFacts ==
  ASSUME reviews \in Seq(Reviews), NEW s \in Sources, NEW found \in SUBSET DOMAIN reviews,
         NEW cands \in SUBSET Mosques, UpsertReview(s, found, cands)
  PROVE  /\ ReviewsGrow
         /\ \A i \in DOMAIN reviews :
              /\ reviews'[i].status = reviews[i].status
              /\ reviews'[i].cands \in {reviews[i].cands, cands}
         /\ found # {} => DOMAIN reviews' = DOMAIN reviews
         /\ found = {} => \E n :
              /\ n \notin DOMAIN reviews
              /\ DOMAIN reviews' = DOMAIN reviews \cup {n}
              /\ reviews'[n] = [src |-> s, cands |-> cands, proposed |-> None, status |-> "pending"]
<1>1. /\ DOMAIN reviews = 1..Len(reviews)
      /\ Len(reviews) \in Nat
      /\ \A i \in DOMAIN reviews : reviews[i] \in Reviews
  BY ReviewsDomain
<1>2. CASE found = {}
  <2> DEFINE r == [src |-> s, cands |-> cands, proposed |-> None, status |-> "pending"]
  <2>1. r \in Reviews
    BY DEF Reviews, Verdicts
  <2>2. reviews' = Append(reviews, r)
    BY <1>2 DEF UpsertReview
  <2> HIDE DEF r
  <2>3. /\ reviews' \in Seq(Reviews)
        /\ Len(reviews') = Len(reviews) + 1
        /\ DOMAIN reviews' = 1..(Len(reviews) + 1)
        /\ \A i \in 1..Len(reviews) : reviews'[i] = reviews[i]
        /\ reviews'[Len(reviews) + 1] = r
    BY <1>1, <2>1, <2>2
  <2>4. Len(reviews) + 1 \notin DOMAIN reviews
    BY <1>1
  <2>5. DOMAIN reviews' = DOMAIN reviews \cup {Len(reviews) + 1}
    BY <1>1, <2>3
  <2> QED
    BY <1>1, <1>2, <2>3, <2>4, <2>5 DEF ReviewsGrow, r
<1>3. CASE found # {}
  <2>1. PICK j \in found : reviews' = [reviews EXCEPT ![j].cands = cands]
    BY <1>3 DEF UpsertReview
  <2> DEFINE r == [reviews[j] EXCEPT !.cands = cands]
  <2>2. r \in Reviews /\ r.src = reviews[j].src /\ r.status = reviews[j].status /\ r.cands = cands
    BY <1>1 DEF Reviews
  <2>3. reviews' = [reviews EXCEPT ![j] = r]
    BY <2>1
  <2> HIDE DEF r
  <2>4. reviews' \in Seq(Reviews) /\ DOMAIN reviews' = DOMAIN reviews
    BY <1>1, <2>2, <2>3, ExceptSeq
  <2>5. \A i \in DOMAIN reviews : reviews'[i] = IF i = j THEN r ELSE reviews[i]
    BY <2>3
  <2> QED
    BY <1>3, <2>2, <2>4, <2>5 DEF ReviewsGrow
<1> QED
  BY <1>2, <1>3

\* Nothing of the reviews has changed.
LEMMA SameReviews ==
  ASSUME reviews \in Seq(Reviews), UNCHANGED reviews
  PROVE  ReviewsGrow
BY DEF ReviewsGrow

-----------------------------------------------------------------------------
(* Types. *)

\* No mosque is removed.
RowsStay == Existing \subseteq Existing'

\* A step of one actor leaves the transactions of the others, and its own, of the
\* right type.
LEMMA TxnStep ==
  ASSUME TypeInv, ReviewsGrow, RowsStay, NEW a \in Actors, NEW t,
         txn' = [txn EXCEPT ![a] = t],
         a \in Importers => ImporterTxn(t),
         a \in Admins => AdminTxn(t),
         TxnRows(t)
  PROVE  TxnsOK'
<1>1. txn' = [b \in Actors |-> txn'[b]] /\ \A b \in Actors : txn'[b] = IF b = a THEN t ELSE txn[b]
  BY DEF TypeInv, TxnsOK
<1>2. \A b \in Importers : ImporterTxn(txn'[b]) /\ TxnRows(txn'[b])
  BY <1>1 DEF TypeInv, TxnsOK, Actors
<1>3. \A b \in Admins : AdminTxn(txn'[b]) /\ TxnRows(txn'[b])
  BY <1>1 DEF TypeInv, TxnsOK, Actors
<1>4. \A b \in Importers : ImporterTxn(txn[b])'
  BY <1>2 DEF ImporterTxn, Result, ReviewsGrow
<1>5. \A b \in Admins : AdminTxn(txn[b])'
  BY <1>3 DEF AdminTxn, ReviewsGrow
<1>6. \A b \in Actors : TxnRows(txn[b])'
  BY <1>2, <1>3 DEF TxnRows, RowsStay, Actors
<1>7. \A b \in Importers : ImporterTxn(txn[b])' /\ TxnRows(txn[b])'
  BY <1>4, <1>6 DEF Actors
<1>8. \A b \in Admins : AdminTxn(txn[b])' /\ TxnRows(txn[b])'
  BY <1>5, <1>6 DEF Actors
<1> QED
  BY <1>1, <1>7, <1>8 DEF TxnsOK

\* A transaction that ends is idle.
LEMMA EndStep ==
  ASSUME TypeInv, ReviewsGrow, RowsStay, NEW a \in Actors, End(a)
  PROVE  TxnsOK'
<1>1. ImporterTxn(NoTxn) /\ AdminTxn(NoTxn)
  BY DEF ImporterTxn, AdminTxn
<1>2. TxnRows(NoTxn)
  BY DEF TxnRows, NoTxn
<1> QED
  BY <1>1, <1>2, TxnStep DEF End

\* No transaction is touched.
LEMMA IdleStep ==
  ASSUME TypeInv, ReviewsGrow, RowsStay, UNCHANGED txn
  PROVE  TxnsOK'
<1>1. \A b \in Importers : ImporterTxn(txn[b])'
  BY DEF TypeInv, TxnsOK, ImporterTxn, Result, ReviewsGrow
<1>2. \A b \in Admins : AdminTxn(txn[b])'
  BY DEF TypeInv, TxnsOK, AdminTxn, ReviewsGrow
<1>3. \A b \in Actors : TxnRows(txn[b])'
  BY DEF TypeInv, TxnsOK, TxnRows, RowsStay, Actors
<1> QED
  BY <1>1, <1>2, <1>3 DEF TypeInv, TxnsOK, Actors

\* The tables keep their types; with TxnsOK this is TypeInv.
TablesOK ==
  /\ status \in [Mosques -> Statuses \cup {"absent"}]
  /\ link \in [Sources -> Existing \cup {New, None}]
  /\ reviews \in Seq(Reviews)
  /\ events \in 0..MaxEvents
  /\ CandsOK

LEMMA TypeParts == TypeInv <=> TablesOK /\ TxnsOK
BY DEF TypeInv, TablesOK, TypeOK, TxnsOK

\* No step but of transactions: what BeginStep asks of the new one is enough.
LEMMA BeginStep ==
  ASSUME TypeInv, UNCHANGED <<status, link, reviews, events>>,
         NEW a \in Actors, NEW t, txn' = [txn EXCEPT ![a] = t],
         a \in Importers => ImporterTxn(t),
         a \in Admins => AdminTxn(t),
         TxnRows(t)
  PROVE  TypeInv'
<1>1. ReviewsGrow
  BY SameReviews DEF TypeInv, TypeOK
<1>2. RowsStay
  BY DEF RowsStay, Existing
<1>3. TxnsOK'
  BY <1>1, <1>2, TxnStep
<1>4. TablesOK'
  BY TypeParts DEF TablesOK, CandsOK, Existing
<1> QED
  BY <1>3, <1>4 DEF TypeInv, TablesOK, TypeOK, TxnsOK

\* Importers and administrators are different actors.
LEMMA Apart ==
  /\ \A a \in Importers : a \in Actors /\ a \notin Admins
  /\ \A a \in Admins : a \in Actors /\ a \notin Importers
BY IdentityAssumption DEF IdentityAssumption, Actors

\* What a transaction that is about to commit holds.
LEMMA WrittenFacts ==
  ASSUME TypeInv, NEW a \in Importers, txn[a].at = "written"
  PROVE  /\ txn[a].src \in Sources
         /\ txn[a].link \in Mosques \cup {New, None}
         /\ txn[a].found \subseteq DOMAIN reviews
         /\ Result(txn[a].result)
         /\ txn[a].result.kind = "match" => txn[a].result.to \in Existing
         /\ txn[a].result.kind = "review" => txn[a].result.cands \subseteq Existing
         /\ txn[a].result.kind = "known" => txn[a].link \in Existing
<1>1. ImporterTxn(txn[a]) /\ TxnRows(txn[a])
  BY DEF TypeInv, TxnsOK
<1> QED
  BY <1>1 DEF ImporterTxn, TxnRows, NoTxn

LEMMA ReadType ==
  ASSUME TypeInv, NEW a \in Importers, NEW s \in Sources, ReadSource(a, s)
  PROVE  TypeInv'
<1> DEFINE t == [at |-> "read", src |-> s, link |-> link[s]]
<1>1. link[s] \in Existing \cup {New, None} /\ Existing \subseteq Mosques
  BY DEF TypeInv, TypeOK, Existing
<1>2. ImporterTxn(t) /\ TxnRows(t)
  BY <1>1 DEF ImporterTxn, TxnRows
<1>3. txn' = [txn EXCEPT ![a] = t] /\ UNCHANGED <<status, link, reviews, events>>
  BY DEF ReadSource, Begin
<1> HIDE DEF t
<1> QED
  BY <1>2, <1>3, BeginStep, Apart

LEMMA WriteType ==
  ASSUME TypeInv, NEW a \in Importers, WriteSource(a)
  PROVE  TypeInv'
<1> DEFINE s == txn[a].src
<1>0. txn[a].at = "read" /\ ImporterTxn(txn[a]) /\ TxnRows(txn[a])
  BY DEF TypeInv, TxnsOK, WriteSource
<1>1. /\ s \in Sources
      /\ txn[a].link \in Mosques \cup {New, None}
      /\ txn[a].link \in Existing \cup {New, None}
  BY <1>0 DEF ImporterTxn, TxnRows, NoTxn
<1>2. CASE End(a)
  <2>1. ImporterTxn(NoTxn) /\ TxnRows(NoTxn)
    BY DEF ImporterTxn, TxnRows, NoTxn
  <2> QED
    BY <1>2, <2>1, BeginStep, Apart DEF WriteSource, End
<1>3. ASSUME NEW r \in Resolutions(txn[a].link),
             txn' = [txn EXCEPT ![a] = [at |-> "written", src |-> s, link |-> @.link,
                                        result |-> r, found |-> PendingOf(s)]]
      PROVE  TypeInv'
  <2> DEFINE t == [at |-> "written", src |-> s, link |-> txn[a].link,
                   result |-> r, found |-> PendingOf(s)]
  <2>1. Existing \subseteq Mosques /\ PendingOf(s) \subseteq DOMAIN reviews
    BY DEF Existing, PendingOf, Pending
  <2>2. /\ Result(r)
        /\ r.kind = "match" => r.to \in Existing
        /\ r.kind = "review" => r.cands \subseteq Existing
        /\ r.kind = "known" => txn[a].link \in Mosques
    BY <1>3, <2>1 DEF Resolutions, Result
  <2>3. ImporterTxn(t) /\ TxnRows(t)
    BY <1>1, <2>1, <2>2, IdentityAssumption DEF ImporterTxn, TxnRows, IdentityAssumption
  <2>4. txn' = [txn EXCEPT ![a] = t]
    BY <1>3
  <2>5. UNCHANGED <<status, link, reviews, events>>
    BY DEF WriteSource
  <2> HIDE DEF t
  <2> QED
    BY <2>3, <2>4, <2>5, BeginStep, Apart
<1> QED
  BY <1>2, <1>3 DEF WriteSource

\* Candidates keep their rows, whatever is decided.
LEMMA DecidedCands ==
  ASSUME TypeInv, RowsStay, NEW R, NEW verdict, Decide(R, verdict)
  PROVE  ReviewsGrow /\ CandsOK'
BY DEF Decide, TypeInv, CandsOK, RowsStay

LEMMA SameCands ==
  ASSUME TypeInv, RowsStay, UNCHANGED reviews
  PROVE  ReviewsGrow /\ CandsOK'
BY SameReviews DEF TypeInv, TypeOK, CandsOK, RowsStay

LEMMA UpsertedCands ==
  ASSUME TypeInv, RowsStay, NEW s \in Sources, NEW found \in SUBSET DOMAIN reviews,
         NEW cands \in SUBSET Existing, UpsertReview(s, found, cands)
  PROVE  ReviewsGrow /\ CandsOK'
<1>1. reviews \in Seq(Reviews) /\ cands \in SUBSET Mosques
  BY DEF TypeInv, TypeOK, Existing
<1>2. /\ ReviewsGrow
      /\ \A i \in DOMAIN reviews : reviews'[i].cands \in {reviews[i].cands, cands}
      /\ found # {} => DOMAIN reviews' = DOMAIN reviews
      /\ found = {} => \E n :
           /\ n \notin DOMAIN reviews
           /\ DOMAIN reviews' = DOMAIN reviews \cup {n}
           /\ reviews'[n] = [src |-> s, cands |-> cands, proposed |-> None, status |-> "pending"]
  BY <1>1, UpsertFacts
<1>3. \A i \in DOMAIN reviews' :
        \/ i \in DOMAIN reviews
        \/ reviews'[i].cands = cands
  <2>1. CASE found # {}
    BY <1>2, <2>1
  <2>2. CASE found = {}
    <3>1. PICK n : /\ DOMAIN reviews' = DOMAIN reviews \cup {n}
                   /\ reviews'[n] = [src |-> s, cands |-> cands, proposed |-> None, status |-> "pending"]
      BY <1>2, <2>2
    <3>2. reviews'[n].cands = cands
      BY <3>1
    <3> QED
      BY <3>1, <3>2
  <2> QED
    BY <2>1, <2>2
<1>4. \A i \in DOMAIN reviews' : reviews'[i].cands \subseteq Existing
  BY <1>2, <1>3 DEF TypeInv, CandsOK
<1> QED
  BY <1>2, <1>4 DEF CandsOK, RowsStay

\* Statuses that are set leave every row where it is.
LEMMA StatusStep ==
  ASSUME TypeInv, NEW S \in SUBSET Mosques, NEW st \in Statuses,
         status' = [m \in Mosques |-> IF m \in S THEN st ELSE status[m]]
  PROVE  /\ status' \in [Mosques -> Statuses \cup {"absent"}]
         /\ RowsStay
         /\ S \subseteq Existing'
BY DEF TypeInv, TypeOK, Statuses, RowsStay, Existing

\* One status set is a case of that.
LEMMA OneStatus ==
  ASSUME TypeInv, NEW m \in Mosques, NEW st, status' = [status EXCEPT ![m] = st]
  PROVE  status' = [n \in Mosques |-> IF n \in {m} THEN st ELSE status[n]]
BY DEF TypeInv, TypeOK

LEMMA SameStatus ==
  ASSUME TypeInv, UNCHANGED status
  PROVE  /\ status' \in [Mosques -> Statuses \cup {"absent"}]
         /\ RowsStay
BY DEF TypeInv, TypeOK, RowsStay, Existing

\* A transaction that ends, and what it has written.
LEMMA CloseStep ==
  ASSUME TypeInv, NEW a \in Actors, End(a), ReviewsGrow, CandsOK', RowsStay,
         status' \in [Mosques -> Statuses \cup {"absent"}],
         link' \in [Sources -> Existing' \cup {New, None}],
         events' \in 0..MaxEvents
  PROVE  TypeInv'
BY EndStep DEF TypeInv, TypeOK, TxnsOK, ReviewsGrow

LEMMA EventType ==
  ASSUME TypeInv, Event
  PROVE  events' \in 0..MaxEvents
BY IdentityAssumption DEF TypeInv, TypeOK, Event, IdentityAssumption

LEMMA CommitType ==
  ASSUME TypeInv, NEW a \in Importers,
         CommitReview(a) \/ CommitMatch(a) \/ CommitCreate(a) \/ CommitKnown(a)
  PROVE  TypeInv'
<1> DEFINE s == txn[a].src
<1>0. /\ a \in Actors /\ txn[a].at = "written" /\ End(a)
      /\ events' \in 0..MaxEvents
  BY Apart DEF CommitReview, CommitMatch, CommitCreate, CommitKnown, TypeInv, TypeOK
<1>1. /\ s \in Sources
      /\ txn[a].found \in SUBSET DOMAIN reviews
      /\ txn[a].result.kind = "match" => txn[a].result.to \in Existing
      /\ txn[a].result.kind = "review" => txn[a].result.cands \in SUBSET Existing
      /\ txn[a].result.kind = "known" => txn[a].link \in Existing
      /\ Existing \subseteq Mosques
  BY <1>0, WrittenFacts DEF Existing
<1>2. link \in [Sources -> Existing \cup {New, None}] /\ reviews \in Seq(Reviews)
  BY DEF TypeInv, TypeOK
<1> HIDE DEF s
<1>3. CASE CommitReview(a)
  <2>1. /\ txn[a].result.cands \in SUBSET Existing
        /\ UpsertReview(s, txn[a].found, txn[a].result.cands)
        /\ UNCHANGED status
        /\ link' = IF txn[a].link = New THEN [link EXCEPT ![s] = None] ELSE link
    BY <1>1, <1>3 DEF CommitReview, s
  <2>2. RowsStay /\ status' \in [Mosques -> Statuses \cup {"absent"}]
    BY <2>1, SameStatus
  <2>3. ReviewsGrow /\ CandsOK'
    BY <1>1, <2>1, <2>2, UpsertedCands
  <2>4. link' \in [Sources -> Existing' \cup {New, None}]
    BY <1>2, <2>1, <2>2 DEF RowsStay
  <2> QED
    BY <1>0, <2>2, <2>3, <2>4, CloseStep
<1>4. CASE CommitMatch(a)
  <2>0. /\ txn[a].result.to \in Existing
        /\ Resolve(txn[a].found, txn[a].result.to)
        /\ UNCHANGED status
        /\ link' = [link EXCEPT ![s] = txn[a].result.to]
    BY <1>1, <1>4 DEF CommitMatch, s
  <2>1. /\ txn[a].result.to \in Existing
        /\ Decide(txn[a].found, "accepted")
        /\ UNCHANGED status
        /\ link' = [link EXCEPT ![s] = txn[a].result.to]
    BY <1>1, <1>2, <2>0, ResolveDecides
  <2>2. RowsStay /\ status' \in [Mosques -> Statuses \cup {"absent"}]
    BY <2>1, SameStatus
  <2>3. ReviewsGrow /\ CandsOK'
    BY <2>1, <2>2, DecidedCands
  <2>4. link' \in [Sources -> Existing' \cup {New, None}]
    BY <1>2, <2>1, <2>2 DEF RowsStay
  <2> QED
    BY <1>0, <2>2, <2>3, <2>4, CloseStep
<1>5. CASE CommitCreate(a)
  <2>1. UNCHANGED reviews
    BY <1>5 DEF CommitCreate
  <2>2. PICK m \in Mosques : /\ status' = [status EXCEPT ![m] = "needs_review"]
                             /\ link' = [link EXCEPT ![s] = m]
    BY <1>5 DEF CommitCreate, s
  <2>3. /\ RowsStay /\ status' \in [Mosques -> Statuses \cup {"absent"}]
        /\ m \in Existing'
    <3>1. /\ status' = [n \in Mosques |-> IF n \in {m} THEN "needs_review" ELSE status[n]]
          /\ {m} \in SUBSET Mosques /\ "needs_review" \in Statuses
      BY <2>2, OneStatus DEF Statuses
    <3> QED
      BY <3>1, StatusStep
  <2>4. ReviewsGrow /\ CandsOK'
    BY <2>1, <2>3, SameCands
  <2>5. link' \in [Sources -> Existing' \cup {New, None}]
    BY <1>2, <2>2, <2>3 DEF RowsStay
  <2> QED
    BY <1>0, <2>3, <2>4, <2>5, CloseStep
<1>6. CASE CommitKnown(a)
  <2>0. /\ txn[a].link \in Existing
        /\ Resolve(txn[a].found, txn[a].link) /\ UNCHANGED <<status, link>>
    BY <1>1, <1>6 DEF CommitKnown
  <2>1. Decide(txn[a].found, "accepted") /\ UNCHANGED <<status, link>>
    BY <1>1, <1>2, <2>0, ResolveDecides
  <2>2. RowsStay /\ status' \in [Mosques -> Statuses \cup {"absent"}]
    BY <2>1, SameStatus
  <2>3. ReviewsGrow /\ CandsOK'
    BY <2>1, <2>2, DecidedCands
  <2>4. link' \in [Sources -> Existing' \cup {New, None}]
    BY <1>2, <2>1, <2>2 DEF RowsStay
  <2> QED
    BY <1>0, <2>2, <2>3, <2>4, CloseStep
<1> QED
  BY <1>3, <1>4, <1>5, <1>6

\* What is picked are mosques with rows, for pending reviews.
LEMMA PicksFacts ==
  ASSUME TypeInv, NEW picks \in Picks
  PROVE  /\ DOMAIN picks \subseteq DOMAIN reviews
         /\ \A i \in DOMAIN picks : picks[i] \in Existing
<1>1. Pending \subseteq DOMAIN reviews /\ Existing \subseteq Mosques
  BY DEF Pending, Existing
<1>2. \A i \in Pending : reviews[i].cands \subseteq Existing
  BY <1>1 DEF TypeInv, CandsOK
<1>3. ASSUME NEW i \in Pending, picks \in [{i} -> reviews[i].cands]
      PROVE  DOMAIN picks \subseteq DOMAIN reviews /\ \A j \in DOMAIN picks : picks[j] \in Existing
  BY <1>1, <1>2, <1>3
<1>4. ASSUME NEW R \in SUBSET {i \in Pending : Cardinality(reviews[i].cands) = 1},
             picks = [i \in R |-> CHOOSE m \in Mosques : reviews[i].cands = {m}]
      PROVE  DOMAIN picks \subseteq DOMAIN reviews /\ \A j \in DOMAIN picks : picks[j] \in Existing
  <2>1. ASSUME NEW i \in R
        PROVE  picks[i] \in Existing
    <3>1. /\ i \in Pending /\ Cardinality(reviews[i].cands) = 1
          /\ reviews[i].cands \subseteq Existing
      BY <1>2
    <3>2. IsFiniteSet(reviews[i].cands)
      BY <1>1, <3>1, FS_Subset, IdentityAssumption DEF IdentityAssumption
    <3>3. PICK m : reviews[i].cands = {m}
      BY <3>1, <3>2, FS_Singleton
    <3>4. m \in Mosques /\ picks[i] = CHOOSE n \in Mosques : reviews[i].cands = {n}
      BY <1>1, <1>4, <3>1, <3>3
    <3>5. reviews[i].cands = {picks[i]}
      BY <3>3, <3>4
    <3> QED
      BY <3>1, <3>5
  <2> QED
    BY <1>1, <1>4, <2>1
<1>5. \/ \E i \in Pending : picks \in [{i} -> reviews[i].cands]
      \/ \E R \in SUBSET {i \in Pending : Cardinality(reviews[i].cands) = 1} :
           picks = [i \in R |-> CHOOSE m \in Mosques : reviews[i].cands = {m}]
  <2> DEFINE A == {[{i} -> reviews[i].cands] : i \in Pending}
             B == {[i \in R |-> CHOOSE m \in Mosques : reviews[i].cands = {m}] :
                     R \in SUBSET {i \in Pending : Cardinality(reviews[i].cands) = 1}}
  <2>1. picks \in (UNION A) \cup B
    BY DEF Picks
  <2>2. CASE picks \in UNION A
    <3>1. PICK F \in A : picks \in F
      BY <2>2
    <3> QED
      BY <3>1
  <2>3. CASE picks \in B
    BY <2>3
  <2> QED
    BY <2>1, <2>2, <2>3
<1> QED
  BY <1>3, <1>4, <1>5

\* What the transaction of an administrator holds.
LEMMA AdminFacts ==
  ASSUME TypeInv, NEW a \in Admins
  PROVE  /\ txn[a].at = "accepting" =>
              /\ DOMAIN txn[a].picks \subseteq DOMAIN reviews
              /\ \A i \in DOMAIN txn[a].picks : txn[a].picks[i] \in Existing
         /\ txn[a].at = "merging" => /\ txn[a].into \in Existing
                                     /\ txn[a].duplicate \in Mosques
                                     /\ txn[a].sources \subseteq Sources
         /\ txn[a].at = "activating" => txn[a].mosques \in SUBSET Mosques
<1>1. AdminTxn(txn[a]) /\ TxnRows(txn[a])
  BY DEF TypeInv, TxnsOK
<1> QED
  BY <1>1 DEF AdminTxn, TxnRows, NoTxn

LEMMA AdminReadType ==
  ASSUME TypeInv, NEW a \in Admins,
         ReadToAccept(a) \/ ReadToReject(a) \/ ReadToMerge(a) \/ ReadToActivate(a)
  PROVE  TypeInv'
<1>0. a \in Actors /\ a \notin Importers /\ UNCHANGED <<status, link, reviews, events>>
  BY Apart DEF ReadToAccept, ReadToReject, ReadToMerge, ReadToActivate
<1>1. ASSUME NEW t, Begin(a, t), AdminTxn(t), TxnRows(t)
      PROVE  TypeInv'
  BY <1>0, <1>1, BeginStep DEF Begin
<1>2. CASE ReadToAccept(a)
  <2>1. PICK picks \in Picks : Begin(a, [at |-> "accepting", picks |-> picks])
    BY <1>2 DEF ReadToAccept
  <2> DEFINE t == [at |-> "accepting", picks |-> picks]
  <2>2. AdminTxn(t) /\ TxnRows(t)
    BY PicksFacts DEF AdminTxn, TxnRows, Existing
  <2> QED
    BY <1>1, <2>1, <2>2
<1>3. CASE ReadToReject(a)
  <2>1. PICK i \in Pending : Begin(a, [at |-> "rejecting", review |-> i])
    BY <1>3 DEF ReadToReject
  <2> DEFINE t == [at |-> "rejecting", review |-> i]
  <2>2. AdminTxn(t) /\ TxnRows(t)
    BY DEF AdminTxn, TxnRows, Pending
  <2> QED
    BY <1>1, <2>1, <2>2
<1>4. CASE ReadToMerge(a)
  <2>1. PICK canonical \in Existing, duplicate \in Existing :
          Begin(a, [at |-> "merging", into |-> canonical, duplicate |-> duplicate,
                    sources |-> Of(duplicate), was |-> status[duplicate]])
    BY <1>4 DEF ReadToMerge
  <2> DEFINE t == [at |-> "merging", into |-> canonical, duplicate |-> duplicate,
                   sources |-> Of(duplicate), was |-> status[duplicate]]
  <2>2. AdminTxn(t) /\ TxnRows(t)
    BY DEF AdminTxn, TxnRows, Existing, Of
  <2> QED
    BY <1>1, <2>1, <2>2
<1>5. CASE ReadToActivate(a)
  <2>1. PICK M \in SUBSET Activatable : Begin(a, [at |-> "activating", mosques |-> M])
    BY <1>5 DEF ReadToActivate
  <2> DEFINE t == [at |-> "activating", mosques |-> M]
  <2>2. AdminTxn(t) /\ TxnRows(t)
    BY DEF AdminTxn, TxnRows, Activatable, Existing
  <2> QED
    BY <1>1, <2>1, <2>2
<1> QED
  BY <1>2, <1>3, <1>4, <1>5

LEMMA DecisionType ==
  ASSUME TypeInv, NEW a \in Admins,
         Accept(a) \/ Reject(a) \/ Merge(a) \/ Activate(a)
  PROVE  TypeInv'
<1>0. /\ a \in Actors /\ End(a)
      /\ events' \in 0..MaxEvents
      /\ link \in [Sources -> Existing \cup {New, None}]
      /\ reviews \in Seq(Reviews) /\ Existing \subseteq Mosques
  BY Apart DEF Accept, Reject, Merge, Activate, TypeInv, TypeOK, Existing
<1>1. CASE Accept(a)
  <2>1. /\ txn[a].at = "accepting"
        /\ UNCHANGED status
        /\ Decide(DOMAIN txn[a].picks, "accepted")
    <3>1. /\ txn[a].at = "accepting" /\ UNCHANGED status
          /\ Rewrite([i \in DOMAIN txn[a].picks |-> Accepted(i, txn[a].picks[i])])
      BY <1>1 DEF Accept
    <3>2. \A i \in DOMAIN txn[a].picks : txn[a].picks[i] \in Mosques
      BY <1>0, <3>1, AdminFacts
    <3> QED
      BY <1>0, <3>1, <3>2, AcceptDecides
  <2>2. RowsStay /\ status' \in [Mosques -> Statuses \cup {"absent"}]
    BY <2>1, SameStatus
  <2>3. ReviewsGrow /\ CandsOK'
    BY <2>1, <2>2, DecidedCands
  <2> DEFINE Sourced(s) == {i \in DOMAIN txn[a].picks : reviews[i].src = s}
  <2>4. link' = [s \in Sources |-> IF Sourced(s) = {} THEN link[s]
                                   ELSE txn[a].picks[CHOOSE i \in Sourced(s) : TRUE]]
    BY <1>1 DEF Accept
  <2>5. \A s \in Sources : Sourced(s) # {} =>
          txn[a].picks[CHOOSE i \in Sourced(s) : TRUE] \in Existing
    BY <2>1, AdminFacts
  <2> HIDE DEF Sourced
  <2>6. link' \in [Sources -> Existing' \cup {New, None}]
    BY <1>0, <2>2, <2>4, <2>5 DEF RowsStay
  <2> QED
    BY <1>0, <2>2, <2>3, <2>6, CloseStep
<1>2. CASE Reject(a)
  <2>1. Decide({txn[a].review}, "rejected") /\ UNCHANGED <<status, link>>
    BY <1>0, <1>2, RejectDecides DEF Reject
  <2>2. RowsStay /\ status' \in [Mosques -> Statuses \cup {"absent"}]
    BY <2>1, SameStatus
  <2>3. ReviewsGrow /\ CandsOK'
    BY <2>1, <2>2, DecidedCands
  <2>4. link' \in [Sources -> Existing' \cup {New, None}]
    BY <1>0, <2>1, <2>2 DEF RowsStay
  <2> QED
    BY <1>0, <2>2, <2>3, <2>4, CloseStep
<1>3. CASE Merge(a)
  <2>1. /\ txn[a].into \in Existing /\ txn[a].duplicate \in Mosques
        /\ link' = [s \in Sources |-> IF s \in txn[a].sources THEN txn[a].into ELSE link[s]]
        /\ \/ UNCHANGED status
           \/ status' = [status EXCEPT ![txn[a].duplicate] = "duplicate"]
    BY <1>3, AdminFacts DEF Merge
  <2>2. RowsStay /\ status' \in [Mosques -> Statuses \cup {"absent"}]
    <3>1. CASE UNCHANGED status
      BY <3>1, SameStatus
    <3>2. CASE status' = [status EXCEPT ![txn[a].duplicate] = "duplicate"]
      <4>1. /\ status' = [n \in Mosques |->
                            IF n \in {txn[a].duplicate} THEN "duplicate" ELSE status[n]]
            /\ {txn[a].duplicate} \in SUBSET Mosques /\ "duplicate" \in Statuses
        BY <2>1, <3>2, OneStatus DEF Statuses
      <4> QED
        BY <4>1, StatusStep
    <3> QED
      BY <2>1, <3>1, <3>2
  <2>3. ReviewsGrow /\ CandsOK'
    <3>1. PICK R : Rewrite([i \in R |-> [reviews[i] EXCEPT !.proposed = txn[a].into]])
      BY <1>3 DEF Merge
    <3>2. Decide({}, "accepted")
      BY <1>0, <2>1, <3>1, MergeDecides
    <3> QED
      BY <2>2, <3>2, DecidedCands
  <2>4. link' \in [Sources -> Existing' \cup {New, None}]
    BY <1>0, <2>1, <2>2 DEF RowsStay
  <2> QED
    BY <1>0, <2>2, <2>3, <2>4, CloseStep
<1>4. CASE Activate(a)
  <2>1. /\ txn[a].mosques \in SUBSET Mosques /\ "active" \in Statuses
        /\ UNCHANGED <<link, reviews>>
        /\ status' = [m \in Mosques |-> IF m \in txn[a].mosques THEN "active" ELSE status[m]]
    BY <1>4, AdminFacts DEF Activate, Statuses
  <2>2. RowsStay /\ status' \in [Mosques -> Statuses \cup {"absent"}]
    BY <2>1, StatusStep
  <2>3. ReviewsGrow /\ CandsOK'
    BY <2>1, <2>2, SameCands
  <2>4. link' \in [Sources -> Existing' \cup {New, None}]
    BY <1>0, <2>1, <2>2 DEF RowsStay
  <2> QED
    BY <1>0, <2>2, <2>3, <2>4, CloseStep
<1> QED
  BY <1>1, <1>2, <1>3, <1>4

\* Changes that need no transaction of their own.
LEMMA DirectType ==
  ASSUME TypeInv, NEW a \in Admins,
         CreateMosque(a) \/ UpdateMosque(a) \/ AttachSource(a)
  PROVE  TypeInv'
<1>0. /\ events' \in 0..MaxEvents /\ UNCHANGED <<reviews, txn>>
      /\ link \in [Sources -> Existing \cup {New, None}]
  BY EventType DEF CreateMosque, UpdateMosque, AttachSource, TypeInv, TypeOK
<1>1. ASSUME RowsStay, status' \in [Mosques -> Statuses \cup {"absent"}],
             link' \in [Sources -> Existing' \cup {New, None}]
      PROVE  TypeInv'
  <2>1. ReviewsGrow /\ CandsOK'
    BY <1>0, <1>1, SameCands
  <2>2. TxnsOK'
    BY <1>0, <1>1, <2>1, IdleStep
  <2> QED
    BY <1>0, <1>1, <2>1, <2>2 DEF TypeInv, TypeOK, TxnsOK, ReviewsGrow
<1>2. CASE CreateMosque(a) \/ UpdateMosque(a)
  <2>1. PICK m \in Mosques, st \in Statuses : status' = [status EXCEPT ![m] = st]
    BY <1>2 DEF CreateMosque, UpdateMosque, Existing
  <2>2. /\ status' = [n \in Mosques |-> IF n \in {m} THEN st ELSE status[n]]
        /\ {m} \in SUBSET Mosques
    BY <2>1, OneStatus
  <2>3. RowsStay /\ status' \in [Mosques -> Statuses \cup {"absent"}]
    BY <2>2, StatusStep
  <2>4. link' \in [Sources -> Existing' \cup {New, None}]
    BY <1>0, <1>2, <2>3 DEF CreateMosque, UpdateMosque, RowsStay
  <2> QED
    BY <1>1, <2>3, <2>4
<1>3. CASE AttachSource(a)
  <2>1. UNCHANGED status
    BY <1>3 DEF AttachSource
  <2>2. RowsStay /\ status' \in [Mosques -> Statuses \cup {"absent"}]
    BY <2>1, SameStatus
  <2>3. PICK s \in Sources, m \in Existing : link' = [link EXCEPT ![s] = m]
    BY <1>3 DEF AttachSource
  <2>4. link' \in [Sources -> Existing' \cup {New, None}]
    BY <1>0, <2>2, <2>3 DEF RowsStay
  <2> QED
    BY <1>1, <2>2, <2>4
<1> QED
  BY <1>2, <1>3

LEMMA FailType ==
  ASSUME TypeInv, NEW a \in Importers, ImportFails(a)
  PROVE  TypeInv'
<1>1. /\ a \in Actors /\ End(a) /\ events' \in 0..MaxEvents
      /\ UNCHANGED <<status, link, reviews>>
  BY Apart, EventType DEF ImportFails
<1>2. RowsStay /\ status' \in [Mosques -> Statuses \cup {"absent"}]
  BY <1>1, SameStatus
<1>3. ReviewsGrow /\ CandsOK'
  BY <1>1, <1>2, SameCands
<1>4. link' \in [Sources -> Existing' \cup {New, None}]
  BY <1>1, <1>2 DEF RowsStay, TypeInv, TypeOK
<1> QED
  BY <1>1, <1>2, <1>3, <1>4, CloseStep

\* At first there are no reviews and no transactions.
LEMMA InitType == ASSUME Init PROVE TypeInv
<1>1. \A a \in Actors : txn[a] = NoTxn
  BY DEF Init, Actors
<1>2. ImporterTxn(NoTxn) /\ AdminTxn(NoTxn) /\ TxnRows(NoTxn)
  BY DEF ImporterTxn, AdminTxn, TxnRows, NoTxn
<1>3. TxnsOK
  BY <1>1, <1>2, Apart DEF TxnsOK, Init, Actors
<1>4. reviews \in Seq(Reviews) /\ CandsOK
  BY DEF Init, CandsOK
<1>5. /\ status \in [Mosques -> Statuses \cup {"absent"}]
      /\ link \in [Sources -> Existing \cup {New, None}]
      /\ events \in 0..MaxEvents
  BY IdentityAssumption DEF Init, Statuses, IdentityAssumption
<1> QED
  BY <1>3, <1>4, <1>5 DEF TypeInv, TypeOK, TxnsOK

\* Every step keeps the types.
LEMMA NextType == ASSUME TypeInv, [Next]_vars PROVE TypeInv'
<1>1. CASE UNCHANGED vars
  <2>1. RowsStay /\ status' \in [Mosques -> Statuses \cup {"absent"}] /\ UNCHANGED <<reviews, txn>>
    BY <1>1, SameStatus DEF vars
  <2>2. ReviewsGrow /\ CandsOK'
    BY <2>1, SameCands
  <2>3. TxnsOK'
    BY <2>1, <2>2, IdleStep
  <2>4. link' \in [Sources -> Existing' \cup {New, None}] /\ events' \in 0..MaxEvents
    BY <1>1, <2>1 DEF vars, RowsStay, TypeInv, TypeOK
  <2> QED
    BY <2>1, <2>2, <2>3, <2>4 DEF TypeInv, TypeOK, TxnsOK, ReviewsGrow
<1>2. ASSUME NEW a \in Importers, Import(a)
      PROVE  TypeInv'
  BY <1>2, ReadType, WriteType, CommitType, FailType DEF Import
<1>3. ASSUME NEW a \in Admins, Review(a) \/ Curate(a)
      PROVE  TypeInv'
  BY <1>3, AdminReadType, DecisionType, DirectType DEF Review, Curate
<1> QED
  BY <1>1, <1>2, <1>3 DEF Next

\* The types of Identity hold in every behaviour; in particular no source and
\* no open transaction names a mosque that has no row.
THEOREM IdentityTypes == Spec => []TypeOK
<1>1. TypeInv /\ [Next]_vars => TypeInv'
  BY NextType
<1>2. TypeInv => TypeOK
  BY DEF TypeInv
<1> QED
  BY InitType, <1>1, <1>2, PTL DEF Spec

-----------------------------------------------------------------------------
(* What the lock on a source's row is good for. *)

\* At most one review of the source is pending, and one remains if it has no mosque.
Good(s) ==
  /\ \A i, j \in PendingOf(s) : i = j
  /\ link[s] = None =>
       \E i \in DOMAIN reviews : reviews[i].src = s /\ reviews[i].status \in {"pending", "rejected"}

\* What an importer that holds the row of its source may rely on.
RowHeld(a) ==
  /\ PendingOf(txn[a].src) \subseteq txn[a].found
  /\ \A i \in txn[a].found :
       reviews[i].src = txn[a].src /\ reviews[i].status \in {"pending", "rejected"}
  /\ txn[a].link = New => link[txn[a].src] = New
  /\ txn[a].result.kind = "known" <=> txn[a].link \in Mosques

HoldInv ==
  /\ \A a, b \in Importers :
       txn[a].at = "written" /\ txn[b].at = "written" /\ txn[a].src = txn[b].src => a = b
  /\ \A a \in Importers : txn[a].at = "written" => RowHeld(a)
  /\ \A a \in Importers :
       txn[a].at \in {"read", "written"} /\ txn[a].link \in Mosques => Linked(txn[a].src)

IdentityInv == TypeInv /\ HoldInv /\ \A s \in Sources : Good(s)

\* A step that leaves the source alone: at most, reviews of it are rejected.
Spares(s) ==
  /\ link'[s] = link[s]
  /\ \A i \in DOMAIN reviews' : reviews'[i].src = s =>
       i \in DOMAIN reviews /\ reviews'[i].status \in {reviews[i].status, "rejected"}

\* A step that gives the source a mosque: at most, reviews of it are accepted.
Settles(s) ==
  /\ link'[s] \in Mosques
  /\ \A i \in DOMAIN reviews' : reviews'[i].src = s =>
       i \in DOMAIN reviews /\ reviews'[i].status \in {reviews[i].status, "accepted"}

LEMMA SparedGood ==
  ASSUME ReviewsGrow, NEW s \in Sources, Good(s), Spares(s)
  PROVE  Good(s)'
<1>1. PendingOf(s)' \subseteq PendingOf(s)
  BY DEF Spares, PendingOf, Pending, ReviewsGrow
<1>2. ASSUME link'[s] = None
      PROVE  \E i \in DOMAIN reviews' :
               reviews'[i].src = s /\ reviews'[i].status \in {"pending", "rejected"}
  <2>1. PICK i \in DOMAIN reviews :
          reviews[i].src = s /\ reviews[i].status \in {"pending", "rejected"}
    BY <1>2 DEF Spares, Good
  <2> QED
    BY <2>1 DEF Spares, ReviewsGrow
<1> QED
  BY <1>1, <1>2 DEF Good

LEMMA SettledGood ==
  ASSUME ReviewsGrow, NEW s \in Sources, Good(s), Settles(s)
  PROVE  Good(s)'
<1>1. PendingOf(s)' \subseteq PendingOf(s)
  BY DEF Settles, PendingOf, Pending, ReviewsGrow
<1>2. link'[s] # None
  BY IdentityAssumption DEF Settles, IdentityAssumption
<1> QED
  BY <1>1, <1>2 DEF Good

\* A transaction goes on relying on the row it holds, if the step spares it.
LEMMA SparedHeld ==
  ASSUME TypeInv, ReviewsGrow, NEW b \in Importers, txn[b].at = "written", txn'[b] = txn[b],
         RowHeld(b), Spares(txn[b].src)
  PROVE  RowHeld(b)'
<1>1. PendingOf(txn[b].src)' \subseteq PendingOf(txn[b].src)
  BY DEF Spares, PendingOf, Pending, ReviewsGrow
<1>2. \A i \in txn[b].found : /\ reviews'[i].src = txn[b].src
                              /\ reviews'[i].status \in {"pending", "rejected"}
  BY WrittenFacts DEF RowHeld, Spares, ReviewsGrow
<1>3. PendingOf(txn[b].src)' = {i \in DOMAIN reviews' : /\ reviews'[i].status = "pending"
                                                        /\ reviews'[i].src = txn[b].src}
  BY DEF PendingOf, Pending
<1> QED
  BY <1>1, <1>2, <1>3 DEF RowHeld, Spares, PendingOf, Pending

\* A step that begins or ends transactions, and what it may do to which sources.
LEMMA SteadyStep ==
  ASSUME IdentityInv, ReviewsGrow,
         \A b \in Importers :
           \/ txn'[b] = txn[b]
           \/ /\ txn'[b].at # "written"
              /\ txn'[b].at = "read" /\ txn'[b].link \in Mosques => Linked(txn[b].src)',
         \A s \in Sources :
           \/ Spares(s)
           \/ /\ Good(s)'
              /\ Linked(s) => Linked(s)'
              /\ \A b \in Importers : txn'[b].at = "written" => txn'[b].src # s
  PROVE  HoldInv' /\ \A s \in Sources : Good(s)'
<1>1. \A s \in Sources : Good(s)'
  BY SparedGood DEF IdentityInv
<1>2. \A s \in Sources : Linked(s) => Linked(s)'
  BY DEF Spares, Linked
<1>3. ASSUME NEW b \in Importers, txn'[b].at = "written"
      PROVE  RowHeld(b)'
  <2>1. txn'[b] = txn[b] /\ txn[b].at = "written"
    BY <1>3
  <2>2. txn[b].src \in Sources
    BY <2>1, WrittenFacts DEF IdentityInv
  <2>3. Spares(txn[b].src)
    BY <1>3, <2>1, <2>2
  <2> QED
    BY <2>1, <2>3, SparedHeld DEF IdentityInv, HoldInv
<1>4. ASSUME NEW b \in Importers, txn'[b].at \in {"read", "written"}, txn'[b].link \in Mosques
      PROVE  Linked(txn[b].src)'
  <2>1. CASE txn'[b] = txn[b]
    <3>1. ImporterTxn(txn[b])
      BY DEF IdentityInv, TypeInv, TxnsOK
    <3>2. txn[b].src \in Sources
      BY <1>4, <2>1, <3>1 DEF ImporterTxn, NoTxn
    <3>3. Linked(txn[b].src)
      BY <1>4, <2>1 DEF IdentityInv, HoldInv
    <3> QED
      BY <1>2, <2>1, <3>2, <3>3
  <2>2. CASE txn'[b] # txn[b]
    BY <1>4, <2>2
  <2> QED
    BY <2>1, <2>2
<1>5. \A b, c \in Importers :
        txn'[b].at = "written" /\ txn'[c].at = "written" /\ txn'[b].src = txn'[c].src => b = c
  BY DEF IdentityInv, HoldInv
<1> QED
  BY <1>1, <1>3, <1>4, <1>5 DEF HoldInv, Linked

\* Reviews and links that are not touched are spared.
LEMMA AllSpared ==
  ASSUME TypeInv, UNCHANGED <<link, reviews>>
  PROVE  ReviewsGrow /\ \A s \in Sources : Spares(s)
BY SameReviews DEF TypeInv, TypeOK, Spares

\* A decision spares the sources of other reviews; a rejection spares all.
LEMMA DecideSpares ==
  ASSUME NEW R, NEW verdict \in {"accepted", "rejected"}, Decide(R, verdict),
         NEW s \in Sources, link'[s] = link[s],
         verdict = "rejected" \/ \A i \in R \cap DOMAIN reviews : reviews[i].src # s
  PROVE  Spares(s)
BY DEF Decide, Spares, ReviewsGrow

\* A source that has a mosque afterwards may have its reviews accepted.
LEMMA DecideSettles ==
  ASSUME NEW R, Decide(R, "accepted"), NEW s \in Sources, link'[s] \in Mosques
  PROVE  Settles(s)
BY DEF Decide, Settles, ReviewsGrow

\* Of the transactions, only the one that ends is touched.
LEMMA Ended ==
  ASSUME TypeInv, NEW a \in Actors, End(a)
  PROVE  \A b \in Importers : txn'[b] = IF b = a THEN NoTxn ELSE txn[b]
BY DEF TypeInv, TxnsOK, End, Actors

\* A review, created or rewritten, keeps its source in sight, alone.
LEMMA UpsertedGood ==
  ASSUME TypeInv, NEW s \in Sources, NEW found \in SUBSET DOMAIN reviews,
         NEW cands \in SUBSET Mosques, UpsertReview(s, found, cands), Good(s),
         PendingOf(s) \subseteq found,
         \A i \in found : reviews[i].src = s /\ reviews[i].status \in {"pending", "rejected"},
         \A r \in Sources \ {s} : link'[r] = link[r]
  PROVE  ReviewsGrow /\ Good(s)' /\ \A r \in Sources \ {s} : Spares(r)
<1>1. reviews \in Seq(Reviews)
  BY DEF TypeInv, TypeOK
<1>2. /\ ReviewsGrow
      /\ \A i \in DOMAIN reviews : reviews'[i].status = reviews[i].status
      /\ found # {} => DOMAIN reviews' = DOMAIN reviews
      /\ found = {} => \E n :
           /\ n \notin DOMAIN reviews
           /\ DOMAIN reviews' = DOMAIN reviews \cup {n}
           /\ reviews'[n] = [src |-> s, cands |-> cands, proposed |-> None, status |-> "pending"]
  BY <1>1, UpsertFacts
<1>3. CASE found # {}
  <2>1. \A r \in Sources \ {s} : Spares(r)
    BY <1>2, <1>3 DEF Spares
  <2>2. \A i, j \in DOMAIN reviews' :
          /\ reviews'[i].status = "pending" /\ reviews'[i].src = s
          /\ reviews'[j].status = "pending" /\ reviews'[j].src = s
          => i = j
    BY <1>2, <1>3 DEF Good, PendingOf, Pending, ReviewsGrow
  <2>3. \E i \in DOMAIN reviews' :
          reviews'[i].src = s /\ reviews'[i].status \in {"pending", "rejected"}
    BY <1>2, <1>3 DEF ReviewsGrow
  <2> QED
    BY <1>2, <2>1, <2>2, <2>3 DEF Good, PendingOf, Pending
<1>4. CASE found = {}
  <2>1. PICK n : /\ n \notin DOMAIN reviews
                 /\ DOMAIN reviews' = DOMAIN reviews \cup {n}
                 /\ reviews'[n] = [src |-> s, cands |-> cands, proposed |-> None, status |-> "pending"]
    BY <1>2, <1>4
  <2>2. reviews'[n].src = s /\ reviews'[n].status = "pending" /\ n \in DOMAIN reviews'
    BY <2>1
  <2>3. \A r \in Sources \ {s} : Spares(r)
    BY <1>2, <2>1, <2>2 DEF Spares
  <2>4. \A i \in DOMAIN reviews' : reviews'[i].status = "pending" /\ reviews'[i].src = s => i = n
    BY <1>2, <1>4, <2>1 DEF PendingOf, Pending, ReviewsGrow
  <2> QED
    BY <1>2, <2>2, <2>3, <2>4 DEF Good, PendingOf, Pending
<1> QED
  BY <1>3, <1>4

\* What a commit ends, and for whom.
LEMMA CommitEnds ==
  ASSUME IdentityInv, NEW a \in Importers, txn[a].at = "written", End(a)
  PROVE  \A b \in Importers :
           /\ txn'[b] = txn[b] \/ txn'[b].at = "idle"
           /\ txn'[b].at = "written" => txn'[b].src # txn[a].src
<1>1. a \in Actors
  BY Apart
<1>2. \A b \in Importers : txn'[b] = IF b = a THEN NoTxn ELSE txn[b]
  BY <1>1, Ended DEF IdentityInv
<1> QED
  BY <1>2 DEF IdentityInv, HoldInv, NoTxn

LEMMA CommitInv ==
  ASSUME IdentityInv, NEW a \in Importers,
         CommitReview(a) \/ CommitMatch(a) \/ CommitCreate(a) \/ CommitKnown(a)
  PROVE  HoldInv' /\ \A s \in Sources : Good(s)'
<1>0. PICK s \in Sources : s = txn[a].src
  BY WrittenFacts DEF IdentityInv, CommitReview, CommitMatch, CommitCreate, CommitKnown
<1>1. /\ txn[a].at = "written" /\ End(a)
      /\ Good(s) /\ RowHeld(a)
      /\ link \in [Sources -> Existing \cup {New, None}]
      /\ reviews \in Seq(Reviews)
  BY <1>0 DEF CommitReview, CommitMatch, CommitCreate, CommitKnown, IdentityInv, HoldInv,
              TypeInv, TypeOK
<1>2. \A b \in Importers :
        /\ txn'[b] = txn[b] \/ txn'[b].at = "idle"
        /\ txn'[b].at = "written" => txn'[b].src # s
  BY <1>0, <1>1, CommitEnds
<1>3. /\ txn[a].found \in SUBSET DOMAIN reviews
      /\ PendingOf(s) \subseteq txn[a].found
      /\ \A i \in txn[a].found : reviews[i].src = s /\ reviews[i].status \in {"pending", "rejected"}
      /\ txn[a].link = New => link[s] = New
  BY <1>0, <1>1, WrittenFacts DEF RowHeld, IdentityInv
<1>4. ASSUME ReviewsGrow, Good(s)', Linked(s) => Linked(s)', \A r \in Sources \ {s} : Spares(r)
      PROVE  HoldInv' /\ \A r \in Sources : Good(r)'
  BY <1>2, <1>4, SteadyStep
<1>5. CASE CommitReview(a)
  <2>1. /\ txn[a].result.cands \in SUBSET Mosques
        /\ UpsertReview(s, txn[a].found, txn[a].result.cands)
        /\ link' = IF txn[a].link = New THEN [link EXCEPT ![s] = None] ELSE link
    BY <1>0, <1>1, <1>5, WrittenFacts DEF CommitReview, IdentityInv, Existing
  <2>2. \A r \in Sources \ {s} : link'[r] = link[r]
    BY <1>1, <2>1
  <2>3. ReviewsGrow /\ Good(s)' /\ \A r \in Sources \ {s} : Spares(r)
    <3> DEFINE found == txn[a].found
               cands == txn[a].result.cands
    <3>1. /\ found \in SUBSET DOMAIN reviews
          /\ cands \in SUBSET Mosques
          /\ UpsertReview(s, found, cands)
          /\ PendingOf(s) \subseteq found
          /\ \A i \in found : reviews[i].src = s /\ reviews[i].status \in {"pending", "rejected"}
      BY <1>3, <2>1
    <3>2. TypeInv /\ Good(s)
      BY <1>1 DEF IdentityInv
    <3> HIDE DEF found, cands
    <3> QED
      BY <2>2, <3>1, <3>2, UpsertedGood
  <2>4. Linked(s) => Linked(s)'
    BY <1>1, <1>3, <2>1, IdentityAssumption DEF Linked, IdentityAssumption
  <2> QED
    BY <1>4, <2>3, <2>4
<1>6. CASE CommitMatch(a) \/ CommitKnown(a)
  <2>1. Decide(txn[a].found, "accepted")
    <3>1. CASE CommitMatch(a)
      <4>1. txn[a].result.to \in Mosques /\ Resolve(txn[a].found, txn[a].result.to)
        BY <1>0, <1>1, <3>1, WrittenFacts DEF CommitMatch, IdentityInv, Existing
      <4> QED
        BY <1>1, <4>1, ResolveDecides DEF IdentityInv, TypeInv, TypeOK
    <3>2. CASE CommitKnown(a)
      <4>1. txn[a].link \in Mosques /\ Resolve(txn[a].found, txn[a].link)
        BY <1>0, <1>1, <3>2, WrittenFacts DEF CommitKnown, IdentityInv, Existing
      <4> QED
        BY <1>1, <4>1, ResolveDecides DEF IdentityInv, TypeInv, TypeOK
    <3> QED
      BY <1>6, <3>1, <3>2
  <2>2. link'[s] \in Mosques /\ \A r \in Sources \ {s} : link'[r] = link[r]
    <3>1. CASE CommitMatch(a)
      <4>1. txn[a].result.to \in Mosques /\ link' = [link EXCEPT ![s] = txn[a].result.to]
        BY <1>0, <1>1, <3>1, WrittenFacts DEF CommitMatch, IdentityInv, Existing
      <4> QED
        BY <1>1, <4>1
    <3>2. CASE CommitKnown(a)
      <4>1. txn[a].link \in Mosques /\ UNCHANGED link
        BY <1>1, <3>2 DEF CommitKnown, RowHeld
      <4> QED
        BY <1>0, <1>1, <4>1 DEF IdentityInv, HoldInv, Linked
    <3> QED
      BY <1>6, <3>1, <3>2
  <2>3. ReviewsGrow
    BY <2>1 DEF Decide
  <2>4. Good(s)'
    BY <1>1, <2>1, <2>2, <2>3, DecideSettles, SettledGood
  <2>5. \A r \in Sources \ {s} : Spares(r)
    BY <1>3, <2>1, <2>2, DecideSpares
  <2> QED
    BY <1>4, <2>2, <2>3, <2>4, <2>5 DEF Linked
<1>7. CASE CommitCreate(a)
  <2>1. PICK m \in Mosques : link' = [link EXCEPT ![s] = m] /\ UNCHANGED reviews
    BY <1>0, <1>7 DEF CommitCreate
  <2>2. link'[s] \in Mosques /\ \A r \in Sources \ {s} : link'[r] = link[r]
    BY <1>1, <2>1
  <2>3. ReviewsGrow
    BY <1>1, <2>1, SameReviews
  <2>4. Settles(s) /\ \A r \in Sources \ {s} : Spares(r)
    BY <2>1, <2>2 DEF Settles, Spares
  <2>5. Good(s)'
    BY <1>1, <2>3, <2>4, SettledGood
  <2> QED
    BY <1>4, <2>2, <2>3, <2>4, <2>5 DEF Linked
<1> QED
  BY <1>5, <1>6, <1>7

\* Steps that touch neither reviews nor links, and leave no new lock.
LEMMA QuietStep ==
  ASSUME IdentityInv, UNCHANGED <<link, reviews>>,
         \A b \in Importers :
           \/ txn'[b] = txn[b]
           \/ /\ txn'[b].at # "written"
              /\ txn'[b].at = "read" /\ txn'[b].link \in Mosques => Linked(txn[b].src)'
  PROVE  HoldInv' /\ \A s \in Sources : Good(s)'
BY AllSpared, SteadyStep DEF IdentityInv

LEMMA ReadInv ==
  ASSUME IdentityInv, NEW a \in Importers, NEW s \in Sources, ReadSource(a, s)
  PROVE  HoldInv' /\ \A r \in Sources : Good(r)'
<1> DEFINE t == [at |-> "read", src |-> s, link |-> link[s]]
<1>1. /\ UNCHANGED <<link, reviews>>
      /\ \A b \in Importers : txn'[b] = IF b = a THEN t ELSE txn[b]
  BY Apart DEF ReadSource, Begin, IdentityInv, TypeInv, TxnsOK, Actors
<1>2. t.at = "read" /\ t.src = s /\ t.link = link[s]
  OBVIOUS
<1> HIDE DEF t
<1>3. \A b \in Importers :
        \/ txn'[b] = txn[b]
        \/ /\ txn'[b].at # "written"
           /\ txn'[b].at = "read" /\ txn'[b].link \in Mosques => Linked(txn[b].src)'
  BY <1>1, <1>2 DEF Linked
<1> QED
  BY <1>1, <1>3, QuietStep

LEMMA FailInv ==
  ASSUME IdentityInv, NEW a \in Importers, End(a), UNCHANGED <<link, reviews>>
  PROVE  HoldInv' /\ \A s \in Sources : Good(s)'
<1>1. \A b \in Importers : txn'[b] = IF b = a THEN NoTxn ELSE txn[b]
  BY Apart, Ended DEF IdentityInv
<1> QED
  BY <1>1, QuietStep DEF NoTxn

\* The lock is taken, and then the reviews are read.
LEMMA WriteInv ==
  ASSUME IdentityInv, NEW a \in Importers, WriteSource(a)
  PROVE  HoldInv' /\ \A s \in Sources : Good(s)'
<1>1. UNCHANGED <<link, reviews>>
  BY DEF WriteSource
<1>2. CASE End(a)
  BY <1>1, <1>2, FailInv
<1>3. ASSUME ~Held(txn[a].src), ~(txn[a].link = New /\ link[txn[a].src] # New),
             NEW r \in Resolutions(txn[a].link),
             txn' = [txn EXCEPT ![a] = [at |-> "written", src |-> txn[a].src, link |-> @.link,
                                        result |-> r, found |-> PendingOf(txn[a].src)]]
      PROVE  HoldInv' /\ \A s \in Sources : Good(s)'
  <2> DEFINE t == [at |-> "written", src |-> txn[a].src, link |-> txn[a].link,
                   result |-> r, found |-> PendingOf(txn[a].src)]
  <2>1. \A b \in Importers : txn'[b] = IF b = a THEN t ELSE txn[b]
    BY <1>3, Apart DEF IdentityInv, TypeInv, TxnsOK, Actors
  <2>2. /\ t.at = "written" /\ t.src = txn[a].src /\ t.link = txn[a].link
        /\ t.result = r /\ t.found = PendingOf(txn[a].src)
    OBVIOUS
  <2> HIDE DEF t
  <2>3. \A s \in Sources : PendingOf(s)' = PendingOf(s) /\ Good(s)'
    BY <1>1 DEF PendingOf, Pending, Good, IdentityInv
  <2>4. \A b, c \in Importers :
          txn'[b].at = "written" /\ txn'[c].at = "written" /\ txn'[b].src = txn'[c].src => b = c
    BY <1>3, <2>1, <2>2 DEF Held, IdentityInv, HoldInv
  <2>5. r.kind = "known" <=> t.link \in Mosques
    BY <1>3, <2>2 DEF Resolutions
  <2>6. RowHeld(a)'
    <3>1. \A i \in PendingOf(txn[a].src) :
            reviews[i].src = txn[a].src /\ reviews[i].status = "pending"
      BY DEF PendingOf, Pending
    <3>2. txn'[a] = t
      BY <2>1
    <3> QED
      BY <1>1, <1>3, <2>2, <2>5, <3>1, <3>2 DEF RowHeld, PendingOf, Pending
  <2>7. \A b \in Importers : txn'[b].at = "written" => RowHeld(b)'
    <3>1. ASSUME NEW b \in Importers, b # a, txn[b].at = "written"
          PROVE  RowHeld(b)'
      <4>1. txn'[b] = txn[b] /\ RowHeld(b) /\ txn[b].src \in Sources
        BY <2>1, <3>1, WrittenFacts DEF IdentityInv, HoldInv
      <4>2. ReviewsGrow /\ Spares(txn[b].src)
        BY <1>1, <4>1, AllSpared DEF IdentityInv
      <4> QED
        BY <3>1, <4>1, <4>2, SparedHeld DEF IdentityInv
    <3> QED
      BY <2>1, <2>6, <3>1
  <2>8. \A b \in Importers : txn'[b].at \in {"read", "written"} /\ txn'[b].link \in Mosques =>
          link[txn'[b].src] \in Mosques
    BY <2>1, <2>2 DEF WriteSource, IdentityInv, HoldInv, Linked
  <2> QED
    BY <1>1, <2>3, <2>4, <2>7, <2>8 DEF HoldInv, Linked
<1> QED
  BY <1>2, <1>3 DEF WriteSource

\* What an administrator's step leaves of the importers' transactions.
LEMMA AdminEnds ==
  ASSUME TypeInv, NEW a \in Admins, NEW t, txn' = [txn EXCEPT ![a] = t]
  PROVE  \A b \in Importers : txn'[b] = txn[b]
BY Apart DEF TypeInv, TxnsOK, Actors

\* No source with a row that is held is given a mosque by an administrator.
LEMMA AdminStep ==
  ASSUME IdentityInv, ReviewsGrow, \A b \in Importers : txn'[b] = txn[b],
         \A s \in Sources : Spares(s) \/ (Settles(s) /\ ~Held(s))
  PROVE  HoldInv' /\ \A s \in Sources : Good(s)'
<1>1. ASSUME NEW s \in Sources, Settles(s), ~Held(s)
      PROVE  /\ Good(s)'
             /\ Linked(s) => Linked(s)'
             /\ \A b \in Importers : txn'[b].at = "written" => txn'[b].src # s
  <2>1. Good(s)'
    BY <1>1, SettledGood DEF IdentityInv
  <2>2. Linked(s)'
    BY <1>1 DEF Settles, Linked
  <2> QED
    BY <1>1, <2>1, <2>2 DEF Held
<1> QED
  BY <1>1, SteadyStep

LEMMA AdminInv ==
  ASSUME IdentityInv, NEW a \in Admins, Review(a) \/ Curate(a)
  PROVE  HoldInv' /\ \A s \in Sources : Good(s)'
<1>1. link \in [Sources -> Existing \cup {New, None}] /\ reviews \in Seq(Reviews)
  BY DEF IdentityInv, TypeInv, TypeOK
<1>2. \A b \in Importers : txn'[b] = txn[b]
  BY AdminEnds DEF Review, Curate, ReadToAccept, ReadToReject, ReadToMerge, ReadToActivate,
     Accept, Reject, Merge, Activate, CreateMosque, UpdateMosque, AttachSource,
     Begin, End, IdentityInv
<1>3. CASE UNCHANGED <<link, reviews>>
  BY <1>2, <1>3, QuietStep
<1>4. CASE Accept(a)
  <2> DEFINE picks == txn[a].picks
             Sourced(s) == {i \in DOMAIN picks : reviews[i].src = s}
  <2>1. /\ \A i \in DOMAIN picks : ~Held(reviews[i].src)
        /\ Rewrite([i \in DOMAIN picks |-> Accepted(i, picks[i])])
        /\ \A s \in Sources : link'[s] = IF Sourced(s) = {} THEN link[s]
                                         ELSE picks[CHOOSE i \in Sourced(s) : TRUE]
    BY <1>4 DEF Accept
  <2>2. \A i \in DOMAIN picks : picks[i] \in Mosques
    BY <1>4, AdminFacts DEF Accept, IdentityInv, Existing
  <2>3. Decide(DOMAIN picks, "accepted") /\ ReviewsGrow
    <3> HIDE DEF picks
    <3> QED
      BY <1>1, <2>1, <2>2, AcceptDecides DEF Decide
  <2>4. ASSUME NEW s \in Sources, Sourced(s) = {}
        PROVE  Spares(s)
    <3>1. link'[s] = link[s] /\ \A i \in DOMAIN picks \cap DOMAIN reviews : reviews[i].src # s
      BY <2>1, <2>4
    <3> QED
      BY <2>3, <3>1, DecideSpares
  <2>5. ASSUME NEW s \in Sources, Sourced(s) # {}
        PROVE  Settles(s) /\ ~Held(s)
    <3>1. PICK i \in DOMAIN picks : reviews[i].src = s
      BY <2>5
    <3>2. link'[s] \in Mosques
      BY <2>1, <2>2, <2>5
    <3> QED
      BY <2>1, <2>3, <3>1, <3>2, DecideSettles
  <2> HIDE DEF Sourced
  <2> QED
    BY <1>2, <2>3, <2>4, <2>5, AdminStep
<1>5. CASE Reject(a)
  <2>1. Decide({txn[a].review}, "rejected") /\ UNCHANGED link
    BY <1>1, <1>5, RejectDecides DEF Reject
  <2>2. ReviewsGrow
    BY <2>1 DEF Decide
  <2>3. \A s \in Sources : Spares(s)
    BY <2>1, DecideSpares
  <2> QED
    BY <1>2, <2>2, <2>3, AdminStep
<1>6. CASE Merge(a)
  <2>1. /\ txn[a].into \in Mosques
        /\ \A s \in txn[a].sources : ~Held(s)
        /\ link' = [s \in Sources |-> IF s \in txn[a].sources THEN txn[a].into ELSE link[s]]
    BY <1>6, AdminFacts DEF Merge, IdentityInv, Existing
  <2>2. Decide({}, "accepted") /\ ReviewsGrow
    <3>1. PICK R : Rewrite([i \in R |-> [reviews[i] EXCEPT !.proposed = txn[a].into]])
      BY <1>6 DEF Merge
    <3> QED
      BY <1>1, <2>1, <3>1, MergeDecides DEF Decide
  <2>3. ASSUME NEW s \in Sources
        PROVE  Spares(s) \/ (Settles(s) /\ ~Held(s))
    <3>1. CASE s \in txn[a].sources
      BY <2>1, <2>2, <3>1, DecideSettles
    <3>2. CASE s \notin txn[a].sources
      BY <2>1, <2>2, <3>2, DecideSpares
    <3> QED
      BY <3>1, <3>2
  <2> QED
    BY <1>2, <2>2, <2>3, AdminStep
<1>7. CASE AttachSource(a)
  <2>1. UNCHANGED reviews
    BY <1>7 DEF AttachSource
  <2>2. PICK s \in Sources, m \in Mosques : ~Held(s) /\ link' = [link EXCEPT ![s] = m]
    BY <1>7 DEF AttachSource, Existing
  <2>3. ReviewsGrow
    BY <1>1, <2>1, SameReviews
  <2>4. \A r \in Sources : Spares(r) \/ (Settles(r) /\ ~Held(r))
    BY <1>1, <2>1, <2>2 DEF Spares, Settles
  <2> QED
    BY <1>2, <2>3, <2>4, AdminStep
<1> QED
  BY <1>3, <1>4, <1>5, <1>6, <1>7 DEF Review, Curate, ReadToAccept, ReadToReject, ReadToMerge,
     ReadToActivate, Activate, CreateMosque, UpdateMosque

LEMMA InitIdentity == ASSUME Init PROVE IdentityInv
<1>1. TypeInv
  BY InitType
<1>2. \A a \in Importers : txn[a].at = "idle"
  BY DEF Init, NoTxn
<1>3. HoldInv
  BY <1>2 DEF HoldInv
<1>4. \A s \in Sources : Good(s)
  BY IdentityAssumption DEF Init, Good, PendingOf, Pending, IdentityAssumption
<1> QED
  BY <1>1, <1>3, <1>4 DEF IdentityInv

LEMMA NextIdentity == ASSUME IdentityInv, [Next]_vars PROVE IdentityInv'
<1>1. TypeInv'
  BY NextType DEF IdentityInv
<1>2. CASE UNCHANGED vars
  BY <1>2, QuietStep, <1>1 DEF vars, IdentityInv
<1>3. ASSUME NEW a \in Importers, Import(a)
      PROVE  HoldInv' /\ \A s \in Sources : Good(s)'
  BY <1>3, ReadInv, WriteInv, CommitInv, FailInv DEF Import, ImportFails
<1> QED
  BY <1>1, <1>2, <1>3, AdminInv DEF Next, IdentityInv

\* However imports of a source overlap, with each other and with decisions, it
\* never has two reviews pending.
THEOREM OneReview == Spec => []OnePendingReview
<1>1. IdentityInv /\ [Next]_vars => IdentityInv'
  BY NextIdentity
<1>2. IdentityInv => OnePendingReview
  BY DEF IdentityInv, Good, OnePendingReview
<1> QED
  BY InitIdentity, <1>1, <1>2, PTL DEF Spec

\* A source that has no mosque always has a review that is pending or rejected.
THEOREM NoneForgotten == Spec => []NothingForgotten
<1>1. IdentityInv /\ [Next]_vars => IdentityInv'
  BY NextIdentity
<1>2. IdentityInv => NothingForgotten
  BY DEF IdentityInv, Good, NothingForgotten
<1> QED
  BY InitIdentity, <1>1, <1>2, PTL DEF Spec

\* What a step may do to the link of a source that has a mosque.
LEMMA LinkMoves ==
  ASSUME IdentityInv, [Next]_vars, NEW s \in Sources, Linked(s), link'[s] # link[s]
  PROVE  \/ \E a \in Admins : txn[a].at \in {"accepting", "merging"} /\ txn'[a] = NoTxn
         \/ \E a \in Importers : txn[a].at = "written" /\ txn[a].src = s
                                 /\ txn[a].link \notin Mosques
<1>1. link \in [Sources -> Existing \cup {New, None}] /\ link[s] \notin {New, None}
  BY IdentityAssumption DEF IdentityInv, TypeInv, TypeOK, Linked, IdentityAssumption
<1>2. CASE \E a \in Importers : Import(a)
  <2>1. PICK a \in Importers : CommitReview(a) \/ CommitMatch(a) \/ CommitCreate(a)
    BY <1>2 DEF Import, ReadSource, WriteSource, CommitKnown, ImportFails
  <2>2. txn[a].at = "written" /\ txn[a].result.kind # "known" /\ RowHeld(a)
    BY <2>1 DEF CommitReview, CommitMatch, CommitCreate, IdentityInv, HoldInv
  <2>3. txn[a].link \notin Mosques
    BY <2>2 DEF RowHeld
  <2>4. txn[a].src = s
    BY <1>1, <2>1 DEF CommitReview, CommitMatch, CommitCreate
  <2> QED
    BY <2>2, <2>3, <2>4
<1>3. CASE \E a \in Admins : Review(a) \/ Curate(a)
  <2>1. PICK a \in Admins : Accept(a) \/ Merge(a) \/ AttachSource(a)
    BY <1>3 DEF Review, Curate, ReadToAccept, ReadToReject, Reject, ReadToMerge, ReadToActivate,
                Activate, CreateMosque, UpdateMosque
  <2>2. ~AttachSource(a)
    BY <1>1 DEF AttachSource
  <2>3. txn[a].at \in {"accepting", "merging"} /\ End(a)
    BY <2>1, <2>2 DEF Accept, Merge
  <2>4. txn'[a] = NoTxn
    BY <2>3, Apart DEF End, IdentityInv, TypeInv, TxnsOK
  <2> QED
    BY <2>3, <2>4
<1> QED
  BY <1>2, <1>3 DEF Next, vars

\* Importing a registry again never undoes what an administrator decided before.
THEOREM LinksMove == Spec => LinksMoveOnPurpose
<1>1. IdentityInv /\ [Next]_vars => IdentityInv'
  BY NextIdentity
<1>2. IdentityInv /\ [Next]_vars =>
        [\A s \in Sources : Linked(s) /\ link'[s] # link[s] =>
           \/ \E a \in Admins : txn[a].at \in {"accepting", "merging"} /\ txn'[a] = NoTxn
           \/ \E a \in Importers : txn[a].at = "written" /\ txn[a].src = s
                                   /\ txn[a].link \notin Mosques]_vars
  BY LinkMoves
<1> QED
  BY InitIdentity, <1>1, <1>2, PTL DEF Spec, LinksMoveOnPurpose
=============================================================================
