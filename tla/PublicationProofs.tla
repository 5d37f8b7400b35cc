-------------------------- MODULE PublicationProofs -------------------------
(* Theorems about Publication, for every value of its constants.            *)
EXTENDS Publication, TLAPS

-----------------------------------------------------------------------------
(* Type correctness of the candidates. *)

Verdict == Statuses \ {"absent", "superseded"}

\* Verdicts stay well formed while rows are only added or rewritten.
LEMMA VerdictsKept ==
  ASSUME CandTypeOK, Existing \subseteq Existing', verdicts' = verdicts
  PROVE  \E D \in SUBSET Existing' : verdicts' \in [D -> Verdict]
<1>1. PICK D \in SUBSET Existing : verdicts \in [D -> Verdict]
  BY DEF CandTypeOK, Verdict
<1> QED BY <1>1

\* A candidate or policy transaction keeps the types and deletes no row.
LEMMA CandidateTypes ==
  ASSUME CandTypeOK, CandNext
  PROVE  CandTypeOK' /\ Existing \subseteq Existing'
<1> DEFINE Rows == cand' \in [Cands -> CandidateRow]
           Stay == Existing \subseteq Existing'
           Reviewed == \E D \in SUBSET Existing' : verdicts' \in [D -> Verdict]
<1>a. /\ cand \in [Cands -> CandidateRow]
      /\ public \subseteq Sources
  BY DEF CandTypeOK
<1>b. \A v \in Values : Written(v) \in CandidateRow
  BY DEF Written, CandidateRow, Statuses
<1>c. \A c \in Existing, s \in Statuses \ {"absent"} : [cand[c] EXCEPT !.status = s] \in CandidateRow
  BY <1>a DEF CandidateRow, Existing, Present
<1>1. ASSUME NEW c \in Cands, NEW v \in Values, UpsertInsert(c, v)
      PROVE  Rows /\ Stay /\ public' \subseteq Sources /\ Reviewed
  <2>1. Rows BY <1>a, <1>b, <1>1 DEF UpsertInsert
  <2>2. Stay BY <1>a, <1>1 DEF UpsertInsert, Existing, Present, Written
  <2> QED BY <1>a, <1>1, <2>1, <2>2, VerdictsKept DEF UpsertInsert
<1>2. ASSUME NEW old \in Cands, NEW c \in Cands, NEW v \in Values, UpsertSupersede(old, c, v)
      PROVE  Rows /\ Stay /\ public' \subseteq Sources /\ Reviewed
  <2>0. old \in Existing
    BY <1>2 DEF UpsertSupersede, Rivals, Active, ActiveStatuses, Existing, Present
  <2>1. Rows BY <1>a, <1>b, <1>c, <1>2, <2>0 DEF UpsertSupersede, Statuses
  <2>2. Stay
    <3>1. ASSUME NEW d \in Existing PROVE cand'[d].status # "absent"
      <4>1. d # c BY <1>2, <3>1 DEF UpsertSupersede, Existing, Present
      <4>2. cand'[d] = IF d = old THEN [cand[d] EXCEPT !.status = "superseded"] ELSE cand[d]
        BY <1>a, <1>2, <3>1, <4>1 DEF UpsertSupersede, Existing
      <4>3. cand[d].status # "absent" BY <3>1 DEF Existing, Present
      <4>4. CASE d = old BY <1>a, <4>2, <4>4 DEF Existing, CandidateRow
      <4>5. CASE d # old BY <4>2, <4>3, <4>5
      <4> QED BY <4>4, <4>5
    <3> QED BY <3>1 DEF Existing, Present
  <2> QED BY <1>a, <1>2, <2>1, <2>2, VerdictsKept DEF UpsertSupersede
<1>3. ASSUME NEW c \in Cands, NEW v \in Values, UpsertInPlace(c, v)
      PROVE  Rows /\ Stay /\ public' \subseteq Sources /\ Reviewed
  <2>1. Rows BY <1>a, <1>b, <1>3 DEF UpsertInPlace
  <2>2. Stay BY <1>a, <1>3 DEF UpsertInPlace, Existing, Present, Written
  <2> QED BY <1>a, <1>3, <2>1, <2>2, VerdictsKept DEF UpsertInPlace
<1>4. ASSUME NEW S \in SUBSET Sources, ValidateRead(S)
      PROVE  Rows /\ Stay /\ public' \subseteq Sources /\ Reviewed
  <2> DEFINE loaded == {c \in Cands : Active(c) /\ SourceOf[c] \in S}
             changed == {c \in loaded : StatusAfterValidation(c) # cand[c].status}
  <2>1. changed \in SUBSET Existing
    BY DEF Active, ActiveStatuses, Existing, Present
  <2>2. \A c \in changed : StatusAfterValidation(c) \in Verdict
    BY DEF StatusAfterValidation, Verdict, Statuses
  <2>3. cand' = cand /\ public' = public /\ verdicts' = [c \in changed |-> StatusAfterValidation(c)]
    BY <1>4 DEF ValidateRead
  <2>4. Existing' = Existing
    BY <2>3 DEF Existing, Present
  <2> QED BY <1>a, <2>1, <2>2, <2>3, <2>4
<1>5. ASSUME ValidateWrite
      PROVE  Rows /\ Stay /\ public' \subseteq Sources /\ Reviewed
  <2>1. PICK D \in SUBSET Existing : verdicts \in [D -> Verdict]
    BY DEF CandTypeOK, Verdict
  <2>2. \A c \in DOMAIN verdicts : c \in Existing /\ verdicts[c] \in Statuses \ {"absent"}
    BY <2>1 DEF Verdict
  <2>3. Rows BY <1>a, <1>c, <1>5, <2>2 DEF ValidateWrite
  <2>4. Stay BY <1>a, <1>5, <2>2 DEF ValidateWrite, Existing, Present, CandidateRow
  <2>5. verdicts' \in [{} -> Verdict] BY <1>5 DEF ValidateWrite, NoVerdicts
  <2> QED BY <1>a, <1>5, <2>3, <2>4, <2>5 DEF ValidateWrite
<1>6. ASSUME ValidateCrash
      PROVE  Rows /\ Stay /\ public' \subseteq Sources /\ Reviewed
  <2>1. verdicts' \in [{} -> Verdict] BY <1>6 DEF ValidateCrash, NoVerdicts
  <2> QED BY <1>a, <1>6, <2>1 DEF ValidateCrash, Existing, Present
<1>7. ASSUME NEW c \in Cands, Approve(c)
      PROVE  Rows /\ Stay /\ public' \subseteq Sources /\ Reviewed
  <2>1. Rows BY <1>a, <1>c, <1>7 DEF Approve, Existing, Statuses
  <2>2. Stay BY <1>a, <1>7 DEF Approve, Existing, Present, CandidateRow
  <2> QED BY <1>a, <1>7, <2>1, <2>2, VerdictsKept DEF Approve
<1>8. ASSUME NEW c \in Cands, Reject(c)
      PROVE  Rows /\ Stay /\ public' \subseteq Sources /\ Reviewed
  <2>1. Rows BY <1>a, <1>c, <1>8 DEF Reject, Existing, Statuses
  <2>2. Stay BY <1>a, <1>8 DEF Reject, Existing, Present, CandidateRow
  <2> QED BY <1>a, <1>8, <2>1, <2>2, VerdictsKept DEF Reject
<1>9. ASSUME NEW s \in Sources, SetPolicy(s)
      PROVE  Rows /\ Stay /\ public' \subseteq Sources /\ Reviewed
  <2>1. Stay BY <1>9 DEF SetPolicy, Existing, Present
  <2> QED BY <1>a, <1>9, <2>1, VerdictsKept DEF SetPolicy
<1>10. Rows /\ Stay /\ public' \subseteq Sources /\ Reviewed
  BY <1>1, <1>2, <1>3, <1>4, <1>5, <1>6, <1>7, <1>8, <1>9 DEF CandNext
<1> QED BY <1>10 DEF CandTypeOK, Verdict

-----------------------------------------------------------------------------
(* Type correctness of a publish. *)

\* What Select reads are rows of existing candidates.
LEMMA BatchTypes ==
  ASSUME CandTypeOK, NEW f
  PROVE  /\ Batch(f) \subseteq Row
         /\ \A r \in Batch(f) : r.cand \in Existing /\ Publishable(r.cand)
                                /\ r.val = cand[r.cand].val
<1>1. ASSUME NEW c \in Cands, Publishable(c)
      PROVE  cand[c].val \in Values /\ c \in Existing
  BY <1>1 DEF Publishable, CandTypeOK, CandidateRow, Existing, Present
<1> QED BY <1>1 DEF Batch, Row

LEMMA IdleTypes ==
  /\ Idle \in Txn /\ Idle.batch = {} /\ Idle.base = {} /\ Idle.stage = "idle"
  /\ Unwatched \in Watch /\ Unwatched.ever = {} /\ Unwatched.always = {}
<1>1. NoVersion \in Version
  BY PublicationAssumption DEF NoVersion, Version, Name
<1> QED BY <1>1 DEF Idle, Txn, Stages, Unwatched, Watch

\* The rows served are rows.
LEMMA LatestTypes ==
  ASSUME TypeOK
  PROVE  LatestRows \subseteq Row
<1>1. \A v \in versions : v.rows \subseteq Row
  BY DEF TypeOK, Version
<1> QED BY <1>1 DEF LatestRows

\* Rolling back keeps the types.
LEMMA RollBackTypes ==
  ASSUME TypeOK, NEW p \in Publishers, RollBack(p)
  PROVE  TypeOK'
<1>1. txn' \in [Publishers -> Txn]
  BY IdleTypes DEF TypeOK, RollBack
<1>2. watch' \in [Publishers -> Watch]
  BY IdleTypes DEF TypeOK, RollBack
<1>3. \A q \in Publishers : BatchCands(q)' \subseteq Existing'
  BY IdleTypes DEF TypeOK, RollBack, BatchCands, Existing, Present, candVars
<1>4. CandTypeOK'
  BY DEF TypeOK, RollBack, CandTypeOK, Existing, Present, candVars
<1> QED BY <1>1, <1>2, <1>3, <1>4 DEF TypeOK, RollBack

\* A step of one publisher that leaves the candidates, the committed versions and
\* its batch alone keeps the types if it keeps those of its transaction.
LEMMA PublisherTypes ==
  ASSUME TypeOK, NEW p \in Publishers, NEW t \in Txn,
         t.batch = txn[p].batch,
         txn' = [txn EXCEPT ![p] = t],
         UNCHANGED <<candVars, edits, versions, day>>,
         watch' \in [Publishers -> Watch],
         clock' \in Nat
  PROVE  TypeOK'
<1>1. txn' \in [Publishers -> Txn]
  BY DEF TypeOK
<1>2. \A q \in Publishers : BatchCands(q)' \subseteq Existing'
  BY DEF TypeOK, BatchCands, Existing, Present, candVars
<1>3. CandTypeOK'
  BY DEF TypeOK, CandTypeOK, Existing, Present, candVars
<1> QED BY <1>1, <1>2, <1>3 DEF TypeOK

LEMMA CarriedTypes ==
  ASSUME TypeOK, NEW p \in Publishers
  PROVE  /\ Carried(p) \subseteq txn[p].base
         /\ NewRows(p) \subseteq Row
         /\ Announced(p) \subseteq Slots
         /\ Removed(p) \subseteq Slots
<1>1. txn[p].base \subseteq Row /\ txn[p].batch \subseteq Row
  BY DEF TypeOK, Txn
<1>2. Carried(p) \subseteq txn[p].base
  BY DEF Carried, Outside, Kept
<1>3. \A r \in Row : SlotOfRow(r) \in Slots
  BY CandidatesAssumption DEF Row, SlotOfRow
<1> QED BY <1>1, <1>2, <1>3 DEF NewRows, Announced, Removed, SlotsOf

\* The clock, a version's name and its rows, each as one update of the transaction.
TxnTimed(p) ==
  [txn[p] EXCEPT !.stage = "timed",
     !.version = [txn[p].version EXCEPT !.name = [txn[p].version.name EXCEPT !.day = day],
                                        !.at = clock]]

TxnNamed(p, n) ==
  [txn[p] EXCEPT !.stage = "named",
     !.version = [txn[p].version EXCEPT !.name = [txn[p].version.name EXCEPT !.patch = n]]]

TxnWritten(p) ==
  [txn[p] EXCEPT !.stage = "written",
     !.version = [txn[p].version EXCEPT !.rows = NewRows(p), !.announced = Announced(p),
                                        !.removed = Removed(p)]]

LEMMA TimedAsOneUpdate ==
  ASSUME txn \in [Publishers -> Txn], NEW p \in Publishers, ReadClock(p)
  PROVE  txn' = [txn EXCEPT ![p] = TxnTimed(p)]
BY ZenonT(60) DEF ReadClock, TxnTimed, Txn, Version, Name

LEMMA NamedAsOneUpdate ==
  ASSUME txn \in [Publishers -> Txn], NEW p \in Publishers, ReadNames(p)
  PROVE  \E n \in NextPatches(PatchesOf(txn[p].version.name.day)) :
           txn' = [txn EXCEPT ![p] = TxnNamed(p, n)]
<1>1. PICK n \in NextPatches(PatchesOf(txn[p].version.name.day)) :
        txn' = [txn EXCEPT ![p].stage = "named", ![p].version.name.patch = n]
  BY DEF ReadNames
<1>2. txn' = [txn EXCEPT ![p] = TxnNamed(p, n)] BY <1>1, ZenonT(60) DEF TxnNamed, Txn, Version, Name
<1> QED BY <1>2

\* What the clock sets, and what it leaves alone.
LEMMA TimedKeeps ==
  ASSUME txn \in [Publishers -> Txn], NEW p \in Publishers, ReadClock(p)
  PROVE  /\ \A q \in Publishers \ {p} : txn'[q] = txn[q]
         /\ txn'[p].stage = "timed"
         /\ txn'[p].partial = txn[p].partial
         /\ txn'[p].batch = txn[p].batch
         /\ txn'[p].base = txn[p].base
         /\ txn'[p].version.name.day = day
         /\ txn'[p].version.at = clock
         /\ txn'[p].version.rows = txn[p].version.rows
<1> DEFINE w == [txn[p].version EXCEPT !.name = [txn[p].version.name EXCEPT !.day = day],
                                       !.at = clock]
<1>1. txn' = [txn EXCEPT ![p] = TxnTimed(p)] BY TimedAsOneUpdate
<1>2. txn[p] \in Txn /\ txn[p].version \in Version /\ txn[p].version.name \in Name
  BY DEF Txn, Version
<1>3. w.name.day = day /\ w.at = clock /\ w.rows = txn[p].version.rows
  BY <1>2, ZenonT(60) DEF Version, Name
<1>4. /\ TxnTimed(p).stage = "timed" /\ TxnTimed(p).partial = txn[p].partial
      /\ TxnTimed(p).batch = txn[p].batch /\ TxnTimed(p).base = txn[p].base
      /\ TxnTimed(p).version = w
  BY <1>2, ZenonT(60) DEF Txn, TxnTimed
<1> HIDE DEF w
<1>5. txn'[p] = TxnTimed(p) /\ \A q \in Publishers \ {p} : txn'[q] = txn[q] BY <1>1
<1> QED BY <1>3, <1>4, <1>5

\* The name a publish chooses, and what it leaves alone.
LEMMA NamedKeeps ==
  ASSUME txn \in [Publishers -> Txn], NEW p \in Publishers, ReadNames(p)
  PROVE  /\ \A q \in Publishers \ {p} : txn'[q] = txn[q]
         /\ txn'[p].stage = "named"
         /\ txn'[p].partial = txn[p].partial
         /\ txn'[p].batch = txn[p].batch
         /\ txn'[p].base = txn[p].base
         /\ txn'[p].version.at = txn[p].version.at
         /\ txn'[p].version.rows = txn[p].version.rows
         /\ \E n \in NextPatches(PatchesOf(txn[p].version.name.day)) :
              txn'[p].version.name = [day |-> txn[p].version.name.day, patch |-> n]
<1>1. PICK n \in NextPatches(PatchesOf(txn[p].version.name.day)) :
        txn' = [txn EXCEPT ![p] = TxnNamed(p, n)]
  BY NamedAsOneUpdate
<1> DEFINE m == [txn[p].version.name EXCEPT !.patch = n]
           w == [txn[p].version EXCEPT !.name = m]
<1>2. txn[p] \in Txn /\ txn[p].version \in Version /\ txn[p].version.name \in Name
  BY DEF Txn, Version
<1>3. m = [day |-> txn[p].version.name.day, patch |-> n] BY <1>2 DEF Name
<1> HIDE DEF m
<1>4. w.name = m /\ w.at = txn[p].version.at /\ w.rows = txn[p].version.rows
  BY <1>2, ZenonT(60) DEF Version
<1>5. /\ TxnNamed(p, n).stage = "named" /\ TxnNamed(p, n).partial = txn[p].partial
      /\ TxnNamed(p, n).batch = txn[p].batch /\ TxnNamed(p, n).base = txn[p].base
      /\ TxnNamed(p, n).version = w
  BY <1>2, ZenonT(60) DEF Txn, TxnNamed, m
<1> HIDE DEF w
<1>6. txn'[p] = TxnNamed(p, n) /\ \A q \in Publishers \ {p} : txn'[q] = txn[q] BY <1>1
<1> QED BY <1>3, <1>4, <1>5, <1>6

LEMMA WrittenAsOneUpdate ==
  ASSUME txn \in [Publishers -> Txn], NEW p \in Publishers, WriteRows(p)
  PROVE  txn' = [txn EXCEPT ![p] = TxnWritten(p)]
BY ZenonT(60) DEF WriteRows, TxnWritten, Txn, Version

\* Every step keeps the types.
LEMMA TypeStep ==
  ASSUME TypeOK, Next
  PROVE  TypeOK'
<1> USE DEF TypeOK
<1>1. ASSUME NEW p \in Publishers, NEW f \in Filters, Select(p, f)
      PROVE  TypeOK'
  <2>1. f.slots \subseteq Slots /\ f.sources \subseteq Sources /\ f.partial \in BOOLEAN
    BY PublicationAssumption
  <2>2. Batch(f) \subseteq Row /\ \A r \in Batch(f) : r.cand \in Existing
    BY BatchTypes
  <2> DEFINE t == [txn[p] EXCEPT !.stage = "selected", !.partial = f.partial,
                                 !.slots = f.slots, !.sources = f.sources, !.batch = Batch(f)]
  <2>t. t \in Txn BY <2>1, <2>2, ZenonT(60) DEF Txn, Stages
  <2>u. txn' = [txn EXCEPT ![p] = t] BY <1>1 DEF Select
  <2>3. txn' \in [Publishers -> Txn]
    BY <2>t, <2>u
  <2>4. watch' \in [Publishers -> Watch]
    BY <1>1 DEF Select, CandTypeOK, Watch
  <2>5. \A q \in Publishers : BatchCands(q)' \subseteq Existing'
    <3>1. Existing' = Existing BY <1>1 DEF Select, candVars, Existing, Present
    <3>2. txn'[p].batch = Batch(f) BY <1>1 DEF Select
    <3>3. \A q \in Publishers \ {p} : txn'[q] = txn[q] BY <1>1 DEF Select
    <3> QED BY <2>2, <3>1, <3>2, <3>3 DEF BatchCands
  <2>6. CandTypeOK'
    BY <1>1 DEF Select, CandTypeOK, Existing, Present, candVars
  <2> QED BY <1>1, <2>3, <2>4, <2>5, <2>6 DEF Select
<1>2. ASSUME NEW p \in Publishers, ReadPrevious(p)
      PROVE  TypeOK'
  <2> DEFINE t == [txn[p] EXCEPT !.stage = "based", !.base = PublicRows(LatestRows)]
  <2>1. PublicRows(LatestRows) \subseteq Row BY LatestTypes DEF PublicRows
  <2>2. t \in Txn BY <2>1, ZenonT(60) DEF Txn, Stages
  <2>3. t.batch = txn[p].batch BY DEF Txn
  <2> QED BY <1>2, <2>2, <2>3, PublisherTypes, ZenonT(60) DEF ReadPrevious
<1>a. ASSUME NEW p \in Publishers, ReadClock(p)
      PROVE  TypeOK'
  <2>1. txn' = [txn EXCEPT ![p] = TxnTimed(p)] BY <1>a, TimedAsOneUpdate
  <2>2. [txn[p].version.name EXCEPT !.day = day] \in Name BY ZenonT(60) DEF Txn, Version, Name
  <2>3. [txn[p].version EXCEPT !.name = [txn[p].version.name EXCEPT !.day = day],
                               !.at = clock] \in Version
    BY <2>2, ZenonT(60) DEF Txn, Version
  <2>4. TxnTimed(p) \in Txn BY <2>3, ZenonT(60) DEF TxnTimed, Txn, Stages
  <2>5. TxnTimed(p).batch = txn[p].batch BY DEF TxnTimed, Txn
  <2>6. clock' \in Nat BY <1>a DEF ReadClock
  <2>7. UNCHANGED <<candVars, edits, versions, day>> /\ watch' \in [Publishers -> Watch]
    BY <1>a DEF ReadClock
  <2> QED BY <2>1, <2>4, <2>5, <2>6, <2>7, PublisherTypes
<1>3. ASSUME NEW p \in Publishers, ReadNames(p)
      PROVE  TypeOK'
  <2> DEFINE d == txn[p].version.name.day
  <2>1. PICK n \in NextPatches(PatchesOf(d)) : txn' = [txn EXCEPT ![p] = TxnNamed(p, n)]
    BY <1>3, NamedAsOneUpdate
  <2>2. \A m \in PatchesOf(d) : m \in Nat
    BY DEF PatchesOf, Names, Version, Name
  <2>3. n \in Nat
    BY <2>2 DEF NextPatches, LastPatches
  <2> HIDE DEF d
  <2>a. [txn[p].version.name EXCEPT !.patch = n] \in Name
    BY <2>3, ZenonT(60) DEF Txn, Version, Name
  <2>4. [txn[p].version EXCEPT !.name = [txn[p].version.name EXCEPT !.patch = n]] \in Version
    BY <2>a, ZenonT(60) DEF Txn, Version
  <2>5. TxnNamed(p, n) \in Txn BY <2>4, ZenonT(60) DEF TxnNamed, Txn, Stages
  <2>6. TxnNamed(p, n).batch = txn[p].batch BY DEF TxnNamed, Txn
  <2>7. clock' \in Nat BY <1>3 DEF ReadNames
  <2>8. UNCHANGED <<candVars, edits, versions, day>> BY <1>3 DEF ReadNames
  <2>9. watch' \in [Publishers -> Watch]
    <3> DEFINE o == ~NewestOfDay(txn[p].version)
    <3>1. o \in BOOLEAN BY Zenon
    <3>2. watch' = [watch EXCEPT ![p].overtaken = o] BY <1>3 DEF ReadNames
    <3> HIDE DEF o
    <3>3. watch[p] \in Watch OBVIOUS
    <3>4. [watch[p] EXCEPT !.overtaken = o] \in Watch BY <3>1, <3>3, ZenonT(60) DEF Watch
    <3>5. watch' = [watch EXCEPT ![p] = [watch[p] EXCEPT !.overtaken = o]] BY <3>2
    <3> QED BY <3>4, <3>5
  <2> QED BY <2>1, <2>5, <2>6, <2>7, <2>8, <2>9, PublisherTypes
<1>4. ASSUME NEW p \in Publishers, Insert(p)
      PROVE  TypeOK'
  <2> DEFINE t == [txn[p] EXCEPT !.stage = "inserted"]
  <2>1. t \in Txn /\ t.batch = txn[p].batch BY ZenonT(60) DEF Txn, Stages
  <2> QED BY <1>4, <2>1, PublisherTypes DEF Insert
<1>5. ASSUME NEW p \in Publishers, InsertRefused(p) \/ WriteRefused(p) \/ Crash(p)
      PROVE  TypeOK'
  BY <1>5, RollBackTypes DEF InsertRefused, WriteRefused, Crash
<1>6. ASSUME NEW p \in Publishers, WriteRows(p)
      PROVE  TypeOK'
  <2>1. [txn[p].version EXCEPT !.rows = NewRows(p), !.announced = Announced(p),
                               !.removed = Removed(p)] \in Version
    BY CarriedTypes, ZenonT(60) DEF Txn, Version
  <2>2. TxnWritten(p) \in Txn BY <2>1, ZenonT(60) DEF TxnWritten, Txn, Stages
  <2>3. TxnWritten(p).batch = txn[p].batch BY DEF TxnWritten, Txn
  <2>4. txn' = [txn EXCEPT ![p] = TxnWritten(p)] BY <1>6, WrittenAsOneUpdate
  <2>5. UNCHANGED <<candVars, edits, versions, day>> /\ watch' \in [Publishers -> Watch] /\ clock' \in Nat
    BY <1>6 DEF WriteRows
  <2> QED BY <2>2, <2>3, <2>4, <2>5, PublisherTypes
<1>7. ASSUME NEW p \in Publishers, Commit(p)
      PROVE  TypeOK'
  <2>1. BatchCands(p) \subseteq Existing OBVIOUS
  <2>2. cand' \in [Cands -> CandidateRow]
    BY <1>7, <2>1 DEF Commit, CandTypeOK, CandidateRow, Statuses, Existing, Present
  <2>3. Existing' = Existing
    BY <1>7, <2>1 DEF Commit, CandTypeOK, CandidateRow, Statuses, Existing, Present
  <2>4. CandTypeOK'
    BY <1>7, <2>2, <2>3 DEF Commit, CandTypeOK
  <2>5. txn' \in [Publishers -> Txn]
    BY <1>7, IdleTypes DEF Commit
  <2>6. \A q \in Publishers : BatchCands(q)' \subseteq Existing'
    BY <1>7, <2>3, IdleTypes DEF Commit, BatchCands
  <2>7. watch' \in [Publishers -> Watch]
    BY <1>7, IdleTypes DEF Commit
  <2>8. versions' \subseteq Version BY <1>7 DEF Commit, Txn
  <2> QED BY <1>7, <2>4, <2>5, <2>6, <2>7, <2>8 DEF Commit
<1>8. CASE Elsewhere
  <2>1. CandTypeOK' /\ Existing \subseteq Existing'
    BY <1>8, CandidateTypes DEF Elsewhere
  <2>2. watch' \in [Publishers -> Watch]
    <3>1. \A p \in Publishers : watch[p] \in Watch /\ public' \subseteq Sources
      BY <2>1 DEF CandTypeOK
    <3>2. \A p \in Publishers : Watching(p) \in Watch
      BY <3>1 DEF Watching, Watch
    <3> QED BY <1>8, <3>2 DEF Elsewhere
  <2>3. \A q \in Publishers : BatchCands(q)' \subseteq Existing'
    BY <1>8, <2>1 DEF Elsewhere, BatchCands
  <2>4. edits' \in 0..MaxEdits
    BY <1>8, PublicationAssumption DEF Elsewhere
  <2> QED BY <1>8, <2>1, <2>2, <2>3, <2>4 DEF Elsewhere
<1>9. CASE Midnight
  <2>1. CandTypeOK' BY <1>9 DEF Midnight, CandTypeOK, Existing, Present, candVars
  <2>2. \A q \in Publishers : BatchCands(q)' \subseteq Existing'
    BY <1>9 DEF Midnight, BatchCands, Existing, Present, candVars
  <2>3. day' \in 1..MaxDay BY <1>9, PublicationAssumption DEF Midnight
  <2> QED BY <1>9, <2>1, <2>2, <2>3 DEF Midnight
<1> QED
  BY <1>1, <1>2, <1>a, <1>3, <1>4, <1>5, <1>6, <1>7, <1>8, <1>9 DEF Next, Advance

LEMMA TypeStutter ==
  ASSUME TypeOK, UNCHANGED vars
  PROVE  TypeOK'
<1>1. CandTypeOK' BY DEF TypeOK, CandTypeOK, Existing, Present, candVars, vars
<1>2. \A q \in Publishers : BatchCands(q)' \subseteq Existing'
  BY DEF TypeOK, BatchCands, Existing, Present, candVars, vars, pubVars
<1> QED BY <1>1, <1>2 DEF TypeOK, vars, pubVars

LEMMA TypeInit ==
  ASSUME Init
  PROVE  TypeOK
<1>1. CandTypeOK
  <2>1. verdicts \in [{} -> Verdict] BY DEF Init, CandInit, NoVerdicts
  <2>2. cand \in [Cands -> CandidateRow] BY DEF Init, CandInit, CandidateRow
  <2> QED BY <2>1, <2>2 DEF Init, CandInit, CandTypeOK, Verdict
<1>2. txn \in [Publishers -> Txn] /\ \A q \in Publishers : BatchCands(q) \subseteq Existing
  BY IdleTypes DEF Init, BatchCands
<1>3. watch \in [Publishers -> Watch] BY IdleTypes DEF Init
<1> QED BY <1>1, <1>2, <1>3, PublicationAssumption DEF Init, TypeOK

\* Every reachable state is well typed: batch validation and publishing, which
\* write from what they read long before, never write for a row that is gone or a
\* version without a name, whatever ran in between.
THEOREM TypeCorrect == Safety => []TypeOK
<1>1. Init => TypeOK BY TypeInit
<1>2. TypeOK /\ [Next]_vars => TypeOK' BY TypeStep, TypeStutter
<1> QED BY <1>1, <1>2, PTL DEF Safety

-----------------------------------------------------------------------------
(* Soundness of the published rows. *)

ApprovedFit ==
  /\ \A c \in Cands : cand[c].status = "approved" => c \notin Manual
  /\ \A c \in DOMAIN verdicts : verdicts[c] = "approved" => c \notin Manual

Fit(rows) == \A r \in rows : r.val \notin Bad /\ r.cand \notin Manual

\* PublishedRowsSound is not inductive: a publish in progress, a carried row and a
\* verdict not yet written must be sound before they reach a version.
SoundInv ==
  /\ ApprovedFit
  /\ \A p \in Publishers : Fit(txn[p].batch) /\ Fit(txn[p].base)
  /\ \A p \in Publishers : SoundRows(txn[p].version.rows)
  /\ PublishedRowsSound

\* A candidate transaction approves, or decides to approve, only what may be
\* approved automatically.
LEMMA CandidatesApprovedFit ==
  ASSUME CandTypeOK, ApprovedFit, CandNext
  PROVE  ApprovedFit'
<1> USE DEF ApprovedFit
<1>a. cand \in [Cands -> CandidateRow]
  BY DEF CandTypeOK
<1>b. \A c \in Cands : StatusAfterValidation(c) = "approved" => c \notin Manual
  BY DEF StatusAfterValidation
<1>1. ASSUME NEW c \in Cands, NEW v \in Values, UpsertInsert(c, v)
      PROVE  ApprovedFit'
  BY <1>a, <1>1 DEF UpsertInsert, Written
<1>2. ASSUME NEW old \in Cands, NEW c \in Cands, NEW v \in Values, UpsertSupersede(old, c, v)
      PROVE  ApprovedFit'
  <2>1. \A d \in Cands : cand'[d].status = "approved" => cand[d].status = "approved"
    <3>1. ASSUME NEW d \in Cands, d # c, d # old PROVE cand'[d] = cand[d]
      BY <1>a, <1>2, <3>1 DEF UpsertSupersede
    <3>2. cand'[c].status = "pending"
      BY <1>a, <1>2 DEF UpsertSupersede, Written
    <3>3. old # c => cand'[old].status = "superseded"
      BY <1>a, <1>2 DEF UpsertSupersede, CandidateRow
    <3> QED BY <3>1, <3>2, <3>3
  <2> QED BY <1>2, <2>1 DEF UpsertSupersede
<1>3. ASSUME NEW c \in Cands, NEW v \in Values, UpsertInPlace(c, v)
      PROVE  ApprovedFit'
  BY <1>a, <1>3 DEF UpsertInPlace, Written
<1>4. ASSUME NEW S \in SUBSET Sources, ValidateRead(S)
      PROVE  ApprovedFit'
  BY <1>b, <1>4 DEF ValidateRead
<1>5. CASE ValidateWrite
  <2>1. \A c \in DOMAIN verdicts : c \in Cands /\ cand[c] \in CandidateRow
    BY <1>a DEF CandTypeOK, Existing
  <2>2. \A c \in Cands : cand'[c].status = "approved" => c \notin Manual
    BY <1>a, <1>5, <2>1 DEF ValidateWrite, CandidateRow
  <2> QED BY <1>5, <2>2 DEF ValidateWrite, NoVerdicts
<1>6. CASE ValidateCrash
  BY <1>6 DEF ValidateCrash, NoVerdicts
<1>7. ASSUME NEW c \in Cands, Approve(c)
      PROVE  ApprovedFit'
  BY <1>a, <1>b, <1>7 DEF Approve, CandidateRow
<1>8. ASSUME NEW c \in Cands, Reject(c)
      PROVE  ApprovedFit'
  BY <1>a, <1>8 DEF Reject, CandidateRow
<1>9. ASSUME NEW s \in Sources, SetPolicy(s)
      PROVE  ApprovedFit'
  BY <1>9 DEF SetPolicy
<1> QED
  BY <1>1, <1>2, <1>3, <1>4, <1>5, <1>6, <1>7, <1>8, <1>9 DEF CandNext

\* Idle publishers hold no rows.
LEMMA NothingUnsound ==
  Fit({}) /\ SoundRows({}) /\ Fit(Idle.batch) /\ Fit(Idle.base) /\ SoundRows(Idle.version.rows)
BY DEF Fit, SoundRows, OnePerSlot, Idle, NoVersion

\* The rows readers are served are fit when those of every version are.
LEMMA LatestFit ==
  ASSUME PublishedRowsSound
  PROVE  Fit(PublicRows(LatestRows))
<1>1. \A r \in LatestRows : \E v \in versions : r \in v.rows
  BY DEF LatestRows
<1> QED BY <1>1 DEF PublishedRowsSound, SoundRows, Fit, PublicRows

\* Rolling back keeps the committed versions as sound as they were.
LEMMA RollBackSound ==
  ASSUME TypeOK, SoundInv, NEW p \in Publishers, RollBack(p)
  PROVE  SoundInv'
<1>1. ApprovedFit' BY DEF SoundInv, ApprovedFit, RollBack, candVars
<1>2. \A q \in Publishers : txn'[q] = IF q = p THEN Idle ELSE txn[q]
  BY DEF TypeOK, RollBack
<1>3. PublishedRowsSound' BY DEF SoundInv, PublishedRowsSound, RollBack
<1> QED BY <1>1, <1>2, <1>3, NothingUnsound DEF SoundInv

LEMMA SoundStep ==
  ASSUME TypeOK, SoundInv, Next
  PROVE  SoundInv'
<1>a. txn \in [Publishers -> Txn] BY DEF TypeOK
<1>1. ASSUME NEW p \in Publishers, NEW f \in Filters, Select(p, f)
      PROVE  SoundInv'
  <2>1. Fit(Batch(f))
    <3>1. \A r \in Batch(f) : r.cand \in Existing /\ Publishable(r.cand) /\ r.val = cand[r.cand].val
      BY BatchTypes DEF TypeOK
    <3>2. ASSUME NEW c \in Existing, Publishable(c) PROVE cand[c].val \notin Bad /\ c \notin Manual
      BY <3>2 DEF SoundInv, ApprovedFit, Publishable, IsValid, Existing
    <3> QED BY <3>1, <3>2 DEF Fit
  <2>2. /\ txn'[p].batch = Batch(f)
        /\ txn'[p].base = txn[p].base
        /\ txn'[p].version = txn[p].version
    BY <1>a, <1>1 DEF Select, Txn
  <2>3. \A q \in Publishers \ {p} : txn'[q] = txn[q]
    BY <1>a, <1>1 DEF Select
  <2>4. ApprovedFit' BY <1>1 DEF Select, SoundInv, ApprovedFit, candVars
  <2>5. PublishedRowsSound' BY <1>1 DEF Select, SoundInv, PublishedRowsSound
  <2> QED BY <2>1, <2>2, <2>3, <2>4, <2>5 DEF SoundInv
<1>2. ASSUME NEW p \in Publishers, ReadPrevious(p)
      PROVE  SoundInv'
  <2>1. Fit(PublicRows(LatestRows)) BY LatestFit DEF SoundInv
  <2>2. /\ txn'[p].batch = txn[p].batch
        /\ txn'[p].base = PublicRows(LatestRows)
        /\ txn'[p].version = txn[p].version
    BY <1>a, <1>2 DEF ReadPrevious, Txn
  <2>3. \A q \in Publishers \ {p} : txn'[q] = txn[q]
    BY <1>a, <1>2 DEF ReadPrevious
  <2>4. ApprovedFit' BY <1>2 DEF ReadPrevious, SoundInv, ApprovedFit, candVars
  <2>5. PublishedRowsSound' BY <1>2 DEF ReadPrevious, SoundInv, PublishedRowsSound
  <2> QED BY <2>1, <2>2, <2>3, <2>4, <2>5 DEF SoundInv
<1>3. ASSUME NEW p \in Publishers, ReadClock(p) \/ ReadNames(p) \/ Insert(p)
      PROVE  SoundInv'
  <2>1. \A q \in Publishers : /\ txn'[q].batch = txn[q].batch
                              /\ txn'[q].base = txn[q].base
                              /\ txn'[q].version.rows = txn[q].version.rows
    <3>1. txn[p] \in Txn /\ txn[p].version \in Version BY <1>a DEF Txn
    <3>2. CASE ReadClock(p) \/ ReadNames(p)
      BY <1>a, <3>2, TimedKeeps, NamedKeeps
    <3>3. CASE Insert(p)
      BY <1>a, <3>1, <3>3 DEF Insert, Txn
    <3> QED BY <1>3, <3>2, <3>3
  <2>2. ApprovedFit' BY <1>3 DEF ReadClock, ReadNames, Insert, SoundInv, ApprovedFit, candVars
  <2>3. PublishedRowsSound' BY <1>3 DEF ReadClock, ReadNames, Insert, SoundInv, PublishedRowsSound
  <2> QED BY <2>1, <2>2, <2>3 DEF SoundInv
<1>4. ASSUME NEW p \in Publishers, InsertRefused(p) \/ WriteRefused(p) \/ Crash(p)
      PROVE  SoundInv'
  BY <1>4, RollBackSound DEF InsertRefused, WriteRefused, Crash
<1>5. ASSUME NEW p \in Publishers, WriteRows(p)
      PROVE  SoundInv'
  <2>1. SoundRows(NewRows(p))
    <3>1. Fit(NewRows(p)) BY CarriedTypes DEF SoundInv, Fit, NewRows
    <3> QED BY <1>5, <3>1 DEF WriteRows, SoundRows, Fit
  <2>2. /\ txn'[p].batch = txn[p].batch
        /\ txn'[p].base = txn[p].base
        /\ txn'[p].version.rows = NewRows(p)
    BY <1>a, <1>5 DEF WriteRows, Txn, Version
  <2>3. \A q \in Publishers \ {p} : txn'[q] = txn[q]
    BY <1>a, <1>5 DEF WriteRows
  <2>4. ApprovedFit' BY <1>5 DEF WriteRows, SoundInv, ApprovedFit, candVars
  <2>5. PublishedRowsSound' BY <1>5 DEF WriteRows, SoundInv, PublishedRowsSound
  <2> QED BY <2>1, <2>2, <2>3, <2>4, <2>5 DEF SoundInv
<1>6. ASSUME NEW p \in Publishers, Commit(p)
      PROVE  SoundInv'
  <2>1. \A q \in Publishers : txn'[q] = IF q = p THEN Idle ELSE txn[q]
    BY <1>a, <1>6 DEF Commit
  <2>2. PublishedRowsSound' BY <1>6 DEF Commit, SoundInv, PublishedRowsSound
  <2>3. \A c \in Cands : cand'[c].status = "approved" => cand[c].status = "approved"
    BY <1>6 DEF Commit, TypeOK, CandTypeOK, CandidateRow
  <2>4. ApprovedFit' BY <1>6, <2>3 DEF Commit, SoundInv, ApprovedFit
  <2> QED BY <2>1, <2>2, <2>4, NothingUnsound DEF SoundInv
<1>7. CASE Elsewhere
  <2>1. ApprovedFit' BY <1>7, CandidatesApprovedFit DEF Elsewhere, SoundInv, TypeOK
  <2>2. PublishedRowsSound' BY <1>7 DEF Elsewhere, SoundInv, PublishedRowsSound
  <2> QED BY <1>7, <2>1, <2>2 DEF Elsewhere, SoundInv
<1>8. CASE Midnight
  <2>1. ApprovedFit' BY <1>8 DEF Midnight, SoundInv, ApprovedFit, candVars
  <2>2. PublishedRowsSound' BY <1>8 DEF Midnight, SoundInv, PublishedRowsSound
  <2> QED BY <1>8, <2>1, <2>2 DEF Midnight, SoundInv
<1> QED
  BY <1>1, <1>2, <1>3, <1>4, <1>5, <1>6, <1>7, <1>8 DEF Next, Advance

\* Candidates and what is published of them are sound whatever validators, moderators
\* and importers do while publishes run, and however many run.
LEMMA SoundAlways == Safety => []SoundInv
<1>1. Init => TypeOK /\ SoundInv
  <2> SUFFICES ASSUME Init PROVE SoundInv
    BY TypeInit
  <2>1. ApprovedFit BY DEF Init, CandInit, ApprovedFit, NoVerdicts
  <2> QED BY <2>1, NothingUnsound DEF Init, SoundInv, PublishedRowsSound
<1>2. TypeOK /\ SoundInv /\ [Next]_vars => TypeOK' /\ SoundInv'
  <2>1. ASSUME TypeOK, SoundInv, UNCHANGED vars PROVE SoundInv'
    BY <2>1 DEF SoundInv, ApprovedFit, PublishedRowsSound, vars, candVars, pubVars
  <2> QED BY <2>1, SoundStep, TypeStep, TypeStutter
<1> QED BY <1>1, <1>2, PTL DEF Safety

\* Whatever validators, moderators and importers do while publishes run, and
\* however many run, a committed version holds only rows that passed validation,
\* none that needs a moderator's decision, and one per session.
THEOREM PublishedSound == Safety => []PublishedRowsSound
<1>1. SoundInv => PublishedRowsSound BY DEF SoundInv
<1> QED BY <1>1, SoundAlways, PTL

\* A candidate that _requires_manual_approval holds of is never approved, neither by
\* validation, whose late verdict may be of an earlier value, nor by the moderator whose
\* approval it is said to wait for: approve_candidate asks that validation approve it.
THEOREM ManualNeverApproved ==
  Safety => [](\A c \in Cands : cand[c].status = "approved" => c \notin Manual)
<1>1. SoundInv => \A c \in Cands : cand[c].status = "approved" => c \notin Manual
  BY DEF SoundInv, ApprovedFit
<1> QED BY <1>1, SoundAlways, PTL

-----------------------------------------------------------------------------
(* Revoked policies. *)

\* RevokedNotRepublished is not inductive: it follows from what each publisher
\* holds at every stage of its run.
PolicyInv ==
  /\ \A p \in Publishers : At(p, "idle") => txn[p] = Idle
  /\ \A p \in Publishers : Running(p) => public \subseteq watch[p].ever
  /\ \A p \in Publishers : SourcesOf(txn[p].batch) \subseteq watch[p].ever
  /\ \A p \in Publishers : SourcesOf(txn[p].base) \subseteq watch[p].ever
  /\ \A p \in Publishers : SourcesOf(txn[p].version.rows) \subseteq watch[p].ever

LEMMA NoSources ==
  /\ SourcesOf(Idle.batch) = {}
  /\ SourcesOf(Idle.base) = {}
  /\ SourcesOf(Idle.version.rows) = {}
BY DEF SourcesOf, Idle, NoVersion

\* A publisher that ends, whether it commits or not, holds nothing any more.
LEMMA EndPolicy ==
  ASSUME TypeOK, PolicyInv, NEW p \in Publishers,
         txn' = [txn EXCEPT ![p] = Idle],
         watch' = [watch EXCEPT ![p] = Unwatched],
         public' = public
  PROVE  PolicyInv'
<1>1. \A q \in Publishers : txn'[q] = IF q = p THEN Idle ELSE txn[q]
  BY DEF TypeOK
<1>2. (\A q \in Publishers \ {p} : watch'[q] = watch[q]) /\ watch'[p] = Unwatched
  BY DEF TypeOK
<1>3. Idle.stage = "idle" BY DEF Idle
<1> QED BY <1>1, <1>2, <1>3, NoSources DEF PolicyInv, At, Running

\* A publisher that runs on with rows its sources allow keeps the invariant.
LEMMA RunPolicy ==
  ASSUME TypeOK, PolicyInv, NEW p \in Publishers, NEW t \in Txn,
         Running(p),
         t.stage # "idle",
         SourcesOf(t.batch) \subseteq watch[p].ever,
         SourcesOf(t.base) \subseteq watch[p].ever,
         SourcesOf(t.version.rows) \subseteq watch[p].ever,
         txn' = [txn EXCEPT ![p] = t],
         watch' = watch,
         public' = public
  PROVE  PolicyInv'
<1>1. \A q \in Publishers : txn'[q] = IF q = p THEN t ELSE txn[q]
  BY DEF TypeOK
<1> QED BY <1>1 DEF PolicyInv, At, Running

LEMMA PolicyStep ==
  ASSUME TypeOK, PolicyInv, Next
  PROVE  PolicyInv'
<1>a. txn \in [Publishers -> Txn] BY DEF TypeOK
<1>b. watch \in [Publishers -> Watch] BY DEF TypeOK
<1>1. ASSUME NEW p \in Publishers, NEW f \in Filters, Select(p, f)
      PROVE  PolicyInv'
  <2>1. SourcesOf(Batch(f)) \subseteq public
    <3>1. \A r \in Batch(f) : SourceOf[r.cand] \in public
      BY BatchTypes DEF TypeOK, Publishable, CanPublish
    <3> QED BY <3>1 DEF SourcesOf, SourceOfRow
  <2>2. txn[p] = Idle BY <1>1 DEF Select, PolicyInv
  <2>3. /\ txn'[p].stage = "selected"
        /\ txn'[p].batch = Batch(f)
        /\ txn'[p].base = Idle.base
        /\ txn'[p].version = Idle.version
    BY <1>a, <1>1, <2>2 DEF Select, Txn
  <2>4. \A q \in Publishers \ {p} : txn'[q] = txn[q] /\ watch'[q] = watch[q]
    BY <1>a, <1>b, <1>1 DEF Select
  <2>5. watch'[p].ever = public /\ public' = public
    BY <1>b, <1>1 DEF Select, candVars
  <2> QED BY <2>1, <2>3, <2>4, <2>5, NoSources DEF PolicyInv, At, Running
<1>2. ASSUME NEW p \in Publishers, ReadPrevious(p)
      PROVE  PolicyInv'
  <2> DEFINE t == [txn[p] EXCEPT !.stage = "based", !.base = PublicRows(LatestRows)]
  <2>1. PublicRows(LatestRows) \subseteq Row BY LatestTypes DEF PublicRows
  <2>2. t \in Txn BY <1>a, <2>1 DEF Txn, Stages
  <2>3. Running(p) BY <1>2 DEF ReadPrevious, At, Running
  <2>4. SourcesOf(PublicRows(LatestRows)) \subseteq watch[p].ever
    BY <2>3 DEF SourcesOf, PublicRows, PolicyInv
  <2>5. /\ t.stage # "idle" /\ t.batch = txn[p].batch
        /\ t.base = PublicRows(LatestRows) /\ t.version = txn[p].version
    BY <1>a DEF Txn
  <2>6. txn' = [txn EXCEPT ![p] = t] BY <1>2 DEF ReadPrevious
  <2>7. watch' = watch /\ public' = public BY <1>2 DEF ReadPrevious, candVars
  <2> HIDE DEF t
  <2> QED BY <2>2, <2>3, <2>4, <2>5, <2>6, <2>7, RunPolicy DEF PolicyInv
<1>3. ASSUME NEW p \in Publishers, ReadClock(p) \/ ReadNames(p)
      PROVE  PolicyInv'
  <2>1. /\ txn'[p].stage \in {"timed", "named"}
        /\ txn'[p].batch = txn[p].batch
        /\ txn'[p].base = txn[p].base
        /\ txn'[p].version.rows = txn[p].version.rows
        /\ \A q \in Publishers \ {p} : txn'[q] = txn[q]
    BY <1>a, <1>3, TimedKeeps, NamedKeeps
  <2>2. Running(p) BY <1>3 DEF ReadClock, ReadNames, At, Running
  <2>3. public' = public BY <1>3 DEF ReadClock, ReadNames, candVars
  <2>4. \A q \in Publishers : watch'[q].ever = watch[q].ever
    BY <1>b, <1>3 DEF ReadClock, ReadNames, Watch
  <2> QED BY <2>1, <2>2, <2>3, <2>4 DEF PolicyInv, At, Running
<1>4. ASSUME NEW p \in Publishers, Insert(p)
      PROVE  PolicyInv'
  <2> DEFINE t == [txn[p] EXCEPT !.stage = "inserted"]
  <2>1. /\ t \in Txn /\ t.stage # "idle" /\ t.batch = txn[p].batch
        /\ t.base = txn[p].base /\ t.version = txn[p].version
    BY <1>a DEF Txn, Stages
  <2>2. Running(p) BY <1>4 DEF Insert, At, Running
  <2>3. txn' = [txn EXCEPT ![p] = t] BY <1>4 DEF Insert
  <2>4. watch' = watch /\ public' = public BY <1>4 DEF Insert, candVars
  <2> HIDE DEF t
  <2> QED BY <2>1, <2>2, <2>3, <2>4, RunPolicy DEF PolicyInv
<1>5. ASSUME NEW p \in Publishers, InsertRefused(p) \/ WriteRefused(p) \/ Crash(p) \/ Commit(p)
      PROVE  PolicyInv'
  BY <1>5, EndPolicy DEF InsertRefused, WriteRefused, Crash, Commit, RollBack, candVars
<1>6. ASSUME NEW p \in Publishers, WriteRows(p)
      PROVE  PolicyInv'
  <2>1. txn[p] \in Txn /\ txn[p].version \in Version BY <1>a DEF Txn
  <2>2. /\ txn'[p].stage = "written"
        /\ txn'[p].batch = txn[p].batch
        /\ txn'[p].base = txn[p].base
        /\ txn'[p].version.rows = NewRows(p)
    BY <1>a, <1>6, <2>1 DEF WriteRows, Txn, Version
  <2>3. SourcesOf(NewRows(p)) \subseteq SourcesOf(txn[p].base) \cup SourcesOf(txn[p].batch)
    BY CarriedTypes DEF NewRows, SourcesOf
  <2>4. \A q \in Publishers \ {p} : txn'[q] = txn[q] BY <1>a, <1>6 DEF WriteRows
  <2>5. Running(p) BY <1>6 DEF WriteRows, At, Running
  <2>6. watch' = watch /\ public' = public BY <1>6 DEF WriteRows, candVars
  <2> QED BY <2>2, <2>3, <2>4, <2>5, <2>6 DEF PolicyInv, At, Running
<1>7. CASE Elsewhere
  <2>1. \A q \in Publishers : /\ watch[q].ever \subseteq watch'[q].ever
                              /\ Running(q) => public' \subseteq watch'[q].ever
    BY <1>b, <1>7 DEF Elsewhere, Watching, Watch
  <2>2. txn' = txn BY <1>7 DEF Elsewhere
  <2> QED BY <2>1, <2>2 DEF PolicyInv, At, Running
<1>8. CASE Midnight
  BY <1>8 DEF Midnight, PolicyInv, At, Running, candVars
<1> QED
  BY <1>1, <1>2, <1>3, <1>4, <1>5, <1>6, <1>7, <1>8 DEF Next, Advance

LEMMA PolicyAlways == Safety => [](TypeOK /\ PolicyInv)
<1>1. Init => TypeOK /\ PolicyInv
  <2> SUFFICES ASSUME Init PROVE PolicyInv
    BY TypeInit
  <2>1. \A p \in Publishers : txn[p] = Idle /\ ~Running(p)
    BY IdleTypes DEF Init, Running, At
  <2> QED BY <2>1, NoSources DEF PolicyInv, Running
<1>2. TypeOK /\ PolicyInv /\ [Next]_vars => TypeOK' /\ PolicyInv'
  <2>1. ASSUME PolicyInv, UNCHANGED vars PROVE PolicyInv'
    BY <2>1 DEF PolicyInv, At, Running, vars, candVars, pubVars
  <2> QED BY <2>1, PolicyStep, TypeStep, TypeStutter
<1> QED BY <1>1, <1>2, PTL DEF Safety

\* A source made private before a publish starts, and not made public again while
\* it runs, has no row in the version it commits: neither the candidates selected
\* nor the rows carried forward bring it back.
THEOREM RevokedStaysOut == Safety => []RevokedNotRepublished
<1>1. PolicyInv => RevokedNotRepublished BY DEF PolicyInv, RevokedNotRepublished
<1> QED BY <1>1, PolicyAlways, PTL

\* Policies change, and no source that was public becomes private.
NoneRevoked == [][public \subseteq public']_vars

OnlyGrown ==
  /\ \A p \in Publishers : watch[p].ever \subseteq public
  /\ \A v \in versions : SourcesOf(v.rows) \subseteq public

LEMMA GrownStep ==
  ASSUME TypeOK, PolicyInv, OnlyGrown, public \subseteq public', Next
  PROVE  OnlyGrown'
<1>a. watch \in [Publishers -> Watch] BY DEF TypeOK
<1>1. \A p \in Publishers : watch'[p].ever \in {watch[p].ever, {}, public, watch[p].ever \cup public'}
  <2>1. ASSUME NEW p \in Publishers, NEW f \in Filters, Select(p, f)
        PROVE  \A q \in Publishers : watch'[q].ever \in {watch[q].ever, public}
    BY <1>a, <2>1 DEF Select
  <2>2. ASSUME NEW p \in Publishers, RollBack(p) \/ Commit(p)
        PROVE  \A q \in Publishers : watch'[q].ever \in {watch[q].ever, {}}
    BY <1>a, <2>2, IdleTypes DEF RollBack, Commit
  <2>3. ASSUME NEW p \in Publishers,
               ReadPrevious(p) \/ ReadClock(p) \/ ReadNames(p) \/ Insert(p) \/ WriteRows(p)
        PROVE  \A q \in Publishers : watch'[q].ever = watch[q].ever
    <3>1. CASE ReadNames(p)
      <4>1. watch' = [watch EXCEPT ![p].overtaken = ~NewestOfDay(txn[p].version)]
        BY <3>1 DEF ReadNames
      <4> QED BY <1>a, <4>1 DEF Watch
    <3>2. CASE ReadPrevious(p) \/ ReadClock(p) BY <3>2 DEF ReadPrevious, ReadClock
    <3>3. CASE Insert(p) \/ WriteRows(p) BY <3>3 DEF Insert, WriteRows
    <3> QED BY <2>3, <3>1, <3>2, <3>3
  <2>4. CASE Elsewhere BY <1>a, <2>4 DEF Elsewhere, Watching, Watch
  <2>5. CASE Midnight BY <2>5 DEF Midnight
  <2> QED
    BY <2>1, <2>2, <2>3, <2>4, <2>5 DEF Next, Advance, InsertRefused, WriteRefused, Crash
<1>2. \A p \in Publishers : watch'[p].ever \subseteq public'
  BY <1>1 DEF OnlyGrown
<1>3. ASSUME NEW p \in Publishers, Commit(p)
      PROVE  \A v \in versions' : SourcesOf(v.rows) \subseteq public'
  <2>1. SourcesOf(txn[p].version.rows) \subseteq public BY DEF PolicyInv, OnlyGrown
  <2>2. versions' = versions \cup {txn[p].version} /\ public' = public BY <1>3 DEF Commit
  <2> QED BY <2>1, <2>2 DEF OnlyGrown
<1>4. ASSUME \A p \in Publishers : ~Commit(p) PROVE versions' = versions
  <2>1. ASSUME NEW p \in Publishers, NEW f \in Filters, Select(p, f) PROVE versions' = versions
    BY <2>1 DEF Select
  <2>2. ASSUME NEW p \in Publishers, RollBack(p) PROVE versions' = versions
    BY <2>2 DEF RollBack
  <2>3. ASSUME NEW p \in Publishers,
               ReadPrevious(p) \/ ReadClock(p) \/ ReadNames(p) \/ Insert(p) \/ WriteRows(p)
        PROVE  versions' = versions
    BY <2>3 DEF ReadPrevious, ReadClock, ReadNames, Insert, WriteRows
  <2>4. CASE Elsewhere \/ Midnight BY <2>4 DEF Elsewhere, Midnight
  <2> QED
    BY <1>4, <2>1, <2>2, <2>3, <2>4 DEF Next, Advance, InsertRefused, WriteRefused, Crash
<1>5. \A v \in versions' : SourcesOf(v.rows) \subseteq public'
  BY <1>3, <1>4 DEF OnlyGrown
<1> QED BY <1>2, <1>5 DEF OnlyGrown

\* As long as no policy is revoked, every row of every version is of a public source.
THEOREM VersionsArePublic ==
  Safety /\ NoneRevoked => [](\A v \in versions : SourcesOf(v.rows) \subseteq public)
<1>1. Init => OnlyGrown BY IdleTypes DEF Init, OnlyGrown
<1>2. TypeOK /\ PolicyInv /\ OnlyGrown /\ [public \subseteq public']_vars /\ [Next]_vars => OnlyGrown'
  <2>1. ASSUME OnlyGrown, UNCHANGED vars PROVE OnlyGrown'
    BY <2>1 DEF OnlyGrown, vars, candVars, pubVars
  <2> QED BY <2>1, GrownStep
<1>3. OnlyGrown => \A v \in versions : SourcesOf(v.rows) \subseteq public BY DEF OnlyGrown
<1> QED BY <1>1, <1>2, <1>3, PolicyAlways, PTL DEF Safety, NoneRevoked

=============================================================================
