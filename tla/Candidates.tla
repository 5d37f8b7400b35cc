----------------------------- MODULE Candidates -----------------------------
(***************************************************************************)
(* Schedule candidates of the UK Jamaat Directory: the private rows an     *)
(* import, a crawl or a contribution writes (schedules/candidates.py), the *)
(* validator that approves or rejects them (schedules/publication.py,      *)
(* evaluation.py, validation.py), the moderator (approval.py,              *)
(* services/schedule_moderation.py) and the publication policy of their    *)
(* sources (services/admin_sources.py).                                    *)
(*                                                                         *)
(* Each operation is one database transaction.  Those that decide from a   *)
(* handful of rows and commit at once are one action; batch validation     *)
(* reads every active row first and writes verdicts at its end, so it is   *)
(* two, and anything may happen in between (PostgreSQL READ COMMITTED).    *)
(***************************************************************************)
EXTENDS Naturals, FiniteSets

CONSTANTS
  Cands,      \* identities of candidate rows
  Sources,    \* mosque_sources rows
  Slots,      \* sessions: (mosque, date, prayer, session number)
  Values,     \* what a row says: (jamaat, start, label, timezone)
  Bad,        \* values with a hard validation error
  NoValue,    \* stands for the value of a row that does not exist yet
  SourceOf,   \* candidate -> its source
  SlotOf,     \* candidate -> its session
  Manual,     \* candidates _requires_manual_approval holds of
  Ai,         \* candidates of an AI extraction run
  AllowAi     \* settings.publish_allow_ai

ASSUME CandidatesAssumption ==
  /\ Bad \subseteq Values
  /\ NoValue \notin Values
  /\ SourceOf \in [Cands -> Sources]
  /\ SlotOf \in [Cands -> Slots]
  /\ Ai \subseteq Manual
  /\ Manual \subseteq Cands
  /\ AllowAi \in BOOLEAN

VARIABLES
  cand,       \* candidate -> [status, val]; "absent" before it is inserted
  public,     \* sources whose policy is public_redistribution_allowed
  verdicts    \* statuses a running batch validation has decided, not yet written

candVars == <<cand, public, verdicts>>

Statuses == {"absent", "pending", "approved", "rejected", "superseded"}
ActiveStatuses == {"pending", "approved"}
CandidateRow ==
  [status : Statuses \ {"absent"}, val : Values] \cup [status : {"absent"}, val : {NoValue}]

NoVerdicts == [c \in {} |-> "pending"]

-----------------------------------------------------------------------------
(* Evaluation of one candidate. *)

Active(c) == cand[c].status \in ActiveStatuses
Present(c) == cand[c].status # "absent"
Existing == {c \in Cands : Present(c)}

\* Other active candidates of the same natural key; the source is in the key.
Rivals(c) ==
  {d \in Cands \ {c} : Active(d) /\ SlotOf[d] = SlotOf[c] /\ SourceOf[d] = SourceOf[c]}

IsValid(c) == cand[c].val \notin Bad /\ Rivals(c) = {}

CanPublish(c) == SourceOf[c] \in public /\ (c \in Ai => AllowAi)

\* Mutant: a duplicate is taken for one that was replaced.
SupersedeInvalid(c) ==
  IF ~IsValid(c) THEN "superseded" ELSE IF c \in Manual THEN "pending" ELSE "approved"

StatusAfterValidation(c) ==
  IF ~IsValid(c) THEN "rejected" ELSE IF c \in Manual THEN "pending" ELSE "approved"

-----------------------------------------------------------------------------
(* Imports, crawls and contributions: upsert_schedule_candidate. *)

Written(v) == [status |-> "pending", val |-> v]

\* No active row of this key is visible: insert one.  Two imports that overlap
\* do not see each other's uncommitted row, so a rival may exist by now.
UpsertInsert(c, v) ==
  /\ ~Present(c)
  /\ cand' = [cand EXCEPT ![c] = Written(v)]
  /\ UNCHANGED <<public, verdicts>>

\* The row found comes from another extraction run: supersede it, insert anew.
UpsertSupersede(old, c, v) ==
  /\ ~Present(c)
  /\ old \in Rivals(c)
  /\ cand' = [cand EXCEPT ![old].status = "superseded", ![c] = Written(v)]
  /\ UNCHANGED <<public, verdicts>>

\* The row found comes from this extraction run and differs: rewrite it in place.
UpsertInPlace(c, v) ==
  /\ Active(c)
  /\ v # cand[c].val
  /\ cand' = [cand EXCEPT ![c] = Written(v)]
  /\ UNCHANGED <<public, verdicts>>

-----------------------------------------------------------------------------
(* Batch validation: validate_candidates. *)

\* Load the active rows of the sources S and decide.  Only a status that differs
\* from the one loaded is written back.
ValidateRead(S) ==
  LET loaded == {c \in Cands : Active(c) /\ SourceOf[c] \in S}
      changed == {c \in loaded : StatusAfterValidation(c) # cand[c].status}
  IN /\ verdicts = NoVerdicts
     /\ changed # {}
     /\ verdicts' = [c \in changed |-> StatusAfterValidation(c)]
     /\ UNCHANGED <<cand, public>>

ValidateWrite ==
  /\ verdicts # NoVerdicts
  /\ cand' = [c \in Cands |->
                IF c \in DOMAIN verdicts THEN [cand[c] EXCEPT !.status = verdicts[c]]
                ELSE cand[c]]
  /\ verdicts' = NoVerdicts
  /\ UNCHANGED public

\* The worker or its connection dies before the commit.
ValidateCrash ==
  /\ verdicts # NoVerdicts
  /\ verdicts' = NoVerdicts
  /\ UNCHANGED <<cand, public>>

-----------------------------------------------------------------------------
(* Moderators and source administration. *)

\* approve_candidate looks a row up by id, whatever its status, and evaluates it.
Approve(c) ==
  /\ Present(c)
  /\ CanPublish(c)
  /\ IsValid(c)
  /\ StatusAfterValidation(c) = "approved"
  /\ cand' = [cand EXCEPT ![c].status = "approved"]
  /\ UNCHANGED <<public, verdicts>>

Reject(c) ==
  /\ Present(c)
  /\ cand' = [cand EXCEPT ![c].status = "rejected"]
  /\ UNCHANGED <<public, verdicts>>

\* An administrator, or an import that carries its own policy, changes a policy.
SetPolicy(s) ==
  /\ public' = IF s \in public THEN public \ {s} ELSE public \cup {s}
  /\ UNCHANGED <<cand, verdicts>>

-----------------------------------------------------------------------------

CandInit ==
  /\ cand = [c \in Cands |-> [status |-> "absent", val |-> NoValue]]
  /\ public \in SUBSET Sources
  /\ verdicts = NoVerdicts

CandNext ==
  \/ \E c \in Cands, v \in Values : UpsertInsert(c, v)
  \/ \E old, c \in Cands, v \in Values : UpsertSupersede(old, c, v)
  \/ \E c \in Cands, v \in Values : UpsertInPlace(c, v)
  \/ \E S \in SUBSET Sources : ValidateRead(S)
  \/ ValidateWrite
  \/ ValidateCrash
  \/ \E c \in Cands : Approve(c)
  \/ \E c \in Cands : Reject(c)
  \/ \E s \in Sources : SetPolicy(s)

\* Rows are never deleted, so a verdict names a row that still exists.
CandTypeOK ==
  /\ cand \in [Cands -> CandidateRow]
  /\ public \subseteq Sources
  /\ \E D \in SUBSET Existing : verdicts \in [D -> Statuses \ {"absent", "superseded"}]

=============================================================================
