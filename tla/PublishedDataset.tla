-------------------------- MODULE PublishedDataset --------------------------
(***************************************************************************)
(* What the Directory promises the readers of its timetable: publishing is *)
(* atomic.  A publish takes what is approved in its scope when it is       *)
(* called, and at its end makes of the dataset served at THAT moment the   *)
(* next one: its own batch, and when it is partial every other row of a    *)
(* public source whose session the batch does not cover.  Nothing else     *)
(* changes what readers are served, and a publish that fails, nothing.     *)
(*                                                                         *)
(* Policies may change while a publish runs: a source that was not public  *)
(* all the time counts as the publish likes.                               *)
(***************************************************************************)
CONSTANTS
  Row,            \* occurrences
  SlotOfRow(_),   \* the session of an occurrence
  SourceOfRow(_), \* its source
  InScope(_, _),  \* whether a filter covers it
  Filters,        \* the filters a publish may be called with
  Sources,
  Publishers

VARIABLES
  rows,       \* the dataset served
  approved,   \* the rows that could be published now
  public,     \* the sources that may be published
  calls       \* publisher -> what its publish was called with, {} when it runs none

dataVars == <<rows, approved, public, calls>>

SessionsOf(R) == {SlotOfRow(r) : r \in R}
NoSlotTwice(R) == \A r, q \in R : SlotOfRow(r) = SlotOfRow(q) => r = q

Init ==
  /\ rows = {}
  /\ calls = [p \in Publishers |-> {}]

Call(p) ==
  /\ calls[p] = {}
  /\ \E f \in Filters :
       LET batch == {r \in approved : InScope(r, f)}
       IN /\ batch # {}
          /\ calls' = [calls EXCEPT ![p] =
               {[batch |-> batch, partial |-> f.partial, ever |-> public, always |-> public]}]
  /\ UNCHANGED <<rows, approved, public>>

NextRows(c, S) ==
  c.batch \cup
    (IF c.partial
     THEN {r \in rows : SourceOfRow(r) \in S /\ SlotOfRow(r) \notin SessionsOf(c.batch)}
     ELSE {})

\* What was published cannot be published again; a rival of it may be published now.
Publish(p) ==
  /\ \E c \in calls[p], S \in SUBSET Sources :
       /\ c.always \subseteq S /\ S \subseteq c.ever
       /\ rows' = NextRows(c, S)
       /\ NoSlotTwice(rows')
       /\ approved' \subseteq Row
       /\ {r \in approved : \A b \in c.batch : b.cand # r.cand} \subseteq approved'
       /\ \A r \in approved', b \in c.batch : b.cand # r.cand
  /\ calls' = [calls EXCEPT ![p] = {}]
  /\ UNCHANGED public

Fail(p) ==
  /\ calls[p] # {}
  /\ calls' = [calls EXCEPT ![p] = {}]
  /\ UNCHANGED <<rows, approved, public>>

\* A call that has seen the policies P, too.
Seeing(c, P) ==
  [batch |-> c.batch, partial |-> c.partial, ever |-> c.ever \cup P, always |-> c.always \cap P]

\* Imports, reviews and policies go their way.
Elsewhere ==
  /\ approved' \subseteq Row
  /\ public' \subseteq Sources
  /\ calls' = [p \in Publishers |-> {Seeing(c, public') : c \in calls[p]}]
  /\ UNCHANGED rows

Next == Elsewhere \/ \E p \in Publishers : Call(p) \/ Publish(p) \/ Fail(p)

Spec == Init /\ [][Next]_dataVars

=============================================================================
