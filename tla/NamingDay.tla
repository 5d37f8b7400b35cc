----------------------------- MODULE NamingDay ------------------------------
(***************************************************************************)
(* Publishes that run one after another: which names they choose over the  *)
(* days.  The rest of a publish is in module Publication.                  *)
(***************************************************************************)
EXTENDS VersionNames

CONSTANTS
  MaxDay,     \* bound: calendar days
  MaxPatch    \* bound: versions a day

VARIABLES
  day,        \* today's date
  names       \* names of the committed versions

namingVars == <<day, names>>

Today == {n.patch : n \in {m \in names : m.day = day}}
Chosen == {[day |-> day, patch |-> n] : n \in NextPatches(Today)}

\* create_published_dataset_version: the insert fails on a name that exists.
CreateVersion ==
  /\ \A n \in Today : n < MaxPatch
  /\ \E name \in Chosen :
       /\ name \notin names
       /\ names' = names \cup {name}
  /\ UNCHANGED day

NextDay ==
  /\ day < MaxDay
  /\ day' = day + 1
  /\ UNCHANGED names

NamingInit == day = 1 /\ names = {}
NamingNext == CreateVersion \/ NextDay
NamingSpec == NamingInit /\ [][NamingNext]_namingVars

\* ADR 0006 (decision 4): "each publish creates a new dataset version".  So the
\* name a publish that runs alone chooses is not taken.
NameFree == Chosen \cap names = {}

=============================================================================
