---------------------------- MODULE VersionNames ----------------------------
(***************************************************************************)
(* The name of a new dataset version (schedules/dataset.py): the date, a   *)
(* dot and a patch number one above that of the name which is largest AS A *)
(* STRING among today's names.                                             *)
(***************************************************************************)
EXTENDS Naturals

NameBound == 99 \* bound: patches have at most two digits

\* The order of the decimal strings of 1..99: 1 < 10 < 11 < ... < 2 < 20 < ...
StringRank(n) == IF n < 10 THEN 11 * n ELSE 11 * (n \div 10) + (n % 10) + 1

LastPatches(patches) == {n \in patches : \A m \in patches : StringRank(m) <= StringRank(n)}

\* Mutant: the patch is drawn from a sequence, which skips numbers.
SequencePatches(patches) ==
  IF patches = {} THEN {1, 2} ELSE {n + k : n \in LastPatches(patches), k \in 1..2}

\* A singleton: StringRank is injective.
NextPatches(patches) == IF patches = {} THEN {1} ELSE {n + 1 : n \in LastPatches(patches)}

=============================================================================
