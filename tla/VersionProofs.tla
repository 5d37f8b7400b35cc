---------------------------- MODULE VersionProofs ---------------------------
(***************************************************************************)
(* How the unique index on version names orders publishes that race.       *)
(* Nothing in the code makes them take turns.  That only one writes a      *)
(* version of a day at a time, and that a version is the newest of its day *)
(* unless its publish was overtaken before it read the names, follows from *)
(* the names they choose: each chooses the successor of the names it saw,  *)
(* and a name is taken once.                                               *)
(***************************************************************************)
EXTENDS PublicationProofs

LastName == 10 \* the largest patch NextPatches returns

Timed(p) == txn[p].stage \in {"timed", "named", "inserted", "written"}
Named(p) == txn[p].stage \in {"named", "inserted", "written"}

\* A version's name is at most one above those committed on its day.
Placed(w) ==
  /\ w.name.patch \in 1..LastName
  /\ 1..(w.name.patch - 1) \subseteq PatchesOf(w.name.day)

\* Names committed on a day are 1..k for some k, at most LastName; a publisher's
\* name is at most k + 1, and while it is still free its version is the newest of
\* that day, if it was when the publisher read the names.
NamesInv ==
  /\ \A d \in 1..MaxDay : \A n \in PatchesOf(d) : n \in 1..LastName /\ 1..n \subseteq PatchesOf(d)
  /\ \A v \in versions : v.at < clock
  /\ \A p \in Publishers : Timed(p) => txn[p].version.at < clock
  /\ \A p \in Publishers : Named(p) =>
       /\ Placed(txn[p].version)
       /\ NameTaken(p) \/ watch[p].overtaken \/ NewestOfDay(txn[p].version)
  /\ \A p \in Publishers : Inserted(p) => ~NameTaken(p) /\ ~NameHeld(p)

\* The successor of names 1..k is k + 1, but of names 1..10 it is 10.
LEMMA NextPatchBounds ==
  ASSUME NEW S, \A m \in S : m \in 1..LastName /\ 1..m \subseteq S,
         NEW n \in NextPatches(S)
  PROVE  n \in 1..LastName /\ 1..(n - 1) \subseteq S
<1>1. CASE S = {}
  BY <1>1 DEF NextPatches, LastName
<1>2. CASE S # {}
  <2>1. PICK m \in LastPatches(S) : n = m + 1
    BY <1>2 DEF NextPatches
  <2>2. m \in S /\ m \in 1..LastName /\ 1..m \subseteq S
    BY <2>1 DEF LastPatches
  <2>3. m # 10
    <3>1. SUFFICES ASSUME m = 10 PROVE FALSE OBVIOUS
    <3>2. 9 \in S BY <2>2, <3>1
    <3>3. StringRank(9) <= StringRank(10) BY <2>1, <3>1, <3>2 DEF LastPatches
    <3>4. StringRank(9) = 99 /\ StringRank(10) = 12 BY DEF StringRank
    <3> QED BY <3>3, <3>4
  <2> QED BY <2>1, <2>2, <2>3 DEF LastName
<1> QED BY <1>1, <1>2

\* A publisher that ends without committing frees its name.
LEMMA RollBackNames ==
  ASSUME TypeOK, NamesInv, NEW p \in Publishers, RollBack(p)
  PROVE  NamesInv'
<1>1. \A q \in Publishers : txn'[q] = IF q = p THEN Idle ELSE txn[q]
  BY DEF TypeOK, RollBack
<1>2. versions' = versions /\ clock' = clock BY DEF RollBack
<1>a. \A q \in Publishers \ {p} : watch'[q] = watch[q] BY DEF TypeOK, RollBack
<1>3. ~Named(p)' /\ ~Inserted(p)' /\ ~Timed(p)' BY <1>1, IdleTypes DEF Named, Inserted, Timed
<1>4. \A d : PatchesOf(d)' = PatchesOf(d) BY <1>2 DEF PatchesOf, Names
<1>5. Names' = Names BY <1>2 DEF Names
<1>6. \A q \in Publishers \ {p} : /\ Named(q)' = Named(q)
                                  /\ Inserted(q)' = Inserted(q)
                                  /\ NameTaken(q)' = NameTaken(q)
                                  /\ NameHeld(q)' => NameHeld(q)
  BY <1>1, <1>3, <1>5 DEF Named, Inserted, NameTaken, NameHeld
<1>7. ASSUME NEW q \in Publishers, Named(q)'
      PROVE  /\ Placed(txn[q].version)'
             /\ NameTaken(q)' \/ watch'[q].overtaken \/ NewestOfDay(txn[q].version)'
  <2>1. q # p /\ Named(q) /\ txn'[q] = txn[q] /\ watch'[q] = watch[q] /\ NameTaken(q)' = NameTaken(q)
    BY <1>1, <1>a, <1>3, <1>6, <1>7
  <2> QED BY <1>2, <1>4, <2>1 DEF NamesInv, Placed, NewestOfDay
<1>8. \A q \in Publishers : Timed(q)' => Timed(q) /\ txn'[q] = txn[q]
  BY <1>1, <1>3 DEF Timed
<1>9. \A q \in Publishers : Inserted(q)' => ~NameTaken(q)' /\ ~NameHeld(q)'
  BY <1>3, <1>6 DEF NamesInv
<1> QED BY <1>2, <1>4, <1>7, <1>8, <1>9 DEF NamesInv

\* A step of one publisher that commits nothing, does not choose a name and leaves
\* its version's name and time alone.
LEMMA RunNames ==
  ASSUME TypeOK, NamesInv, NEW p \in Publishers,
         txn' \in [Publishers -> Txn],
         \A q \in Publishers \ {p} : txn'[q] = txn[q],
         txn'[p].version.name = txn[p].version.name,
         txn'[p].version.at = txn[p].version.at,
         Named(p)' = Named(p),
         Timed(p)' = Timed(p),
         \A q \in Publishers : Named(q) => watch'[q].overtaken = watch[q].overtaken,
         Inserted(p)' => Inserted(p) \/ (~NameTaken(p) /\ ~NameHeld(p)),
         versions' = versions,
         clock' = clock
  PROVE  NamesInv'
<1>1. \A d : PatchesOf(d)' = PatchesOf(d) BY DEF PatchesOf, Names
<1>2. \A q \in Publishers : NameTaken(q)' = NameTaken(q) BY DEF NameTaken, Names
<1>3. \A q \in Publishers : Named(q)' = Named(q) BY DEF Named
<1>4. ASSUME NEW q \in Publishers, Inserted(q)'
      PROVE  ~NameTaken(q)' /\ ~NameHeld(q)'
  <2>1. ~NameTaken(q) BY <1>4 DEF NamesInv, Inserted
  <2>2. ASSUME NEW r \in Publishers, r # q, Inserted(r)',
               txn'[r].version.name = txn'[q].version.name
        PROVE  FALSE
    <3>1. txn[r].version.name = txn[q].version.name BY <2>2
    <3>2. CASE Inserted(q) /\ Inserted(r) BY <2>2, <3>1, <3>2 DEF NamesInv, NameHeld
    <3>3. CASE ~Inserted(q)
      <4>1. q = p /\ ~NameHeld(p) BY <1>4, <3>3 DEF Inserted
      <4>2. Inserted(r) BY <2>2, <4>1 DEF Inserted
      <4> QED BY <2>2, <3>1, <4>1, <4>2 DEF NameHeld
    <3>4. CASE ~Inserted(r)
      <4>1. r = p /\ ~NameHeld(p) BY <2>2, <3>4 DEF Inserted
      <4>2. Inserted(q) BY <1>4, <2>2, <4>1 DEF Inserted
      <4> QED BY <2>2, <3>1, <4>1, <4>2 DEF NameHeld
    <3> QED BY <3>2, <3>3, <3>4
  <2> QED BY <1>2, <2>1, <2>2 DEF NameHeld
<1>5. \A q \in Publishers : /\ txn'[q].version.name = txn[q].version.name
                            /\ txn'[q].version.at = txn[q].version.at
  OBVIOUS
<1>6. \A q \in Publishers : Timed(q)' = Timed(q) BY DEF Timed
<1>7. ASSUME NEW q \in Publishers, Named(q)'
      PROVE  /\ Placed(txn[q].version)'
             /\ NameTaken(q)' \/ watch'[q].overtaken \/ NewestOfDay(txn[q].version)'
  <2>1. Named(q) /\ watch'[q].overtaken = watch[q].overtaken BY <1>3, <1>7
  <2> QED BY <1>1, <1>2, <1>5, <2>1 DEF NamesInv, Placed, NewestOfDay
<1> QED BY <1>1, <1>4, <1>5, <1>6, <1>7 DEF NamesInv

\* Reading the clock: it has passed every version there is.
LEMMA ReadTime ==
  ASSUME TypeOK, NamesInv, NEW p \in Publishers, ReadClock(p), TypeOK'
  PROVE  NamesInv'
<1>1. /\ versions' = versions /\ watch' = watch /\ clock' = clock + 1 /\ clock \in Nat
      /\ txn \in [Publishers -> Txn]
  BY DEF ReadClock, TypeOK
<1>2. /\ txn'[p].stage = "timed" /\ txn'[p].version.at = clock
      /\ \A q \in Publishers \ {p} : txn'[q] = txn[q]
  BY <1>1, TimedKeeps
<1>3. \A d : PatchesOf(d)' = PatchesOf(d) BY <1>1 DEF PatchesOf, Names
<1>4. Names' = Names BY <1>1 DEF Names
<1>5. ~Named(p)' /\ ~Inserted(p)' BY <1>2 DEF Named, Inserted
<1>6. ASSUME NEW q \in Publishers, Named(q)'
      PROVE  /\ Placed(txn[q].version)'
             /\ NameTaken(q)' \/ watch'[q].overtaken \/ NewestOfDay(txn[q].version)'
  <2>1. q # p /\ txn'[q] = txn[q] /\ Named(q) BY <1>2, <1>5, <1>6 DEF Named
  <2>2. NameTaken(q)' = NameTaken(q) BY <1>4, <2>1 DEF NameTaken
  <2> QED BY <1>1, <1>3, <2>1, <2>2 DEF NamesInv, Placed, NewestOfDay
<1>7. ASSUME NEW q \in Publishers, Inserted(q)'
      PROVE  ~NameTaken(q)' /\ ~NameHeld(q)'
  <2>1. q # p /\ txn'[q] = txn[q] /\ Inserted(q) BY <1>2, <1>5, <1>7 DEF Inserted
  <2>2. \A r \in Publishers : Inserted(r)' => r # p /\ Inserted(r) /\ txn'[r] = txn[r]
    BY <1>2, <1>5 DEF Inserted
  <2> QED BY <1>4, <2>1, <2>2 DEF NamesInv, NameTaken, NameHeld
<1>8. ASSUME NEW q \in Publishers, Timed(q)' PROVE txn'[q].version.at < clock'
  <2>1. CASE q = p BY <1>1, <1>2, <2>1
  <2>2. CASE q # p
    <3>1. Timed(q) /\ txn'[q] = txn[q] BY <1>2, <1>8, <2>2 DEF Timed
    <3>2. txn[q].version.at \in Nat BY DEF TypeOK, Txn, Version
    <3> QED BY <1>1, <3>1, <3>2 DEF NamesInv
  <2> QED BY <2>1, <2>2
<1>9. \A v \in versions' : v.at < clock' BY <1>1 DEF NamesInv, TypeOK, Version
<1>10. \A d \in 1..MaxDay : \A m \in PatchesOf(d)' : m \in 1..LastName /\ 1..m \subseteq PatchesOf(d)'
  BY <1>3 DEF NamesInv
<1> QED BY <1>6, <1>7, <1>8, <1>9, <1>10 DEF NamesInv

\* What a publisher finds when it reads the names is remembered.
LEMMA Remembered ==
  ASSUME TypeOK, NEW p \in Publishers, ReadNames(p)
  PROVE  watch'[p].overtaken \/ NewestOfDay(txn[p].version)
<1> DEFINE newest == NewestOfDay(txn[p].version)
<1>1. watch' = [watch EXCEPT ![p].overtaken = ~newest] BY DEF ReadNames
<1>2. watch[p] \in Watch /\ watch \in [Publishers -> Watch] BY DEF TypeOK
<1> HIDE DEF newest
<1>3. watch'[p].overtaken = ~newest BY <1>1, <1>2, ZenonT(60) DEF Watch
<1>4. watch'[p].overtaken \/ newest BY <1>3, Zenon
<1> QED BY <1>4 DEF newest

\* Choosing a name: it follows those committed.
LEMMA ChooseName ==
  ASSUME TypeOK, NamesInv, NEW p \in Publishers, ReadNames(p), TypeOK'
  PROVE  NamesInv'
<1> DEFINE d == txn[p].version.name.day
<1>1. /\ \A q \in Publishers \ {p} : txn'[q] = txn[q]
      /\ txn'[p].stage = "named"
      /\ txn'[p].version.at = txn[p].version.at
      /\ \E k \in NextPatches(PatchesOf(d)) : txn'[p].version.name = [day |-> d, patch |-> k]
  BY NamedKeeps DEF TypeOK
<1>2. PICK n \in NextPatches(PatchesOf(d)) : txn'[p].version.name = [day |-> d, patch |-> n]
  BY <1>1
<1>3. versions' = versions /\ clock' = clock BY DEF ReadNames
<1>4. \A q \in Publishers \ {p} : watch'[q] = watch[q] BY DEF ReadNames, TypeOK
<1>5. Timed(p) /\ d \in 1..MaxDay BY DEF ReadNames, At, Timed, TypeOK, Txn, Version, Name
<1>6. \A e : PatchesOf(e)' = PatchesOf(e) BY <1>3 DEF PatchesOf, Names
<1>7. Names' = Names BY <1>3 DEF Names
<1>8. n \in 1..LastName /\ 1..(n - 1) \subseteq PatchesOf(d)
  BY <1>5, NextPatchBounds DEF NamesInv
<1>9. ~Inserted(p)' BY <1>1 DEF Inserted
<1>10. txn'[p].version.name.day = d /\ txn'[p].version.name.patch = n BY <1>2
<1> HIDE DEF d
<1>11. NewestOfDay(txn[p].version) => NewestOfDay(txn[p].version)'
  BY <1>1, <1>3, <1>10 DEF NewestOfDay, d
<1>12. ASSUME NEW q \in Publishers, Named(q)'
       PROVE  /\ Placed(txn[q].version)'
              /\ NameTaken(q)' \/ watch'[q].overtaken \/ NewestOfDay(txn[q].version)'
  <2>1. CASE q = p
    <3>1. Placed(txn[p].version)' BY <1>6, <1>8, <1>10 DEF Placed
    <3>2. watch'[p].overtaken \/ NewestOfDay(txn[p].version)' BY <1>11, Remembered
    <3> QED BY <2>1, <3>1, <3>2
  <2>2. CASE q # p
    <3>1. txn'[q] = txn[q] /\ Named(q) BY <1>1, <1>12, <2>2 DEF Named
    <3>2. NameTaken(q)' = NameTaken(q) BY <1>7, <3>1 DEF NameTaken
    <3>3. watch'[q] = watch[q] BY <1>4, <2>2
    <3> QED BY <1>3, <1>6, <3>1, <3>2, <3>3 DEF NamesInv, Placed, NewestOfDay
  <2> QED BY <2>1, <2>2
<1>13. ASSUME NEW q \in Publishers, Inserted(q)'
       PROVE  ~NameTaken(q)' /\ ~NameHeld(q)'
  <2>1. q # p /\ txn'[q] = txn[q] /\ Inserted(q) BY <1>1, <1>9, <1>13 DEF Inserted
  <2>2. \A r \in Publishers : Inserted(r)' => r # p /\ Inserted(r) /\ txn'[r] = txn[r]
    BY <1>1, <1>9 DEF Inserted
  <2> QED BY <1>7, <2>1, <2>2 DEF NamesInv, NameTaken, NameHeld
<1>14. \A q \in Publishers : Timed(q)' => txn'[q].version.at < clock'
  BY <1>1, <1>3, <1>5 DEF NamesInv, Timed
<1>15. \A e \in 1..MaxDay : \A m \in PatchesOf(e)' : m \in 1..LastName /\ 1..m \subseteq PatchesOf(e)'
  BY <1>6 DEF NamesInv
<1> QED BY <1>3, <1>12, <1>13, <1>14, <1>15 DEF NamesInv

\* Committing: the version's name was free, so it is the first free one of its day;
\* whoever chose it too can no longer insert it.
LEMMA CommitName ==
  ASSUME TypeOK, NamesInv, NEW p \in Publishers, Commit(p)
  PROVE  NamesInv'
<1> DEFINE new == txn[p].version
           k == new.name.patch
           e == new.name.day
<1>1. new \in Version /\ new.name \in Name /\ e \in 1..MaxDay /\ k \in Nat /\ new.at \in Nat
  BY DEF TypeOK, Txn, Version, Name
<1>2. Inserted(p) /\ Named(p) /\ Timed(p) BY DEF Commit, At, Inserted, Named, Timed
<1>3. /\ k \in 1..LastName
      /\ 1..(k - 1) \subseteq PatchesOf(e)
      /\ new.at < clock
      /\ ~NameTaken(p)
  BY <1>2 DEF NamesInv, Placed
<1>4. versions' = versions \cup {new} /\ clock' = clock BY DEF Commit
<1>5. Names' = Names \cup {new.name} BY <1>4 DEF Names
<1>6. \A d : PatchesOf(d)' = IF d = e THEN PatchesOf(d) \cup {k} ELSE PatchesOf(d)
  BY <1>5 DEF PatchesOf
<1>7. \A q \in Publishers : txn'[q] = IF q = p THEN Idle ELSE txn[q]
  BY DEF TypeOK, Commit
<1>8. ~Named(p)' /\ ~Inserted(p)' /\ ~Timed(p)' BY <1>7, IdleTypes DEF Named, Inserted, Timed
<1>a. \A q \in Publishers \ {p} : watch'[q] = watch[q] BY DEF Commit, TypeOK
<1>9. \A m \in Name : m \in Names <=> m.patch \in PatchesOf(m.day)
  <2>1. \A m \in Names : m \in Name BY DEF Names, TypeOK, Version
  <2>2. \A m, o \in Name : m.day = o.day /\ m.patch = o.patch => m = o BY DEF Name
  <2> QED BY <2>1, <2>2 DEF PatchesOf
<1>10. k \notin PatchesOf(e) BY <1>1, <1>3, <1>9 DEF NameTaken
<1>11. ASSUME NEW d \in 1..MaxDay, NEW m \in PatchesOf(d)'
       PROVE  m \in 1..LastName /\ 1..m \subseteq PatchesOf(d)'
  <2>1. CASE m \in PatchesOf(d)
    BY <1>6, <2>1 DEF NamesInv
  <2>2. CASE d = e /\ m = k
    <3>1. \A j \in 1..k : j \in 1..(k - 1) \/ j = k BY <1>1
    <3> QED BY <1>3, <1>6, <2>2, <3>1
  <2> QED BY <1>6, <1>11, <2>1, <2>2
<1>12. \A v \in versions' : v.at < clock' BY <1>3, <1>4 DEF NamesInv
<1>13. ASSUME NEW q \in Publishers, Named(q)'
       PROVE  /\ Placed(txn[q].version)'
              /\ NameTaken(q)' \/ watch'[q].overtaken \/ NewestOfDay(txn[q].version)'
  <2> DEFINE w == txn[q].version
             n == w.name.patch
  <2>1. q # p /\ txn'[q] = txn[q] /\ Named(q) /\ watch'[q] = watch[q]
    BY <1>7, <1>8, <1>a, <1>13 DEF Named
  <2>2. Placed(w) /\ (NameTaken(q) \/ watch[q].overtaken \/ NewestOfDay(w)) BY <2>1 DEF NamesInv
  <2>3. Placed(w)' BY <1>4, <1>6, <2>1, <2>2 DEF Placed
  <2>4. NameTaken(q) => NameTaken(q)' BY <1>5, <2>1 DEF NameTaken
  <2>5. w.name \in Name /\ n \in 1..LastName /\ n \in Nat
    BY <2>2 DEF TypeOK, Txn, Version, Name, Placed
  <2>6. CASE w.name.day # e
    BY <1>4, <2>1, <2>2, <2>3, <2>4, <2>6 DEF NewestOfDay
  <2>7. CASE w.name.day = e
    <3>1. CASE k < n
      <4>1. k \in 1..(n - 1) BY <1>1, <1>3, <2>5, <3>1
      <4> QED BY <1>10, <2>2, <2>7, <4>1 DEF Placed
    <3>2. CASE k = n
      <4>1. w.name = new.name BY <1>1, <2>5, <2>7, <3>2 DEF Name
      <4> QED BY <1>5, <2>1, <2>3, <4>1 DEF NameTaken
    <3>3. CASE k > n
      <4>1. n \in 1..(k - 1) BY <1>1, <2>5, <3>3
      <4>2. NameTaken(q) BY <1>3, <1>9, <2>5, <2>7, <4>1 DEF NameTaken
      <4> QED BY <2>3, <2>4, <4>2
    <3> QED BY <1>1, <2>5, <3>1, <3>2, <3>3
  <2> QED BY <2>6, <2>7
<1>14. ASSUME NEW q \in Publishers, Inserted(q)'
       PROVE  ~NameTaken(q)' /\ ~NameHeld(q)'
  <2>1. q # p /\ txn'[q] = txn[q] /\ Inserted(q) BY <1>7, <1>8, <1>14 DEF Inserted
  <2>2. txn[q].version.name # new.name BY <1>2, <2>1 DEF NamesInv, NameHeld
  <2>3. ~NameTaken(q)' BY <1>5, <2>1, <2>2 DEF NamesInv, NameTaken
  <2>4. \A r \in Publishers : Inserted(r)' => r # p /\ Inserted(r) /\ txn'[r] = txn[r]
    BY <1>7, <1>8 DEF Inserted
  <2> QED BY <2>1, <2>3, <2>4 DEF NamesInv, NameHeld
<1>15. \A q \in Publishers : Timed(q)' => txn'[q].version.at < clock'
  BY <1>4, <1>7, <1>8 DEF NamesInv, Timed
<1> QED BY <1>11, <1>12, <1>13, <1>14, <1>15 DEF NamesInv

LEMMA NamesStep ==
  ASSUME TypeOK, NamesInv, Next
  PROVE  NamesInv'
<1>a. txn \in [Publishers -> Txn] BY DEF TypeOK
<1>b. TypeOK' BY TypeStep
<1>1. ASSUME NEW p \in Publishers, NEW f \in Filters, Select(p, f)
      PROVE  NamesInv'
  <2>1. txn'[p].stage = "selected" /\ txn'[p].version = txn[p].version
    BY <1>a, <1>1 DEF Select, Txn
  <2>2. \A q \in Publishers \ {p} : txn'[q] = txn[q] BY <1>a, <1>1 DEF Select
  <2>3. Named(p)' = Named(p) /\ Timed(p)' = Timed(p) /\ ~Inserted(p)' /\ ~Named(p)
    BY <1>1, <2>1 DEF Select, At, Named, Timed, Inserted
  <2>4. versions' = versions /\ clock' = clock BY <1>1 DEF Select
  <2>6. \A q \in Publishers : Named(q) => watch'[q].overtaken = watch[q].overtaken
    BY <1>1, <2>3 DEF Select, TypeOK
  <2>5. txn' \in [Publishers -> Txn] BY <1>b DEF TypeOK
  <2> QED BY <2>1, <2>2, <2>3, <2>4, <2>5, <2>6, RunNames
<1>2. ASSUME NEW p \in Publishers, ReadPrevious(p)
      PROVE  NamesInv'
  <2>1. txn'[p].stage = "based" /\ txn'[p].version = txn[p].version
    BY <1>a, <1>2 DEF ReadPrevious, Txn
  <2>2. \A q \in Publishers \ {p} : txn'[q] = txn[q] BY <1>a, <1>2 DEF ReadPrevious
  <2>3. Named(p)' = Named(p) /\ Timed(p)' = Timed(p) /\ ~Inserted(p)'
    BY <1>2, <2>1 DEF ReadPrevious, At, Named, Timed, Inserted
  <2>4. versions' = versions /\ clock' = clock BY <1>2 DEF ReadPrevious
  <2>6. \A q \in Publishers : Named(q) => watch'[q].overtaken = watch[q].overtaken
    BY <1>2 DEF ReadPrevious
  <2>5. txn' \in [Publishers -> Txn] BY <1>b DEF TypeOK
  <2> QED BY <2>1, <2>2, <2>3, <2>4, <2>5, <2>6, RunNames
<1>3. ASSUME NEW p \in Publishers, ReadClock(p) \/ ReadNames(p)
      PROVE  NamesInv'
  BY <1>b, <1>3, ReadTime, ChooseName
<1>4. ASSUME NEW p \in Publishers, Insert(p)
      PROVE  NamesInv'
  <2>1. txn'[p].stage = "inserted" /\ txn'[p].version = txn[p].version
    BY <1>a, <1>4 DEF Insert, Txn
  <2>2. \A q \in Publishers \ {p} : txn'[q] = txn[q] BY <1>a, <1>4 DEF Insert
  <2>3. Named(p)' = Named(p) /\ Timed(p)' = Timed(p) /\ ~NameTaken(p) /\ ~NameHeld(p)
    BY <1>4, <2>1 DEF Insert, At, Named, Timed
  <2>4. versions' = versions /\ clock' = clock BY <1>4 DEF Insert
  <2>6. \A q \in Publishers : Named(q) => watch'[q].overtaken = watch[q].overtaken
    BY <1>4 DEF Insert
  <2>5. txn' \in [Publishers -> Txn] BY <1>b DEF TypeOK
  <2> QED BY <2>1, <2>2, <2>3, <2>4, <2>5, <2>6, RunNames
<1>5. ASSUME NEW p \in Publishers, InsertRefused(p) \/ WriteRefused(p) \/ Crash(p)
      PROVE  NamesInv'
  BY <1>5, RollBackNames DEF InsertRefused, WriteRefused, Crash
<1>6. ASSUME NEW p \in Publishers, WriteRows(p)
      PROVE  NamesInv'
  <2>0. txn[p] \in Txn /\ txn[p].version \in Version BY <1>a DEF Txn
  <2>1. /\ txn'[p].stage = "written"
        /\ txn'[p].version.name = txn[p].version.name
        /\ txn'[p].version.at = txn[p].version.at
    BY <1>a, <1>6, <2>0 DEF WriteRows, Txn, Version
  <2>2. \A q \in Publishers \ {p} : txn'[q] = txn[q] BY <1>a, <1>6 DEF WriteRows
  <2>3. Named(p)' = Named(p) /\ Timed(p)' = Timed(p) /\ Inserted(p)
    BY <1>6, <2>1 DEF WriteRows, At, Named, Timed, Inserted
  <2>4. versions' = versions /\ clock' = clock BY <1>6 DEF WriteRows
  <2>6. \A q \in Publishers : Named(q) => watch'[q].overtaken = watch[q].overtaken
    BY <1>6 DEF WriteRows
  <2>5. txn' \in [Publishers -> Txn] BY <1>b DEF TypeOK
  <2> QED BY <2>1, <2>2, <2>3, <2>4, <2>5, <2>6, RunNames
<1>7. ASSUME NEW p \in Publishers, Commit(p)
      PROVE  NamesInv'
  BY <1>7, CommitName
<1>8. CASE Elsewhere \/ Midnight
  <2>1. txn' = txn /\ versions' = versions /\ clock' = clock
    BY <1>8 DEF Elsewhere, Midnight
  <2>2. \A q \in Publishers : watch'[q].overtaken = watch[q].overtaken
    BY <1>8 DEF Elsewhere, Midnight, Watching, TypeOK, Watch
  <2>3. \A q \in Publishers :
          /\ Named(q)' = Named(q) /\ Timed(q)' = Timed(q) /\ Inserted(q)' = Inserted(q)
          /\ NameTaken(q)' = NameTaken(q) /\ NameHeld(q)' = NameHeld(q)
          /\ Placed(txn[q].version)' = Placed(txn[q].version)
          /\ NewestOfDay(txn[q].version)' = NewestOfDay(txn[q].version)
    BY <2>1 DEF Named, Timed, Inserted, NameTaken, NameHeld, Names, Placed, NewestOfDay, PatchesOf
  <2>4. \A d : PatchesOf(d)' = PatchesOf(d) BY <2>1 DEF PatchesOf, Names
  <2> QED BY <2>1, <2>2, <2>3, <2>4 DEF NamesInv
<1> QED
  BY <1>1, <1>2, <1>3, <1>4, <1>5, <1>6, <1>7, <1>8 DEF Next, Advance

LEMMA NamesAlways == Safety => [](TypeOK /\ NamesInv)
<1>1. Init => TypeOK /\ NamesInv
  <2> SUFFICES ASSUME Init PROVE NamesInv
    BY TypeInit
  <2>1. \A p \in Publishers : ~Named(p) /\ ~Inserted(p) /\ ~Timed(p)
    BY IdleTypes DEF Init, Named, Timed, Inserted
  <2>2. versions = {} /\ \A d : PatchesOf(d) = {} BY DEF Init, PatchesOf, Names
  <2> QED BY <2>1, <2>2 DEF NamesInv
<1>2. TypeOK /\ NamesInv /\ [Next]_vars => TypeOK' /\ NamesInv'
  <2>1. ASSUME NamesInv, UNCHANGED vars PROVE NamesInv'
    BY <2>1 DEF NamesInv, Placed, NewestOfDay, PatchesOf, Names, Named, Timed, NameTaken,
                NameHeld, Inserted, vars, pubVars
  <2> QED BY <2>1, NamesStep, TypeStep, TypeStutter
<1> QED BY <1>1, <1>2, PTL DEF Safety

\* published_at is read before the names, and those long before the commit.  However
\* many publishers race, a version is committed on top of a newer one of its day only
\* if that one was committed between the two reads: after the names are read, whoever
\* is overtaken is refused.
THEOREM OvertakenInOneWindow == Safety => []NewestUnlessOvertaken
<1>1. TypeOK /\ NamesInv => NewestUnlessOvertaken
  BY DEF NamesInv, NewestUnlessOvertaken, Named, Inserted
<1> QED BY <1>1, NamesAlways, PTL

\* Only one publish of a day is past the insertion of its version, although nothing
\* in the code makes publishes take turns: of two names of a day one is the other, or
\* the successor of a committed name that the other would have to be.
THEOREM OneWriterAtATime == Safety => []OneWriterADay
<1>1. ASSUME TypeOK, NamesInv, NEW p \in Publishers, NEW q \in Publishers, p # q,
             Inserted(p), Inserted(q), txn[p].version.name.day = txn[q].version.name.day
      PROVE  ~(txn[p].version.name.patch < txn[q].version.name.patch)
  <2> DEFINE m == txn[p].version.name
             n == txn[q].version.name
  <2>1. m \in Name /\ n \in Name BY <1>1 DEF TypeOK, Txn, Version
  <2>2. m.patch \in 1..LastName /\ ~NameTaken(p) BY <1>1 DEF NamesInv, Placed, Named, Inserted
  <2>3. 1..(n.patch - 1) \subseteq PatchesOf(m.day) /\ n.patch \in 1..LastName
    BY <1>1 DEF NamesInv, Placed, Named, Inserted
  <2>4. SUFFICES ASSUME m.patch < n.patch PROVE FALSE OBVIOUS
  <2>5. m.patch \in 1..(n.patch - 1) BY <2>2, <2>3, <2>4 DEF LastName
  <2>6. PICK o \in Names : o.day = m.day /\ o.patch = m.patch BY <2>3, <2>5 DEF PatchesOf
  <2>7. o \in Name BY <1>1 DEF Names, TypeOK, Version
  <2>8. o = m BY <2>1, <2>6, <2>7 DEF Name
  <2> QED BY <2>2, <2>6, <2>8 DEF NameTaken
<1>2. TypeOK /\ NamesInv => OneWriterADay
  <2> SUFFICES ASSUME TypeOK, NamesInv, NEW p \in Publishers, NEW q \in Publishers, p # q,
                      Inserted(p), Inserted(q),
                      txn[p].version.name.day = txn[q].version.name.day
               PROVE  FALSE
    BY DEF OneWriterADay
  <2> DEFINE m == txn[p].version.name
             n == txn[q].version.name
  <2>1. m \in Name /\ n \in Name BY DEF TypeOK, Txn, Version
  <2>2. m.patch \in Nat /\ n.patch \in Nat BY <2>1 DEF Name
  <2>3. ~(m.patch < n.patch) /\ ~(n.patch < m.patch) BY <1>1
  <2>4. m = n BY <2>1, <2>2, <2>3 DEF Name
  <2> QED BY <2>4 DEF NamesInv, NameHeld
<1> QED BY <1>2, NamesAlways, PTL

-----------------------------------------------------------------------------
(* Days and times.  A publish takes the day of its version's name from the time   *)
(* of its version, so days and times agree, however late it commits.              *)

MomentOf(v) == [day |-> v.name.day, at |-> v.at]
Moments ==
  {MomentOf(v) : v \in versions} \cup {MomentOf(txn[p].version) : p \in {q \in Publishers : Timed(q)}}

InTime ==
  /\ \A m \in Moments : m.day \in 1..day /\ m.at < clock
  /\ \A m, n \in Moments : m.day < n.day => m.at < n.at

LEMMA MomentTypes == ASSUME TypeOK PROVE \A m \in Moments : m.day \in 1..MaxDay /\ m.at \in Nat
BY DEF TypeOK, Moments, MomentOf, Txn, Version, Name

\* Time passes for moments that are there already.
LEMMA NoNewMoment ==
  ASSUME TypeOK, InTime, Moments' \subseteq Moments,
         day' \in {day, day + 1}, clock' \in {clock, clock + 1}
  PROVE  InTime'
<1>1. day \in Nat /\ clock \in Nat BY DEF TypeOK
<1>2. \A m \in Moments' : m.day \in 1..day' /\ m.at < clock'
  BY <1>1, MomentTypes DEF InTime
<1>3. \A m, n \in Moments' : m.day < n.day => m.at < n.at BY DEF InTime
<1> QED BY <1>2, <1>3 DEF InTime

\* A publisher that ends, or goes on without reading the clock, brings no moment.
LEMMA MomentsOfPublisher ==
  ASSUME TypeOK, NEW p \in Publishers,
         \A q \in Publishers \ {p} : txn'[q] = txn[q],
         Timed(p)' => Timed(p) /\ MomentOf(txn'[p].version) = MomentOf(txn[p].version),
         versions' = versions
  PROVE  Moments' \subseteq Moments
<1>1. ASSUME NEW q \in Publishers, Timed(q)'
      PROVE  Timed(q) /\ MomentOf(txn'[q].version) = MomentOf(txn[q].version)
  BY <1>1 DEF Timed
<1>2. Moments' = {MomentOf(v) : v \in versions'}
                   \cup {MomentOf(txn'[q].version) : q \in {r \in Publishers : Timed(r)'}}
  BY DEF Moments, MomentOf, Timed
<1> QED BY <1>1, <1>2 DEF Moments

LEMMA WriteKeeps ==
  ASSUME TypeOK, NEW p \in Publishers, WriteRows(p)
  PROVE  /\ txn'[p].stage = "written"
         /\ txn'[p].version.name = txn[p].version.name
         /\ txn'[p].version.at = txn[p].version.at
         /\ \A q \in Publishers \ {p} : txn'[q] = txn[q]
<1>a. txn \in [Publishers -> Txn] BY DEF TypeOK
<1>1. txn' = [txn EXCEPT ![p] = TxnWritten(p)] BY <1>a, WrittenAsOneUpdate
<1>2. txn'[p] = TxnWritten(p) /\ \A q \in Publishers \ {p} : txn'[q] = txn[q] BY <1>a, <1>1
<1>3. txn[p] \in Txn /\ txn[p].version \in Version BY <1>a DEF Txn
<1>4. TxnWritten(p).stage = "written" BY <1>3 DEF TxnWritten, Txn
<1>5. TxnWritten(p).version = [txn[p].version EXCEPT !.rows = NewRows(p),
                                 !.announced = Announced(p), !.removed = Removed(p)]
  BY <1>3, ZenonT(60) DEF TxnWritten, Txn
<1>6. /\ TxnWritten(p).version.name = txn[p].version.name
      /\ TxnWritten(p).version.at = txn[p].version.at
  BY <1>3, <1>5, ZenonT(60) DEF Version
<1> QED BY <1>2, <1>4, <1>6

LEMMA TimeStep ==
  ASSUME TypeOK, InTime, Next
  PROVE  InTime'
<1>a. txn \in [Publishers -> Txn] BY DEF TypeOK
<1>1. ASSUME NEW p \in Publishers, NEW f \in Filters, Select(p, f)
      PROVE  InTime'
  <2>1. txn'[p].stage = "selected" BY <1>a, <1>1 DEF Select, Txn
  <2>2. \A q \in Publishers \ {p} : txn'[q] = txn[q] BY <1>a, <1>1 DEF Select
  <2>3. ~Timed(p)' /\ versions' = versions BY <1>1, <2>1 DEF Select, Timed
  <2>4. Moments' \subseteq Moments BY <2>2, <2>3, MomentsOfPublisher
  <2> QED BY <1>1, <2>4, NoNewMoment DEF Select
<1>2. ASSUME NEW p \in Publishers, ReadPrevious(p)
      PROVE  InTime'
  <2>1. txn'[p].stage = "based" BY <1>a, <1>2 DEF ReadPrevious, Txn
  <2>2. \A q \in Publishers \ {p} : txn'[q] = txn[q] BY <1>a, <1>2 DEF ReadPrevious
  <2>3. ~Timed(p)' /\ versions' = versions BY <1>2, <2>1 DEF ReadPrevious, Timed
  <2>4. Moments' \subseteq Moments BY <2>2, <2>3, MomentsOfPublisher
  <2> QED BY <1>2, <2>4, NoNewMoment DEF ReadPrevious
<1>3. ASSUME NEW p \in Publishers, ReadClock(p)
      PROVE  InTime'
  <2> DEFINE new == [day |-> day, at |-> clock]
  <2>2. txn'[p].version.name.day = day /\ txn'[p].version.at = clock
    BY <1>a, <1>3, TimedKeeps
  <2>3. \A q \in Publishers \ {p} : txn'[q] = txn[q] BY <1>a, <1>3, TimedKeeps
  <2>4. versions' = versions /\ clock' = clock + 1 /\ day' = day BY <1>3 DEF ReadClock
  <2>5. MomentOf(txn'[p].version) = new BY <2>2 DEF MomentOf
  <2>6. \A m \in Moments' : m \in Moments \/ m = new
    <3>1. Moments' = {MomentOf(v) : v \in versions'}
                       \cup {MomentOf(txn'[q].version) : q \in {r \in Publishers : Timed(r)'}}
      BY DEF Moments, MomentOf, Timed
    <3>2. \A q \in Publishers \ {p} : Timed(q)' = Timed(q) BY <2>3 DEF Timed
    <3> HIDE DEF new
    <3> QED BY <2>3, <2>4, <2>5, <3>1, <3>2 DEF Moments
  <2>7. day \in 1..MaxDay /\ clock \in Nat BY DEF TypeOK
  <2>8. \A m \in Moments' : m.day \in 1..day' /\ m.at < clock'
    BY <2>4, <2>6, <2>7, MomentTypes DEF InTime
  <2>9. \A m, n \in Moments' : m.day < n.day => m.at < n.at
    <3> SUFFICES ASSUME NEW m \in Moments', NEW n \in Moments', m.day < n.day
                 PROVE  m.at < n.at
      OBVIOUS
    <3>1. m # new BY <2>4, <2>7, <2>8
    <3>2. m \in Moments BY <2>6, <3>1
    <3>3. CASE n = new BY <3>2, <3>3 DEF InTime
    <3>4. CASE n \in Moments BY <3>2, <3>4 DEF InTime
    <3> QED BY <2>6, <3>3, <3>4
  <2> QED BY <2>8, <2>9 DEF InTime
<1>4. ASSUME NEW p \in Publishers, ReadNames(p) \/ Insert(p) \/ WriteRows(p)
      PROVE  InTime'
  <2>0. txn[p] \in Txn /\ txn[p].version \in Version BY <1>a DEF Txn
  <2>1. /\ Timed(p)
        /\ txn'[p].version.name.day = txn[p].version.name.day
        /\ txn'[p].version.at = txn[p].version.at
    <3>1. CASE Insert(p) BY <1>a, <2>0, <3>1 DEF Insert, At, Timed, Txn
    <3>2. CASE WriteRows(p) BY <3>2, WriteKeeps DEF WriteRows, At, Timed
    <3>3. CASE ReadNames(p)
      <4>1. PICK n \in NextPatches(PatchesOf(txn[p].version.name.day)) :
              txn'[p].version.name = [day |-> txn[p].version.name.day, patch |-> n]
        BY <1>a, <3>3, NamedKeeps
      <4>2. txn'[p].version.name.day = txn[p].version.name.day BY <4>1
      <4>3. Timed(p) BY <3>3 DEF ReadNames, At, Timed
      <4> QED BY <1>a, <3>3, <4>2, <4>3, NamedKeeps
    <3> QED BY <1>4, <3>1, <3>2, <3>3
  <2>2. \A q \in Publishers \ {p} : txn'[q] = txn[q]
    BY <1>a, <1>4, NamedKeeps DEF Insert, WriteRows
  <2>3. versions' = versions BY <1>4 DEF ReadNames, Insert, WriteRows
  <2>4. MomentOf(txn'[p].version) = MomentOf(txn[p].version) BY <2>1 DEF MomentOf
  <2>5. Moments' \subseteq Moments BY <2>1, <2>2, <2>3, <2>4, MomentsOfPublisher
  <2> QED BY <1>4, <2>5, NoNewMoment DEF ReadNames, Insert, WriteRows
<1>5. ASSUME NEW p \in Publishers, InsertRefused(p) \/ WriteRefused(p) \/ Crash(p)
      PROVE  InTime'
  <2>1. RollBack(p) BY <1>5 DEF InsertRefused, WriteRefused, Crash
  <2>2. \A q \in Publishers \ {p} : txn'[q] = txn[q] BY <1>a, <2>1 DEF RollBack
  <2>3. ~Timed(p)' BY <1>a, <2>1, IdleTypes DEF RollBack, Timed
  <2>4. Moments' \subseteq Moments BY <2>1, <2>2, <2>3, MomentsOfPublisher DEF RollBack
  <2> QED BY <2>1, <2>4, NoNewMoment DEF RollBack
<1>6. ASSUME NEW p \in Publishers, Commit(p)
      PROVE  InTime'
  <2>1. Timed(p) /\ versions' = versions \cup {txn[p].version} BY <1>6 DEF Commit, At, Timed
  <2>2. \A q \in Publishers : txn'[q] = IF q = p THEN Idle ELSE txn[q] BY <1>a, <1>6 DEF Commit
  <2>3. ~Timed(p)' /\ \A q \in Publishers \ {p} : Timed(q)' = Timed(q)
    BY <2>2, IdleTypes DEF Timed
  <2>4. Moments' = {MomentOf(v) : v \in versions'}
                     \cup {MomentOf(txn'[q].version) : q \in {r \in Publishers : Timed(r)'}}
    BY DEF Moments, MomentOf, Timed
  <2>5. Moments' \subseteq Moments
    <3> SUFFICES ASSUME NEW m \in Moments' PROVE m \in Moments OBVIOUS
    <3>1. ASSUME NEW v \in versions', m = MomentOf(v) PROVE m \in Moments
      BY <2>1, <3>1 DEF Moments
    <3>2. ASSUME NEW q \in Publishers, Timed(q)', m = MomentOf(txn'[q].version)
          PROVE  m \in Moments
      <4>1. q # p /\ txn'[q] = txn[q] /\ Timed(q) BY <2>2, <2>3, <3>2
      <4> QED BY <3>2, <4>1 DEF Moments
    <3> QED BY <2>4, <3>1, <3>2
  <2> QED BY <1>6, <2>5, NoNewMoment DEF Commit
<1>7. CASE Elsewhere \/ Midnight
  <2>1. Moments' = Moments BY <1>7 DEF Elsewhere, Midnight, Moments, MomentOf, Timed
  <2> QED BY <1>7, <2>1, NoNewMoment DEF Elsewhere, Midnight
<1> QED
  BY <1>1, <1>2, <1>3, <1>4, <1>5, <1>6, <1>7 DEF Next, Advance

LEMMA TimeAlways == Safety => []InTime
<1>1. Init => InTime
  <2> SUFFICES ASSUME Init PROVE InTime OBVIOUS
  <2>1. versions = {} /\ \A p \in Publishers : ~Timed(p) BY IdleTypes DEF Init, Timed
  <2>2. Moments = {} BY <2>1 DEF Moments
  <2> QED BY <2>2 DEF InTime
<1>2. TypeOK /\ InTime /\ [Next]_vars => InTime'
  <2>1. ASSUME TypeOK, InTime, UNCHANGED vars PROVE InTime'
    <3>1. Moments' = Moments BY <2>1 DEF vars, pubVars, Moments, MomentOf, Timed
    <3> QED BY <2>1, <3>1 DEF vars, pubVars, InTime
  <2> QED BY <2>1, TimeStep
<1> QED BY <1>1, <1>2, TypeCorrect, PTL DEF Safety

\* A publish that commits is served unless a version of a later day is, or one of its
\* own day that overtook it between its reads of the clock and of the names.  So a
\* publish that began before midnight never takes over from one that began after, and
\* the latest version is the last of the last day that was not overtaken (Exports).
THEOREM ServedUnlessOutdated ==
  Safety => [](\A p \in Publishers : Inserted(p) =>
                 \A v \in versions :
                   /\ v.name.day # txn[p].version.name.day =>
                        (v.at < txn[p].version.at <=> v.name.day < txn[p].version.name.day)
                   /\ v.name.day = txn[p].version.name.day /\ ~watch[p].overtaken =>
                        v.at < txn[p].version.at)
<1>1. ASSUME TypeOK, InTime, NewestUnlessOvertaken, NEW p \in Publishers, Inserted(p),
             NEW v \in versions
      PROVE  /\ v.name.day # txn[p].version.name.day =>
                  (v.at < txn[p].version.at <=> v.name.day < txn[p].version.name.day)
             /\ v.name.day = txn[p].version.name.day /\ ~watch[p].overtaken =>
                  v.at < txn[p].version.at
  <2> DEFINE m == MomentOf(v)
             n == MomentOf(txn[p].version)
  <2>1. m \in Moments /\ n \in Moments BY <1>1 DEF Moments, Timed, Inserted
  <2>2. m.day \in Nat /\ m.at \in Nat /\ n.day \in Nat /\ n.at \in Nat
    BY <1>1, <2>1, MomentTypes
  <2>3. (m.day < n.day => m.at < n.at) /\ (n.day < m.day => n.at < m.at)
    BY <1>1, <2>1 DEF InTime
  <2>4. m.day = v.name.day /\ m.at = v.at BY DEF MomentOf
  <2>5. n.day = txn[p].version.name.day /\ n.at = txn[p].version.at BY DEF MomentOf
  <2>6. v.name.day = txn[p].version.name.day /\ ~watch[p].overtaken => v.at < txn[p].version.at
    BY <1>1 DEF NewestUnlessOvertaken, NewestOfDay
  <2> HIDE DEF m, n
  <2> QED BY <2>2, <2>3, <2>4, <2>5, <2>6
<1>2. TypeOK /\ InTime /\ NewestUnlessOvertaken
        => \A p \in Publishers : Inserted(p) =>
             \A v \in versions :
               /\ v.name.day # txn[p].version.name.day =>
                    (v.at < txn[p].version.at <=> v.name.day < txn[p].version.name.day)
               /\ v.name.day = txn[p].version.name.day /\ ~watch[p].overtaken =>
                    v.at < txn[p].version.at
  BY <1>1
<1> QED BY <1>2, TypeCorrect, TimeAlways, OvertakenInOneWindow, PTL

\* The day whose version a publisher is writing, for Turns.
Writing(p) == IF Inserted(p) THEN txn[p].version.name.day ELSE 0

LEMMA SameTxn ==
  ASSUME NEW q \in Publishers, txn'[q] = txn[q]
  PROVE  Writing(q)' = Writing(q)
<1>1. Inserted(q)' <=> Inserted(q) BY DEF Inserted
<1>2. txn'[q].version.name.day = txn[q].version.name.day OBVIOUS
<1>3. CASE Inserted(q) BY <1>1, <1>2, <1>3 DEF Writing
<1>4. CASE ~Inserted(q) BY <1>1, <1>4 DEF Writing
<1> QED BY <1>3, <1>4

\* A publisher that ends writes nothing any more.
LEMMA EndTurn ==
  ASSUME TypeOK, NEW p \in Publishers, txn' = [txn EXCEPT ![p] = Idle], day' = day
  PROVE  Turns!End(p) \/ \A q \in Publishers : Writing(q)' = Writing(q)
<1>1. txn'[p] = Idle /\ \A q \in Publishers \ {p} : txn'[q] = txn[q] BY DEF TypeOK
<1>2. ~Inserted(p)' BY <1>1, IdleTypes DEF Inserted
<1>3. Writing(p)' = 0 /\ \A q \in Publishers \ {p} : Writing(q)' = Writing(q)
  <2>1. Writing(p)' = 0 BY <1>2 DEF Writing
  <2>2. \A q \in Publishers \ {p} : Writing(q)' = Writing(q) BY <1>1, SameTxn
  <2> QED BY <2>1, <2>2
<1>4. CASE Writing(p) = 0 BY <1>3, <1>4
<1>5. CASE Writing(p) # 0
  <2>1. [q \in Publishers |-> Writing(q)'] = [[q \in Publishers |-> Writing(q)] EXCEPT ![p] = 0]
    BY <1>3
  <2> QED BY <1>5, <2>1 DEF Turns!End, Writing
<1> QED BY <1>4, <1>5

\* Publishing implements DayTurns, for any number of publishers, days and crashes: the
\* names publishes choose and their unique index make them take turns.  A name that
\* skipped a number would undo it.
THEOREM TakeTurns == Safety => RefinesTurns
<1>1. Init => Turns!Init
  <2> SUFFICES ASSUME Init PROVE Turns!Init OBVIOUS
  <2>1. \A p \in Publishers : ~Inserted(p) BY IdleTypes DEF Init, Inserted
  <2> QED BY <2>1 DEF Init, Turns!Init
<1>2. TypeOK /\ InTime /\ OneWriterADay' /\ [Next]_vars
        => [Turns!Next]_<<day, [p \in Publishers |-> Writing(p)]>>
  <2> SUFFICES ASSUME TypeOK, InTime, OneWriterADay', [Next]_vars
               PROVE  Turns!Next \/ (day' = day /\ \A q \in Publishers : Writing(q)' = Writing(q))
    OBVIOUS
  <2>a. txn \in [Publishers -> Txn] BY DEF TypeOK
  <2>1. ASSUME NEW p \in Publishers, Insert(p) PROVE Turns!Begin(p)
    <3> DEFINE d == txn[p].version.name.day
    <3>1. /\ txn'[p].stage = "inserted" /\ txn'[p].version = txn[p].version
          /\ \A q \in Publishers \ {p} : txn'[q] = txn[q]
      BY <2>a, <2>1 DEF Insert, Txn
    <3>2. ~Inserted(p) /\ Inserted(p)' /\ Named(p) /\ day' = day
      BY <2>1, <3>1 DEF Insert, At, Inserted, Named
    <3>3. \A q \in Publishers \ {p} : Inserted(q)' = Inserted(q) BY <3>1 DEF Inserted
    <3>4. d \in 1..day
      <4>1. MomentOf(txn[p].version) \in Moments BY <3>2 DEF Moments, Named, Timed
      <4> QED BY <4>1 DEF InTime, MomentOf
    <3>5. day \in Nat BY DEF TypeOK
    <3>6. \A q \in Publishers : Writing(q) # d
      <4>1. ASSUME NEW q \in Publishers \ {p}, Inserted(q) PROVE txn[q].version.name.day # d
        BY <3>1, <3>2, <3>3, <4>1 DEF OneWriterADay
      <4> HIDE DEF d
      <4> QED BY <3>2, <3>4, <3>5, <4>1 DEF Writing
    <3>7. Writing(p) = 0 /\ Writing(p)' = d /\ \A q \in Publishers \ {p} : Writing(q)' = Writing(q)
      BY <3>1, <3>2, <3>3 DEF Writing
    <3>8. [q \in Publishers |-> Writing(q)'] = [[q \in Publishers |-> Writing(q)] EXCEPT ![p] = d]
      BY <3>7
    <3> HIDE DEF d
    <3> QED BY <3>2, <3>4, <3>6, <3>7, <3>8 DEF Turns!Begin, Writing
  <2>2. ASSUME NEW p \in Publishers,
               InsertRefused(p) \/ WriteRefused(p) \/ Crash(p) \/ Commit(p)
        PROVE  Turns!Next \/ (day' = day /\ \A q \in Publishers : Writing(q)' = Writing(q))
    <3>1. txn' = [txn EXCEPT ![p] = Idle] /\ day' = day
      BY <2>2 DEF InsertRefused, WriteRefused, Crash, Commit, RollBack
    <3> QED BY <3>1, EndTurn DEF Turns!Next
  <2>3. ASSUME NEW p \in Publishers,
               ReadPrevious(p) \/ ReadClock(p) \/ ReadNames(p) \/ WriteRows(p)
        PROVE  day' = day /\ \A q \in Publishers : Writing(q)' = Writing(q)
    <3>1. \A q \in Publishers \ {p} : Writing(q)' = Writing(q)
      BY <2>a, <2>3, SameTxn DEF ReadPrevious, ReadClock, ReadNames, WriteRows
    <3>2. CASE ReadPrevious(p)
      <4>1. txn'[p].stage = "based" BY <2>a, <3>2 DEF ReadPrevious, Txn
      <4>2. ~Inserted(p) /\ ~Inserted(p)' BY <3>2, <4>1 DEF ReadPrevious, At, Inserted
      <4> QED BY <3>1, <3>2, <4>2 DEF Writing, ReadPrevious
    <3>3. CASE ReadClock(p) \/ ReadNames(p)
      <4>1. txn'[p].stage \in {"timed", "named"} BY <2>a, <3>3, TimedKeeps, NamedKeeps
      <4>2. ~Inserted(p) /\ ~Inserted(p)' BY <3>3, <4>1 DEF ReadClock, ReadNames, At, Inserted
      <4> QED BY <3>1, <3>3, <4>2 DEF Writing, ReadClock, ReadNames
    <3>4. CASE WriteRows(p)
      <4>1. Inserted(p) /\ Inserted(p)' BY <3>4, WriteKeeps DEF WriteRows, At, Inserted
      <4>2. txn'[p].version.name.day = txn[p].version.name.day BY <3>4, WriteKeeps
      <4>3. Writing(p)' = Writing(p) BY <4>1, <4>2 DEF Writing
      <4> QED BY <3>1, <3>4, <4>3 DEF WriteRows
    <3> QED BY <2>3, <3>2, <3>3, <3>4
  <2>4. ASSUME NEW p \in Publishers, NEW f \in Filters, Select(p, f)
        PROVE  day' = day /\ \A q \in Publishers : Writing(q)' = Writing(q)
    <3>1. txn'[p].stage = "selected" BY <2>a, <2>4, ZenonT(60) DEF Select, Txn
    <3>2. \A q \in Publishers \ {p} : txn'[q] = txn[q] BY <2>a, <2>4, ZenonT(60) DEF Select
    <3>3. ~Inserted(p) /\ ~Inserted(p)' BY <2>4, <3>1 DEF Select, At, Inserted
    <3>4. Writing(p)' = Writing(p) BY <3>3 DEF Writing
    <3>5. day' = day BY <2>4 DEF Select
    <3> QED BY <3>2, <3>4, <3>5, SameTxn
  <2>5. CASE Elsewhere \/ UNCHANGED vars
    BY <2>5 DEF Elsewhere, vars, pubVars, Writing, Inserted
  <2>6. CASE Midnight
    <3>1. txn' = txn /\ day' = day + 1 BY <2>6 DEF Midnight
    <3>2. \A q \in Publishers : Writing(q)' = Writing(q) BY <3>1 DEF Writing, Inserted
    <3>3. [q \in Publishers |-> Writing(q)'] = [q \in Publishers |-> Writing(q)] BY <3>2
    <3> QED BY <3>1, <3>3 DEF Turns!Next, Turns!NextDay, Writing
  <2> QED BY <2>1, <2>2, <2>3, <2>4, <2>5, <2>6 DEF Next, Advance, Turns!Next
<1> QED
  BY <1>1, <1>2, TypeCorrect, TimeAlways, OneWriterAtATime, PTL
  DEF Safety, RefinesTurns, Turns!Spec, Writing

\* No day ever has more than ten versions: names are compared as strings, so the
\* successor of the tenth is the tenth again.
THEOREM TenVersionsADay == Safety => [](\A d \in 1..MaxDay : PatchesOf(d) \subseteq 1..10)
<1>1. NamesInv => \A d \in 1..MaxDay : PatchesOf(d) \subseteq 1..10
  BY DEF NamesInv, LastName
<1> QED BY <1>1, NamesAlways, PTL

\* The name a publish would choose is free exactly while the day has no tenth version:
\* from then on the name after the last one, as strings are ordered, is the tenth again,
\* and every publish of the day is refused.
THEOREM FreeUntilTheTenth ==
  Safety => [](\A d \in 1..MaxDay :
                 NextPatches(PatchesOf(d)) \cap PatchesOf(d) = {} <=> 10 \notin PatchesOf(d))
<1>1. ASSUME NEW S, \A m \in S : m \in 1..LastName /\ 1..m \subseteq S
      PROVE  NextPatches(S) \cap S = {} <=> 10 \notin S
  <2>1. ASSUME 10 \notin S, NEW n \in NextPatches(S) PROVE n \notin S
    <3>1. CASE S = {} BY <3>1
    <3>2. CASE S # {}
      <4>1. PICK m \in S : n = m + 1 /\ \A o \in S : StringRank(o) <= StringRank(m)
        BY <2>1, <3>2 DEF NextPatches, LastPatches
      <4>2. m \in 1..9 BY <1>1, <2>1 DEF LastName
      <4>3. SUFFICES ASSUME n \in S PROVE FALSE OBVIOUS
      <4>4. n \in 1..9 BY <1>1, <2>1, <4>3 DEF LastName
      <4>5. StringRank(n) = 11 * n /\ StringRank(m) = 11 * m BY <4>2, <4>4 DEF StringRank
      <4> QED BY <4>1, <4>2, <4>3, <4>4, <4>5
    <3> QED BY <3>1, <3>2
  <2>2. ASSUME 10 \in S PROVE 10 \in NextPatches(S)
    <3>1. 9 \in S BY <1>1, <2>2
    <3>2. \A m \in S : StringRank(m) <= 99
      <4> SUFFICES ASSUME NEW m \in S PROVE StringRank(m) <= 99 OBVIOUS
      <4>1. m \in 1..9 \/ m = 10 BY <1>1 DEF LastName
      <4> QED BY <4>1 DEF StringRank
    <3>3. StringRank(9) = 99 BY DEF StringRank
    <3>4. 9 \in LastPatches(S) BY <3>1, <3>2, <3>3 DEF LastPatches
    <3> QED BY <3>1, <3>4 DEF NextPatches
  <2> QED BY <2>1, <2>2
<1>2. NamesInv => \A d \in 1..MaxDay :
                    NextPatches(PatchesOf(d)) \cap PatchesOf(d) = {} <=> 10 \notin PatchesOf(d)
  BY <1>1 DEF NamesInv
<1> QED BY <1>2, NamesAlways, PTL

-----------------------------------------------------------------------------
(* What a publish keeps and tells of the dataset before it, if no other commits  *)
(* between its read of that dataset and its own commit.  The run stale_base      *)
(* shows that one that does breaks it.                                           *)

Based(p) == txn[p].stage \in {"based", "timed", "named", "inserted", "written"}

\* No publish commits while another holds a dataset it has read.  Publishes may
\* overlap otherwise; they do not when they run one after another (OneAtATime).
CommitsAlone == \A p, q \in Publishers : p # q /\ Commit(p) => ~Based(q)
Undisturbed == [][CommitsAlone]_vars

OneAtATime == \A p, q \in Publishers : Running(p) /\ Running(q) => p = q

\* The rows a publisher starts from are served still: those of sources that it may have
\* seen public, and of all that it has seen public all along.
BaseIsServed(p) ==
  \E S \in SUBSET Sources :
    /\ watch[p].always \subseteq S /\ S \subseteq watch[p].ever
    /\ txn[p].base = {r \in LatestRows : SourceOfRow(r) \in S}

\* A written version is what the publisher's batch and base make of it.
WrittenFrom(p) ==
  /\ txn[p].version.rows = NewRows(p)
  /\ txn[p].version.announced = Announced(p)
  /\ txn[p].version.removed = Removed(p)
  /\ OnePerSlot(NewRows(p))

SoloOf(p) ==
  /\ Running(p) => /\ txn[p].batch # {}
                   /\ watch[p].always \subseteq public /\ public \subseteq watch[p].ever
  /\ Based(p) => BaseIsServed(p)
  /\ Timed(p) => \A v \in versions : v.at < txn[p].version.at
  /\ At(p, "written") => WrittenFrom(p)

DistinctTimes == \A v, w \in versions : v.at = w.at => v = w

SoloInv == DistinctTimes /\ \A p \in Publishers : SoloOf(p)

\* An idle publisher has nothing to keep.
LEMMA IdleSolo ==
  ASSUME NEW p \in Publishers, txn[p].stage = "idle"
  PROVE  SoloOf(p)
BY DEF SoloOf, Running, At, Based, Timed

\* Versions that differ in time: one of them is served, so a session has one row.
LEMMA ServedOnePerSlot ==
  ASSUME TypeOK, PublishedRowsSound, DistinctTimes
  PROVE  OnePerSlot(LatestRows)
<1> SUFFICES ASSUME NEW r \in LatestRows, NEW q \in LatestRows, SlotOfRow(r) = SlotOfRow(q)
             PROVE  r = q
  BY DEF OnePerSlot
<1>1. PICK v \in versions : Newest(v) /\ r \in v.rows BY DEF LatestRows
<1>2. PICK w \in versions : Newest(w) /\ q \in w.rows BY DEF LatestRows
<1>3. v.at \in Nat /\ w.at \in Nat BY DEF TypeOK, Version
<1>4. v.at <= w.at /\ w.at <= v.at BY <1>1, <1>2 DEF Newest
<1>5. v = w BY <1>3, <1>4 DEF DistinctTimes
<1> QED BY <1>1, <1>2, <1>5 DEF PublishedRowsSound, SoundRows, OnePerSlot

\* A step that neither commits nor changes a policy leaves alone what the publishers
\* it does not touch have.
LEMMA SoloStays ==
  ASSUME NEW p \in Publishers, SoloOf(p), txn'[p] = txn[p], watch'[p] = watch[p],
         versions' = versions, public' = public
  PROVE  SoloOf(p)'
<1>1. /\ Running(p)' = Running(p) /\ Based(p)' = Based(p) /\ Timed(p)' = Timed(p)
      /\ At(p, "written")' = At(p, "written")
  BY DEF Running, At, Based, Timed
<1>2. LatestRows' = LatestRows BY DEF LatestRows, Newest
<1>3. BaseIsServed(p)' = BaseIsServed(p) BY <1>2 DEF BaseIsServed
<1>4. WrittenFrom(p)' = WrittenFrom(p)
  BY DEF WrittenFrom, NewRows, Carried, Outside, Kept, Announced, Removed
<1> QED BY <1>1, <1>3, <1>4 DEF SoloOf

\* A step of one publisher that commits nothing: what is left to show is its own.
LEMMA OwnStep ==
  ASSUME TypeOK, SoloInv, NEW p \in Publishers, SoloOf(p)',
         \A q \in Publishers \ {p} : txn'[q] = txn[q] /\ watch'[q] = watch[q],
         versions' = versions, public' = public
  PROVE  SoloInv'
<1>1. DistinctTimes' BY DEF SoloInv, DistinctTimes
<1>2. ASSUME NEW q \in Publishers \ {p} PROVE SoloOf(q)'
  BY SoloStays DEF SoloInv
<1> QED BY <1>1, <1>2 DEF SoloInv

\* The version an undisturbed publisher commits becomes the one served.
LEMMA CommitServes ==
  ASSUME TypeOK, SoloInv, NEW p \in Publishers, Commit(p)
  PROVE  LatestRows' = txn[p].version.rows /\ DistinctTimes'
<1> DEFINE new == txn[p].version
<1>1. versions' = versions \cup {new} BY DEF Commit
<1>2. \A v \in versions : v.at < new.at BY DEF Commit, At, Timed, SoloInv, SoloOf
<1>3. new.at \in Nat /\ \A v \in versions : v.at \in Nat BY DEF TypeOK, Txn, Version
<1> HIDE DEF new
<1>4. \A v \in versions' : (\A w \in versions' : w.at <= v.at) <=> v = new
  BY <1>1, <1>2, <1>3
<1>5. {v \in versions' : \A w \in versions' : w.at <= v.at} = {new} BY <1>1, <1>4
<1>6. LatestRows' = UNION {v.rows : v \in {w \in versions' : \A u \in versions' : u.at <= w.at}}
  BY DEF LatestRows, Newest
<1>7. LatestRows' = new.rows BY <1>5, <1>6
<1>8. \A v, w \in versions' : v.at = w.at => v = w
  BY <1>1, <1>2, <1>3 DEF SoloInv, DistinctTimes
<1> QED BY <1>7, <1>8 DEF new, DistinctTimes

LEMMA SoloStep ==
  ASSUME TypeOK, NamesInv, SoloInv, CommitsAlone, Next
  PROVE  SoloInv'
<1>a. txn \in [Publishers -> Txn] BY DEF TypeOK
<1>b. watch \in [Publishers -> Watch] BY DEF TypeOK
<1>1. ASSUME NEW p \in Publishers, NEW f \in Filters, Select(p, f)
      PROVE  SoloInv'
  <2>1. txn'[p].stage = "selected" /\ txn'[p].batch = Batch(f) /\ Batch(f) # {}
    BY <1>a, <1>1 DEF Select, Txn
  <2>2. \A q \in Publishers \ {p} : txn'[q] = txn[q] /\ watch'[q] = watch[q]
    BY <1>a, <1>b, <1>1 DEF Select
  <2>3. /\ watch'[p].always = public /\ watch'[p].ever = public
        /\ public' = public /\ versions' = versions
    BY <1>b, <1>1 DEF Select, candVars
  <2>4. SoloOf(p)' BY <2>1, <2>3 DEF SoloOf, Running, At, Based, Timed
  <2> QED BY <2>2, <2>3, <2>4, OwnStep
<1>2. ASSUME NEW p \in Publishers, ReadPrevious(p)
      PROVE  SoloInv'
  <2>1. /\ txn'[p].stage = "based" /\ txn'[p].batch = txn[p].batch
        /\ txn'[p].base = PublicRows(LatestRows)
    BY <1>a, <1>2 DEF ReadPrevious, Txn
  <2>2. \A q \in Publishers \ {p} : txn'[q] = txn[q] /\ watch'[q] = watch[q]
    BY <1>a, <1>2 DEF ReadPrevious
  <2>3. watch' = watch /\ public' = public /\ versions' = versions
    BY <1>2 DEF ReadPrevious, candVars
  <2>4. LatestRows' = LatestRows BY <2>3 DEF LatestRows, Newest
  <2>5. txn[p].batch # {} /\ watch[p].always \subseteq public /\ public \subseteq watch[p].ever
    BY <1>2 DEF ReadPrevious, SoloInv, SoloOf, Running, At
  <2>6. BaseIsServed(p)'
    <3>1. public \in SUBSET Sources BY DEF TypeOK, CandTypeOK
    <3>2. txn'[p].base = {r \in LatestRows' : SourceOfRow(r) \in public}
      BY <2>1, <2>4 DEF PublicRows
    <3> QED BY <2>3, <2>5, <3>1, <3>2 DEF BaseIsServed
  <2>7. SoloOf(p)' BY <2>1, <2>3, <2>5, <2>6 DEF SoloOf, Running, At, Based, Timed
  <2> QED BY <2>2, <2>3, <2>7, OwnStep
<1>3. ASSUME NEW p \in Publishers, ReadClock(p) \/ ReadNames(p)
      PROVE  SoloInv'
  <2>1. /\ txn'[p].stage \in {"timed", "named"}
        /\ txn'[p].batch = txn[p].batch /\ txn'[p].base = txn[p].base
        /\ \A q \in Publishers \ {p} : txn'[q] = txn[q]
    BY <1>a, <1>3, TimedKeeps, NamedKeeps
  <2>2. /\ \A q \in Publishers \ {p} : watch'[q] = watch[q]
        /\ watch'[p].always = watch[p].always /\ watch'[p].ever = watch[p].ever
        /\ public' = public /\ versions' = versions
    BY <1>b, <1>3 DEF ReadClock, ReadNames, candVars, Watch
  <2>3. LatestRows' = LatestRows BY <2>2 DEF LatestRows, Newest
  <2>4. /\ txn[p].batch # {} /\ BaseIsServed(p)
        /\ watch[p].always \subseteq public /\ public \subseteq watch[p].ever
    BY <1>3 DEF ReadClock, ReadNames, SoloInv, SoloOf, Running, At, Based
  <2>5. BaseIsServed(p)' BY <2>1, <2>2, <2>3, <2>4 DEF BaseIsServed
  <2>6. \A v \in versions : v.at < txn'[p].version.at
    <3>1. CASE ReadClock(p)
      <4>1. txn'[p].version.at = clock BY <1>a, <3>1, TimedKeeps
      <4> QED BY <4>1 DEF NamesInv
    <3>2. CASE ReadNames(p)
      <4>1. txn'[p].version.at = txn[p].version.at BY <1>a, <3>2, NamedKeeps
      <4>2. Timed(p) BY <3>2 DEF ReadNames, At, Timed
      <4> QED BY <4>1, <4>2 DEF SoloInv, SoloOf
    <3> QED BY <1>3, <3>1, <3>2
  <2>7. SoloOf(p)' BY <2>1, <2>2, <2>4, <2>5, <2>6 DEF SoloOf, Running, At, Based, Timed
  <2> QED BY <2>1, <2>2, <2>7, OwnStep
<1>4. ASSUME NEW p \in Publishers, Insert(p)
      PROVE  SoloInv'
  <2>1. /\ txn'[p].stage = "inserted" /\ txn'[p].batch = txn[p].batch
        /\ txn'[p].base = txn[p].base /\ txn'[p].version = txn[p].version
    BY <1>a, <1>4 DEF Insert, Txn
  <2>2. \A q \in Publishers \ {p} : txn'[q] = txn[q] /\ watch'[q] = watch[q]
    BY <1>a, <1>4 DEF Insert
  <2>3. watch' = watch /\ public' = public /\ versions' = versions
    BY <1>4 DEF Insert, candVars
  <2>4. LatestRows' = LatestRows BY <2>3 DEF LatestRows, Newest
  <2>5. /\ txn[p].batch # {} /\ watch[p].always \subseteq public /\ public \subseteq watch[p].ever /\ BaseIsServed(p)
        /\ \A v \in versions : v.at < txn[p].version.at
    BY <1>4 DEF Insert, SoloInv, SoloOf, Running, At, Based, Timed
  <2>6. BaseIsServed(p)' BY <2>1, <2>3, <2>4, <2>5 DEF BaseIsServed
  <2>7. SoloOf(p)' BY <2>1, <2>3, <2>5, <2>6 DEF SoloOf, Running, At, Based, Timed
  <2> QED BY <2>2, <2>3, <2>7, OwnStep
<1>5. ASSUME NEW p \in Publishers, InsertRefused(p) \/ WriteRefused(p) \/ Crash(p)
      PROVE  SoloInv'
  <2>1. RollBack(p) BY <1>5 DEF InsertRefused, WriteRefused, Crash
  <2>2. \A q \in Publishers \ {p} : txn'[q] = txn[q] /\ watch'[q] = watch[q]
    BY <1>a, <1>b, <2>1 DEF RollBack
  <2>3. txn'[p].stage = "idle" BY <1>a, <2>1, IdleTypes DEF RollBack
  <2>4. SoloOf(p)' BY <2>3 DEF SoloOf, Running, At, Based, Timed
  <2>5. versions' = versions /\ public' = public BY <2>1 DEF RollBack, candVars
  <2> QED BY <2>2, <2>4, <2>5, OwnStep
<1>6. ASSUME NEW p \in Publishers, WriteRows(p)
      PROVE  SoloInv'
  <2>0. txn[p] \in Txn /\ txn[p].version \in Version BY <1>a DEF Txn
  <2>1. txn' = [txn EXCEPT ![p] = TxnWritten(p)] BY <1>a, <1>6, WrittenAsOneUpdate
  <2>2. txn'[p] = TxnWritten(p) BY <1>a, <2>1
  <2>3. /\ txn'[p].stage = "written" /\ txn'[p].batch = txn[p].batch
        /\ txn'[p].base = txn[p].base /\ txn'[p].partial = txn[p].partial
        /\ txn'[p].slots = txn[p].slots /\ txn'[p].sources = txn[p].sources
    BY <2>0, <2>2 DEF TxnWritten, Txn
  <2>4. /\ txn'[p].version.at = txn[p].version.at
        /\ txn'[p].version.rows = NewRows(p)
        /\ txn'[p].version.announced = Announced(p)
        /\ txn'[p].version.removed = Removed(p)
    BY <2>0, <2>2, ZenonT(60) DEF TxnWritten, Txn, Version
  <2>5. \A q \in Publishers \ {p} : txn'[q] = txn[q] /\ watch'[q] = watch[q]
    BY <1>a, <1>6, <2>1 DEF WriteRows
  <2>6. watch' = watch /\ public' = public /\ versions' = versions
    BY <1>6 DEF WriteRows, candVars
  <2>7. LatestRows' = LatestRows BY <2>6 DEF LatestRows, Newest
  <2>8. /\ txn[p].batch # {} /\ watch[p].always \subseteq public /\ public \subseteq watch[p].ever /\ BaseIsServed(p)
        /\ \A v \in versions : v.at < txn[p].version.at
    BY <1>6 DEF WriteRows, SoloInv, SoloOf, Running, At, Based, Timed
  <2>9. BaseIsServed(p)' BY <2>3, <2>6, <2>7, <2>8 DEF BaseIsServed
  <2>10. /\ NewRows(p)' = NewRows(p) /\ Announced(p)' = Announced(p)
         /\ Removed(p)' = Removed(p)
    <3>1. Carried(p)' = Carried(p) BY <2>3 DEF Carried, Outside, Kept, InScope
    <3>2. NewRows(p)' = NewRows(p) BY <2>3, <3>1 DEF NewRows
    <3> QED BY <2>3, <3>2 DEF Announced, Removed
  <2>11. OnePerSlot(NewRows(p)) BY <1>6 DEF WriteRows
  <2>12. WrittenFrom(p)' BY <2>4, <2>10, <2>11 DEF WrittenFrom
  <2>13. SoloOf(p)'
    BY <2>3, <2>4, <2>6, <2>8, <2>9, <2>12 DEF SoloOf, Running, At, Based, Timed
  <2> QED BY <2>5, <2>6, <2>13, OwnStep
<1>7. ASSUME NEW p \in Publishers, Commit(p)
      PROVE  SoloInv'
  <2>1. \A q \in Publishers : txn'[q] = IF q = p THEN Idle ELSE txn[q]
    BY <1>a, <1>7 DEF Commit
  <2>2. \A q \in Publishers \ {p} : watch'[q] = watch[q] BY <1>b, <1>7 DEF Commit
  <2>3. public' = public BY <1>7 DEF Commit
  <2>4. ASSUME NEW q \in Publishers PROVE SoloOf(q)'
    <3>1. CASE q = p
      BY <2>1, <3>1, IdleTypes DEF SoloOf, Running, At, Based, Timed
    <3>2. CASE q # p
      <4>1. ~Based(q) BY <1>7, <3>2 DEF CommitsAlone
      <4>2. SoloOf(q) BY DEF SoloInv
      <4> QED BY <2>1, <2>2, <2>3, <3>2, <4>1, <4>2 DEF SoloOf, Running, At, Based, Timed
    <3> QED BY <3>1, <3>2
  <2> QED BY <1>7, <2>4, CommitServes DEF SoloInv
<1>8. CASE Elsewhere
  <2>1. txn' = txn /\ versions' = versions BY <1>8 DEF Elsewhere
  <2>2. LatestRows' = LatestRows BY <2>1 DEF LatestRows, Newest
  <2>3. ASSUME NEW p \in Publishers PROVE SoloOf(p)'
    <3>1. CASE ~Running(p)
      BY <2>1, <3>1 DEF SoloOf, Running, At, Based, Timed
    <3>2. CASE Running(p)
      <4>1. /\ watch'[p].always = watch[p].always \cap public'
            /\ watch'[p].ever = watch[p].ever \cup public'
        BY <1>b, <1>8, <3>2 DEF Elsewhere, Watching, Watch
      <4>2. BaseIsServed(p) => BaseIsServed(p)' BY <2>1, <2>2, <4>1 DEF BaseIsServed
      <4>3. WrittenFrom(p) => WrittenFrom(p)'
        BY <2>1 DEF WrittenFrom, NewRows, Carried, Outside, Kept, Announced, Removed
      <4>4. SoloOf(p) BY DEF SoloInv
      <4> QED BY <2>1, <4>1, <4>2, <4>3, <4>4 DEF SoloOf, Running, At, Based, Timed
    <3> QED BY <3>1, <3>2
  <2> QED BY <2>1, <2>3 DEF SoloInv, DistinctTimes
<1>9. CASE Midnight
  <2>1. \A p \in Publishers : SoloOf(p)' BY <1>9, SoloStays DEF Midnight, SoloInv, candVars
  <2> QED BY <1>9, <2>1 DEF Midnight, SoloInv, DistinctTimes
<1> QED
  BY <1>1, <1>2, <1>3, <1>4, <1>5, <1>6, <1>7, <1>8, <1>9 DEF Next, Advance

LEMMA SoloAlways == Safety /\ Undisturbed => [](TypeOK /\ NamesInv /\ SoloInv)
<1>1. Init => SoloInv
  BY IdleTypes DEF Init, SoloInv, DistinctTimes, SoloOf, Running, At, Based, Timed
<1>2. TypeOK /\ NamesInv /\ [CommitsAlone]_vars /\ SoloInv /\ [Next]_vars => SoloInv'
  <2>1. ASSUME SoloInv, UNCHANGED vars PROVE SoloInv'
    <3>1. txn' = txn /\ watch' = watch /\ versions' = versions /\ public' = public
      BY <2>1 DEF vars, candVars, pubVars
    <3>2. \A p \in Publishers : SoloOf(p)' BY <2>1, <3>1, SoloStays DEF SoloInv
    <3> QED BY <2>1, <3>1, <3>2 DEF SoloInv, DistinctTimes
  <2> QED BY <2>1, SoloStep
<1> QED BY <1>1, <1>2, NamesAlways, PTL DEF Safety, Undisturbed

\* A filtered publish that is not disturbed loses nothing: every row outside its
\* filter that readers are served when it is about to commit, of a source that has
\* stayed public since it started, is in the version it commits.
THEOREM NothingLost == Safety /\ Undisturbed => []CarriedForward
<1>1. SoloInv => CarriedForward
  <2> SUFFICES ASSUME SoloInv, NEW p \in Publishers, At(p, "written"), txn[p].partial,
                      NEW r \in LatestRows, ~InScope(r, txn[p]),
                      SourceOfRow(r) \in watch[p].always
               PROVE  r \in txn[p].version.rows
    BY DEF CarriedForward
  <2>1. BaseIsServed(p) /\ WrittenFrom(p) BY DEF SoloInv, SoloOf, At, Based
  <2>2. r \in txn[p].base BY <2>1 DEF BaseIsServed
  <2>3. r \in Outside(p) BY <2>2 DEF Outside
  <2> QED BY <2>1, <2>3 DEF WrittenFrom, NewRows, Carried
<1> QED BY <1>1, SoloAlways, PTL

\* What is carried forward was in the base.
LEMMA CarriedInBase == \A p \in Publishers : Carried(p) \subseteq txn[p].base
BY DEF Carried, Outside, Kept

\* Read against the base a publisher started from, the events of its version tell the
\* difference to the dataset served: a row of the batch meets at most one row served
\* of its session, and the version holds one row of a session.
LEMMA EventsTellDifference ==
  ASSUME NEW p \in Publishers, NEW S, OnePerSlot(S), txn[p].base \subseteq S,
         OnePerSlot(NewRows(p)), NEW old \in txn[p].base
  PROVE  /\ SlotOfRow(old) \in Removed(p) <=> SlotOfRow(old) \notin SlotsOf(NewRows(p))
         /\ \A r \in NewRows(p) : SlotOfRow(r) = SlotOfRow(old) =>
              (SlotOfRow(r) \in Announced(p) <=> ~Unchanged(r, old))
<1>1. SlotOfRow(old) \in Removed(p) <=> SlotOfRow(old) \notin SlotsOf(NewRows(p))
  BY DEF Removed, SlotsOf
<1>2. ASSUME NEW r \in NewRows(p), SlotOfRow(r) = SlotOfRow(old)
      PROVE  SlotOfRow(r) \in Announced(p) <=> ~Unchanged(r, old)
  <2>1. \A n \in txn[p].batch : SlotOfRow(n) = SlotOfRow(r) => n = r
    BY DEF OnePerSlot, NewRows
  <2>2. \A o \in txn[p].base : SlotOfRow(o) = SlotOfRow(r) => o = old
    BY <1>2 DEF OnePerSlot
  <2>3. SlotOfRow(r) \in Announced(p) <=> r \in txn[p].batch /\ ~Unchanged(r, old)
    BY <1>2, <2>1, <2>2 DEF Announced
  <2>4. r \notin txn[p].batch => r = old
    BY <2>2, CarriedInBase DEF NewRows
  <2>5. Unchanged(old, old) BY DEF Unchanged
  <2> QED BY <2>3, <2>4, <2>5
<1> QED BY <1>1, <1>2

\* A publish that is not disturbed tells its readers everything: each session whose
\* row appears, changes or disappears with its version has an event of that kind, and
\* no other session of a source that stayed public has one.
THEOREM EverythingAnnounced == Safety /\ Undisturbed => []ChangesAnnounced
<1>1. TypeOK /\ PublishedRowsSound /\ SoloInv => ChangesAnnounced
  <2> SUFFICES ASSUME TypeOK, PublishedRowsSound, SoloInv, NEW p \in Publishers, At(p, "written")
               PROVE  LET v == txn[p].version
                          steady == {r \in LatestRows : SourceOfRow(r) \in watch[p].always}
                      IN /\ \A old \in steady :
                              /\ SlotOfRow(old) \in v.removed <=> SlotOfRow(old) \notin SlotsOf(v.rows)
                              /\ \A r \in v.rows : SlotOfRow(r) = SlotOfRow(old) =>
                                   (SlotOfRow(r) \in v.announced <=> ~Unchanged(r, old))
                         /\ SlotsOf(v.rows) \ SlotsOf(LatestRows) \subseteq v.announced
    BY DEF ChangesAnnounced
  <2>1. BaseIsServed(p) /\ WrittenFrom(p) BY DEF SoloInv, SoloOf, At, Based
  <2>2. OnePerSlot(LatestRows) BY ServedOnePerSlot DEF SoloInv
  <2>3. \A old \in LatestRows : SourceOfRow(old) \in watch[p].always => old \in txn[p].base
    BY <2>1 DEF BaseIsServed
  <2>4. \A old \in txn[p].base :
          /\ SlotOfRow(old) \in Removed(p) <=> SlotOfRow(old) \notin SlotsOf(NewRows(p))
          /\ \A r \in NewRows(p) : SlotOfRow(r) = SlotOfRow(old) =>
               (SlotOfRow(r) \in Announced(p) <=> ~Unchanged(r, old))
    BY <2>1, <2>2, EventsTellDifference DEF BaseIsServed, WrittenFrom
  <2>5. SlotsOf(NewRows(p)) \ SlotsOf(LatestRows) \subseteq Announced(p)
    <3> SUFFICES ASSUME NEW r \in NewRows(p), SlotOfRow(r) \notin SlotsOf(LatestRows)
                 PROVE  SlotOfRow(r) \in Announced(p)
      BY DEF SlotsOf
    <3>1. \A old \in txn[p].base : SlotOfRow(old) # SlotOfRow(r)
      BY <2>1 DEF BaseIsServed, SlotsOf
    <3>2. r \in txn[p].batch BY <3>1, CarriedInBase DEF NewRows
    <3> QED BY <3>1, <3>2 DEF Announced
  <2> QED BY <2>1, <2>3, <2>4, <2>5 DEF WrittenFrom
<1> QED BY <1>1, SoloAlways, PublishedSound, PTL

\* What a publish was called with depends on its selection and the policies it saw.
LEMMA SameCall ==
  ASSUME NEW p \in Publishers,
         txn'[p].stage = "idle" <=> txn[p].stage = "idle",
         txn'[p].batch = txn[p].batch, txn'[p].partial = txn[p].partial,
         watch'[p].ever = watch[p].ever, watch'[p].always = watch[p].always
  PROVE  CallOf(p)' = CallOf(p)
BY DEF CallOf, Running, At

\* A step within a publish, which only its own session sees, is a stutter.
LEMMA InsideIsStutter ==
  ASSUME NEW p \in Publishers, TypeOK,
         txn'[p].stage = "idle" <=> txn[p].stage = "idle",
         txn'[p].batch = txn[p].batch, txn'[p].partial = txn[p].partial,
         watch'[p].ever = watch[p].ever, watch'[p].always = watch[p].always,
         \A q \in Publishers \ {p} : txn'[q] = txn[q] /\ watch'[q] = watch[q],
         versions' = versions, cand' = cand, public' = public
  PROVE  UNCHANGED Dataset!dataVars
<1>1. LatestRows' = LatestRows BY DEF LatestRows, Newest
<1>2. Approved' = Approved
  BY DEF Approved, Publishable, CanPublish, IsValid, Rivals, Active
<1>3. \A q \in Publishers : CallOf(q)' = CallOf(q) BY SameCall
<1>4. Calls' = Calls BY <1>3 DEF Calls
<1> QED BY <1>1, <1>2, <1>4 DEF Dataset!dataVars

\* A publish that does not commit ends as if it had not been called.
LEMMA FailsAsOne ==
  ASSUME TypeOK, NEW p \in Publishers, Running(p), RollBack(p)
  PROVE  Dataset!Fail(p)
<1>a. txn \in [Publishers -> Txn] BY DEF TypeOK
<1>b. watch \in [Publishers -> Watch] BY DEF TypeOK
<1>1. /\ txn' = [txn EXCEPT ![p] = Idle] /\ watch' = [watch EXCEPT ![p] = Unwatched]
      /\ versions' = versions /\ cand' = cand /\ public' = public
  BY DEF RollBack, candVars
<1>2. LatestRows' = LatestRows BY <1>1 DEF LatestRows, Newest
<1>3. Approved' = Approved
  BY <1>1 DEF Approved, Publishable, CanPublish, IsValid, Rivals, Active
<1>4. \A q \in Publishers \ {p} : txn'[q] = txn[q] /\ watch'[q] = watch[q]
  BY <1>a, <1>b, <1>1
<1>5. \A q \in Publishers \ {p} : CallOf(q)' = CallOf(q) BY <1>4, SameCall
<1>6. txn'[p].stage = "idle" BY <1>a, <1>1, IdleTypes
<1>7. CallOf(p)' = {} BY <1>6 DEF CallOf, Running, At
<1>8. Calls' = [Calls EXCEPT ![p] = {}] BY <1>5, <1>7 DEF Calls
<1>9. Calls[p] # {} BY DEF Calls, CallOf
<1> QED BY <1>1, <1>2, <1>3, <1>8, <1>9 DEF Dataset!Fail

\* A publish is called with all that is approved in its scope.
LEMMA SelectsAsOne ==
  ASSUME TypeOK, NEW p \in Publishers, NEW f \in Filters, Select(p, f)
  PROVE  Dataset!Call(p)
<1>a. txn \in [Publishers -> Txn] BY DEF TypeOK
<1>b. watch \in [Publishers -> Watch] BY DEF TypeOK
<1>1. /\ versions' = versions /\ cand' = cand /\ public' = public
      /\ Batch(f) # {} /\ txn[p].stage = "idle"
  BY DEF Select, candVars, At
<1>2. LatestRows' = LatestRows BY <1>1 DEF LatestRows, Newest
<1>3. Approved' = Approved
  BY <1>1 DEF Approved, Publishable, CanPublish, IsValid, Rivals, Active
<1>4. \A q \in Publishers \ {p} : txn'[q] = txn[q] /\ watch'[q] = watch[q]
  BY <1>a, <1>b DEF Select
<1>5. \A q \in Publishers \ {p} : CallOf(q)' = CallOf(q) BY <1>4, SameCall
<1>6. /\ txn'[p].stage = "selected" /\ txn'[p].batch = Batch(f)
      /\ txn'[p].partial = f.partial
  BY <1>a, ZenonT(60) DEF Select, Txn
<1>7. watch'[p].ever = public /\ watch'[p].always = public BY <1>b DEF Select
<1>8. {r \in Approved : InScope(r, f)} = Batch(f)
  BY DEF Approved, Batch, InScope, SlotOfRow, SourceOfRow
<1> DEFINE call == [batch |-> Batch(f), partial |-> f.partial, ever |-> public, always |-> public]
<1>9. CallOf(p)' = {call} BY <1>6, <1>7 DEF CallOf, Running, At
<1>10. Calls' = [Calls EXCEPT ![p] = {call}] BY <1>5, <1>9 DEF Calls
<1>11. Calls[p] = {} BY <1>1 DEF Calls, CallOf, Running, At
<1> QED BY <1>1, <1>2, <1>3, <1>8, <1>10, <1>11 DEF Dataset!Call

\* What an undisturbed publisher writes is the next dataset of the one served.
LEMMA NextOfServed ==
  ASSUME NEW p \in Publishers, NEW S,
         txn[p].base = {r \in LatestRows : SourceOfRow(r) \in S}, OnePerSlot(NewRows(p)),
         NEW c, c.batch = txn[p].batch, c.partial = txn[p].partial
  PROVE  NewRows(p) = Dataset!NextRows(c, S)
<1>1. CASE ~txn[p].partial BY <1>1 DEF NewRows, Carried, Dataset!NextRows
<1>2. CASE txn[p].partial
  <2> DEFINE rest == {r \in LatestRows :
                        SourceOfRow(r) \in S /\ SlotOfRow(r) \notin SlotsOf(txn[p].batch)}
  <2>1. Dataset!NextRows(c, S) = txn[p].batch \cup rest
    BY <1>2 DEF Dataset!NextRows, Dataset!SessionsOf, SlotsOf
  <2>2. rest \subseteq Carried(p) BY <1>2 DEF Carried, Outside, Kept
  <2>3. ASSUME NEW r \in Carried(p) PROVE r \in txn[p].batch \cup rest
    <3>1. r \in LatestRows /\ SourceOfRow(r) \in S BY CarriedInBase
    <3>2. CASE SlotOfRow(r) \notin SlotsOf(txn[p].batch) BY <3>1, <3>2
    <3>3. CASE SlotOfRow(r) \in SlotsOf(txn[p].batch)
      <4>1. PICK b \in txn[p].batch : SlotOfRow(b) = SlotOfRow(r) BY <3>3 DEF SlotsOf
      <4>2. b = r BY <4>1 DEF OnePerSlot, NewRows
      <4> QED BY <4>1, <4>2
    <3> QED BY <3>2, <3>3
  <2> QED BY <2>1, <2>2, <2>3 DEF NewRows
<1> QED BY <1>1, <1>2

\* A commit publishes, all at once.
LEMMA CommitsAsOne ==
  ASSUME TypeOK, SoloInv, NEW p \in Publishers, Commit(p)
  PROVE  Dataset!Publish(p)
<1>a. txn \in [Publishers -> Txn] BY DEF TypeOK
<1>b. watch \in [Publishers -> Watch] BY DEF TypeOK
<1>c. At(p, "written") /\ public' = public BY DEF Commit
<1> DEFINE call == [batch |-> txn[p].batch, partial |-> txn[p].partial,
                    ever |-> watch[p].ever, always |-> watch[p].always]
<1>1. call \in Calls[p] BY <1>c DEF Calls, CallOf, Running, At
<1>2. BaseIsServed(p) /\ WrittenFrom(p) BY <1>c DEF SoloInv, SoloOf, At, Based
<1>3. PICK S \in SUBSET Sources :
        /\ watch[p].always \subseteq S /\ S \subseteq watch[p].ever
        /\ txn[p].base = {r \in LatestRows : SourceOfRow(r) \in S}
  BY <1>2 DEF BaseIsServed
<1>4. LatestRows' = NewRows(p) BY <1>2, CommitServes DEF WrittenFrom
<1>5. NewRows(p) = Dataset!NextRows(call, S) BY <1>2, <1>3, NextOfServed DEF WrittenFrom
<1>6. Dataset!NoSlotTwice(LatestRows')
  BY <1>2, <1>4 DEF WrittenFrom, Dataset!NoSlotTwice, OnePerSlot
<1>7. \A c \in Cands : IF c \in BatchCands(p)
                       THEN cand'[c].status = "superseded" /\ cand'[c].val = cand[c].val
                       ELSE cand'[c] = cand[c]
  <2>1. \A c \in Cands : cand[c] \in CandidateRow BY DEF TypeOK, CandTypeOK
  <2> QED BY <2>1, ZenonT(60) DEF Commit, CandidateRow
<1>8. \A c \in Cands : ~Active(c) => ~Active(c)'
  BY <1>7 DEF Active, ActiveStatuses
<1>9. \A c \in Cands : Rivals(c)' \subseteq Rivals(c) BY <1>8 DEF Rivals
<1>10. \A c \in Cands \ BatchCands(p) : Publishable(c) => Publishable(c)'
  BY <1>7, <1>9, <1>c DEF Publishable, CanPublish, IsValid
<1>11. \A c \in BatchCands(p) \cap Cands : ~Publishable(c)' BY <1>7 DEF Publishable
<1>12. Approved' \subseteq Row
  <2>1. \A c \in Cands : cand'[c].status = "approved" => cand'[c].val \in Values
    BY <1>7 DEF TypeOK, CandTypeOK, CandidateRow
  <2> QED BY <2>1 DEF Approved, Publishable, Row
<1>13. {r \in Approved : \A b \in txn[p].batch : b.cand # r.cand} \subseteq Approved'
  <2> SUFFICES ASSUME NEW r \in Approved, \A b \in txn[p].batch : b.cand # r.cand
               PROVE  r \in Approved'
    OBVIOUS
  <2>1. PICK c \in Cands : Publishable(c) /\ r = [cand |-> c, val |-> cand[c].val]
    BY DEF Approved
  <2>2. r.cand = c BY <2>1
  <2>3. c \notin BatchCands(p) BY <2>2 DEF BatchCands
  <2>4. Publishable(c)' /\ cand'[c].val = cand[c].val BY <1>7, <1>10, <2>1, <2>3
  <2>5. r = [cand |-> c, val |-> cand'[c].val] BY <2>1, <2>4
  <2> QED BY <2>4, <2>5 DEF Approved
<1>14. \A r \in Approved', b \in txn[p].batch : b.cand # r.cand
  BY <1>11 DEF Approved, BatchCands
<1>15. Calls' = [Calls EXCEPT ![p] = {}]
  <2>1. \A q \in Publishers \ {p} : txn'[q] = txn[q] /\ watch'[q] = watch[q]
    BY <1>a, <1>b DEF Commit
  <2>2. \A q \in Publishers \ {p} : CallOf(q)' = CallOf(q) BY <2>1, SameCall
  <2>3. txn'[p].stage = "idle" BY <1>a, IdleTypes DEF Commit
  <2>4. CallOf(p)' = {} BY <2>3 DEF CallOf, Running, At
  <2> QED BY <2>2, <2>4 DEF Calls
<1>16. call.batch = txn[p].batch /\ call.ever = watch[p].ever /\ call.always = watch[p].always
  OBVIOUS
<1> HIDE DEF call
<1> QED BY <1>c, <1>1, <1>3, <1>4, <1>5, <1>6, <1>12, <1>13, <1>14, <1>15, <1>16
     DEF Dataset!Publish

\* Other transactions change what is approved and public, and nothing served.
LEMMA OthersAsOne ==
  ASSUME TypeOK, TypeOK', Elsewhere
  PROVE  Dataset!Elsewhere
<1>1. txn' = txn /\ versions' = versions BY DEF Elsewhere
<1>2. LatestRows' = LatestRows BY <1>1 DEF LatestRows, Newest
<1>3. public' \subseteq Sources BY DEF TypeOK, CandTypeOK
<1>4. Approved' \subseteq Row
  <2>1. \A c \in Cands : cand'[c].status = "approved" => cand'[c].val \in Values
    BY DEF TypeOK, CandTypeOK, CandidateRow
  <2> QED BY <2>1 DEF Approved, Publishable, Row
<1>5. ASSUME NEW p \in Publishers
      PROVE  CallOf(p)' = {Dataset!Seeing(c, public') : c \in CallOf(p)}
  <2>1. Running(p)' = Running(p) BY <1>1 DEF Running, At
  <2>2. CASE ~Running(p) BY <2>1, <2>2 DEF CallOf
  <2>3. CASE Running(p)
    <3>1. watch[p] \in Watch BY DEF TypeOK
    <3>2. /\ watch'[p].ever = watch[p].ever \cup public'
          /\ watch'[p].always = watch[p].always \cap public'
      BY <2>3, <3>1 DEF Elsewhere, Watching, Watch
    <3>3. CallOf(p)' = {[batch |-> txn[p].batch, partial |-> txn[p].partial,
                         ever |-> watch[p].ever \cup public',
                         always |-> watch[p].always \cap public']}
      BY <1>1, <2>1, <2>3, <3>2 DEF CallOf
    <3> DEFINE call == [batch |-> txn[p].batch, partial |-> txn[p].partial,
                        ever |-> watch[p].ever, always |-> watch[p].always]
    <3>4. CallOf(p) = {call} BY <2>3 DEF CallOf
    <3>5. Dataset!Seeing(call, public') =
            [batch |-> txn[p].batch, partial |-> txn[p].partial,
             ever |-> watch[p].ever \cup public', always |-> watch[p].always \cap public']
      BY DEF Dataset!Seeing
    <3> HIDE DEF call
    <3> QED BY <3>3, <3>4, <3>5
  <2> QED BY <2>2, <2>3
<1>6. Calls' = [p \in Publishers |-> {Dataset!Seeing(c, public') : c \in Calls[p]}]
  BY <1>5 DEF Calls
<1> QED BY <1>2, <1>3, <1>4, <1>6 DEF Dataset!Elsewhere

\* Every step is one of PublishedDataset's, or changes nothing readers can see.
LEMMA PublishesAsOne ==
  ASSUME TypeOK, TypeOK', SoloInv, Next
  PROVE  [Dataset!Next]_(Dataset!dataVars)
<1>a. txn \in [Publishers -> Txn] BY DEF TypeOK
<1>b. watch \in [Publishers -> Watch] BY DEF TypeOK
<1>1. ASSUME NEW p \in Publishers, NEW f \in Filters, Select(p, f) PROVE Dataset!Next
  BY <1>1, SelectsAsOne DEF Dataset!Next
<1>2. ASSUME NEW p \in Publishers, ReadPrevious(p) PROVE UNCHANGED Dataset!dataVars
  <2>1. /\ txn'[p].stage = "based" /\ txn[p].stage = "selected"
        /\ txn'[p].batch = txn[p].batch /\ txn'[p].partial = txn[p].partial
    BY <1>a, <1>2, ZenonT(60) DEF ReadPrevious, At, Txn
  <2>2. \A q \in Publishers \ {p} : txn'[q] = txn[q] BY <1>a, <1>2 DEF ReadPrevious
  <2>3. watch' = watch /\ versions' = versions /\ cand' = cand /\ public' = public
    BY <1>2 DEF ReadPrevious, candVars
  <2> QED BY <2>1, <2>2, <2>3, InsideIsStutter
<1>3. ASSUME NEW p \in Publishers, ReadClock(p) PROVE UNCHANGED Dataset!dataVars
  <2>1. txn[p].stage = "based" BY <1>3 DEF ReadClock, At
  <2>2. watch' = watch /\ versions' = versions /\ cand' = cand /\ public' = public
    BY <1>3 DEF ReadClock, candVars
  <2>3. /\ txn'[p].stage = "timed"
        /\ txn'[p].batch = txn[p].batch /\ txn'[p].partial = txn[p].partial
        /\ \A q \in Publishers \ {p} : txn'[q] = txn[q]
    BY <1>a, <1>3, TimedKeeps
  <2> QED BY <2>1, <2>2, <2>3, InsideIsStutter
<1>4. ASSUME NEW p \in Publishers, ReadNames(p) PROVE UNCHANGED Dataset!dataVars
  <2>1. txn[p].stage = "timed" BY <1>4 DEF ReadNames, At
  <2>2. /\ txn'[p].stage = "named"
        /\ txn'[p].batch = txn[p].batch /\ txn'[p].partial = txn[p].partial
    BY <1>a, <1>4, NamedKeeps
  <2>3. \A q \in Publishers \ {p} : txn'[q] = txn[q] BY <1>a, <1>4, NamedKeeps
  <2>4. versions' = versions /\ cand' = cand /\ public' = public
    BY <1>4 DEF ReadNames, candVars
  <2>5. /\ watch'[p].ever = watch[p].ever /\ watch'[p].always = watch[p].always
        /\ \A q \in Publishers \ {p} : watch'[q] = watch[q]
    BY <1>b, <1>4, ZenonT(60) DEF ReadNames, Watch
  <2> QED BY <2>1, <2>2, <2>3, <2>4, <2>5, InsideIsStutter
<1>5. ASSUME NEW p \in Publishers, Insert(p) PROVE UNCHANGED Dataset!dataVars
  <2>1. /\ txn'[p].stage = "inserted" /\ txn[p].stage = "named"
        /\ txn'[p].batch = txn[p].batch /\ txn'[p].partial = txn[p].partial
    BY <1>a, <1>5, ZenonT(60) DEF Insert, At, Txn
  <2>2. \A q \in Publishers \ {p} : txn'[q] = txn[q] BY <1>a, <1>5 DEF Insert
  <2>3. watch' = watch /\ versions' = versions /\ cand' = cand /\ public' = public
    BY <1>5 DEF Insert, candVars
  <2> QED BY <2>1, <2>2, <2>3, InsideIsStutter
<1>6. ASSUME NEW p \in Publishers, WriteRows(p) PROVE UNCHANGED Dataset!dataVars
  <2>1. txn' = [txn EXCEPT ![p] = TxnWritten(p)] BY <1>a, <1>6, WrittenAsOneUpdate
  <2>2. /\ txn'[p].stage = "written" /\ txn[p].stage = "inserted"
        /\ txn'[p].batch = txn[p].batch /\ txn'[p].partial = txn[p].partial
    <3>1. txn'[p] = TxnWritten(p) BY <1>a, <2>1
    <3>2. txn[p] \in Txn /\ txn[p].stage = "inserted" BY <1>a, <1>6 DEF WriteRows, At
    <3> QED BY <3>1, <3>2 DEF TxnWritten, Txn
  <2>3. \A q \in Publishers \ {p} : txn'[q] = txn[q] BY <1>a, <2>1
  <2>4. watch' = watch /\ versions' = versions /\ cand' = cand /\ public' = public
    BY <1>6 DEF WriteRows, candVars
  <2> QED BY <2>2, <2>3, <2>4, InsideIsStutter
<1>7. ASSUME NEW p \in Publishers, InsertRefused(p) \/ WriteRefused(p) \/ Crash(p)
      PROVE  Dataset!Next
  <2>1. Running(p) /\ RollBack(p)
    BY <1>7 DEF InsertRefused, WriteRefused, Crash, Running, At
  <2> QED BY <2>1, FailsAsOne DEF Dataset!Next
<1>8. ASSUME NEW p \in Publishers, Commit(p) PROVE Dataset!Next
  BY <1>8, CommitsAsOne DEF Dataset!Next
<1>9. CASE Elsewhere BY <1>9, OthersAsOne DEF Dataset!Next
<1>10. CASE Midnight
  <2>1. /\ txn' = txn /\ watch' = watch /\ versions' = versions
        /\ cand' = cand /\ public' = public
    BY <1>10 DEF Midnight, candVars
  <2>2. LatestRows' = LatestRows BY <2>1 DEF LatestRows, Newest
  <2>3. Approved' = Approved
    BY <2>1 DEF Approved, Publishable, CanPublish, IsValid, Rivals, Active
  <2>4. \A q \in Publishers : CallOf(q)' = CallOf(q) BY <2>1, SameCall
  <2>5. Calls' = Calls BY <2>4 DEF Calls
  <2> QED BY <2>1, <2>2, <2>3, <2>5 DEF Dataset!dataVars
<1> QED
  BY <1>1, <1>2, <1>3, <1>4, <1>5, <1>6, <1>7, <1>8, <1>9, <1>10 DEF Next, Advance

\* Publishes that do not disturb each other implement PublishedDataset: each takes what
\* is approved in its scope when it is called and lays it, at its commit, over what is
\* served at that moment; a partial one keeps every other row of a source that stayed
\* public, and nothing else changes what readers are served.
THEOREM ServesTheDataset == Safety /\ Undisturbed => RefinesDataset
<1>1. Init => Dataset!Init
  BY IdleTypes DEF Init, Dataset!Init, LatestRows, Calls, CallOf, Running, At
<1>2. TypeOK /\ TypeOK' /\ SoloInv /\ [Next]_vars => [Dataset!Next]_(Dataset!dataVars)
  <2>1. ASSUME UNCHANGED vars PROVE UNCHANGED Dataset!dataVars
    <3>1. /\ txn' = txn /\ watch' = watch /\ versions' = versions
          /\ cand' = cand /\ public' = public
      BY <2>1 DEF vars, candVars, pubVars
    <3>2. LatestRows' = LatestRows BY <3>1 DEF LatestRows, Newest
    <3>3. Approved' = Approved
      BY <3>1 DEF Approved, Publishable, CanPublish, IsValid, Rivals, Active
    <3>4. \A q \in Publishers : CallOf(q)' = CallOf(q) BY <3>1, SameCall
    <3>5. Calls' = Calls BY <3>4 DEF Calls
    <3> QED BY <3>1, <3>2, <3>3, <3>5 DEF Dataset!dataVars
  <2> QED BY <2>1, PublishesAsOne
<1> QED BY <1>1, <1>2, SoloAlways, PTL DEF RefinesDataset, Dataset!Spec, Safety

\* A publisher starts from all that is served.
AllBased == \A p \in Publishers : Based(p) => LatestRows \subseteq txn[p].base

LEMMA AllBasedStep ==
  ASSUME TypeOK, AllBased, CommitsAlone, Next,
         \A v \in versions : SourcesOf(v.rows) \subseteq public
  PROVE  AllBased'
<1>a. txn \in [Publishers -> Txn] BY DEF TypeOK
<1>1. PublicRows(LatestRows) = LatestRows BY DEF PublicRows, LatestRows, SourcesOf
<1>2. ASSUME versions' = versions,
             \A p \in Publishers : \/ ~Based(p)'
                                   \/ Based(p) /\ txn'[p].base = txn[p].base
                                   \/ txn'[p].base = PublicRows(LatestRows)
      PROVE  AllBased'
  <2>1. LatestRows' = LatestRows BY <1>2 DEF LatestRows, Newest
  <2> QED BY <1>1, <1>2, <2>1 DEF AllBased
<1>b. ASSUME NEW p \in Publishers, txn'[p] = txn[p]
      PROVE  ~Based(p)' \/ (Based(p) /\ txn'[p].base = txn[p].base)
  BY <1>b DEF Based
<1>3. ASSUME NEW p \in Publishers, NEW f \in Filters, Select(p, f) PROVE AllBased'
  <2>1. txn'[p].stage = "selected" BY <1>a, <1>3, ZenonT(60) DEF Select, Txn
  <2>2. \A q \in Publishers \ {p} : txn'[q] = txn[q] BY <1>a, <1>3, ZenonT(60) DEF Select
  <2>3. ~Based(p)' BY <2>1 DEF Based
  <2>4. versions' = versions BY <1>3 DEF Select
  <2> QED BY <1>2, <1>b, <2>2, <2>3, <2>4
<1>4. ASSUME NEW p \in Publishers, ReadPrevious(p) PROVE AllBased'
  <2>1. txn'[p].base = PublicRows(LatestRows) BY <1>a, <1>4 DEF ReadPrevious, Txn
  <2>2. \A q \in Publishers \ {p} : txn'[q] = txn[q] BY <1>a, <1>4 DEF ReadPrevious
  <2>3. versions' = versions BY <1>4 DEF ReadPrevious
  <2> QED BY <1>2, <1>b, <2>1, <2>2, <2>3
<1>5. ASSUME NEW p \in Publishers, ReadClock(p) \/ ReadNames(p) PROVE AllBased'
  <2>1. txn'[p].base = txn[p].base /\ \A q \in Publishers \ {p} : txn'[q] = txn[q]
    BY <1>a, <1>5, TimedKeeps, NamedKeeps
  <2>2. Based(p) /\ versions' = versions BY <1>5 DEF ReadClock, ReadNames, At, Based
  <2> QED BY <1>2, <1>b, <2>1, <2>2
<1>6. ASSUME NEW p \in Publishers, Insert(p) PROVE AllBased'
  <2>1. txn'[p].base = txn[p].base BY <1>a, <1>6 DEF Insert, Txn
  <2>2. \A q \in Publishers \ {p} : txn'[q] = txn[q] BY <1>a, <1>6 DEF Insert
  <2>3. Based(p) /\ versions' = versions BY <1>6 DEF Insert, At, Based
  <2> QED BY <1>2, <1>b, <2>1, <2>2, <2>3
<1>7. ASSUME NEW p \in Publishers, WriteRows(p) PROVE AllBased'
  <2>1. txn' = [txn EXCEPT ![p] = TxnWritten(p)] BY <1>a, <1>7, WrittenAsOneUpdate
  <2>2. txn'[p].base = txn[p].base BY <1>a, <2>1 DEF TxnWritten, Txn
  <2>3. \A q \in Publishers \ {p} : txn'[q] = txn[q] BY <1>a, <2>1
  <2>4. Based(p) /\ versions' = versions BY <1>7 DEF WriteRows, At, Based
  <2> QED BY <1>2, <1>b, <2>2, <2>3, <2>4
<1>8. ASSUME NEW p \in Publishers, InsertRefused(p) \/ WriteRefused(p) \/ Crash(p)
      PROVE  AllBased'
  <2>1. RollBack(p) BY <1>8 DEF InsertRefused, WriteRefused, Crash
  <2>2. \A q \in Publishers \ {p} : txn'[q] = txn[q] BY <1>a, <2>1 DEF RollBack
  <2>3. ~Based(p)' BY <1>a, <2>1, IdleTypes DEF RollBack, Based
  <2>4. versions' = versions BY <2>1 DEF RollBack
  <2> QED BY <1>2, <1>b, <2>2, <2>3, <2>4
<1>9. ASSUME NEW p \in Publishers, Commit(p) PROVE AllBased'
  <2>1. \A q \in Publishers : txn'[q] = IF q = p THEN Idle ELSE txn[q] BY <1>a, <1>9 DEF Commit
  <2>2. \A q \in Publishers \ {p} : ~Based(q) BY <1>9 DEF CommitsAlone
  <2>3. \A q \in Publishers : ~Based(q)' BY <2>1, <2>2, IdleTypes DEF Based
  <2> QED BY <2>3 DEF AllBased
<1>10. CASE Elsewhere \/ Midnight
  <2>1. txn' = txn /\ versions' = versions BY <1>10 DEF Elsewhere, Midnight
  <2> QED BY <1>2, <1>b, <2>1
<1> QED
  BY <1>3, <1>4, <1>5, <1>6, <1>7, <1>8, <1>9, <1>10 DEF Next, Advance

\* Removals go unannounced (the run removals) through revoked policies alone: as long
\* as none is revoked, every session that an undisturbed publish drops is announced as
\* removed.
THEOREM RemovalsTold == Safety /\ Undisturbed /\ NoneRevoked => []RemovalsAnnounced
<1>1. Init => AllBased BY IdleTypes DEF Init, AllBased, Based
<1>2. /\ TypeOK /\ AllBased /\ (\A v \in versions : SourcesOf(v.rows) \subseteq public)
      /\ [CommitsAlone]_vars /\ [Next]_vars
      => AllBased'
  <2>1. ASSUME AllBased, UNCHANGED vars PROVE AllBased'
    <3>1. txn' = txn /\ versions' = versions BY <2>1 DEF vars, pubVars
    <3>2. LatestRows' = LatestRows BY <3>1 DEF LatestRows, Newest
    <3> QED BY <2>1, <3>1, <3>2 DEF AllBased, Based
  <2> QED BY <2>1, AllBasedStep
<1>3. SoloInv /\ AllBased => RemovalsAnnounced
  <2> SUFFICES ASSUME SoloInv, AllBased, NEW p \in Publishers, At(p, "written")
               PROVE  SlotsOf(LatestRows) \ SlotsOf(txn[p].version.rows) \subseteq txn[p].version.removed
    BY DEF RemovalsAnnounced
  <2>1. WrittenFrom(p) BY DEF SoloInv, SoloOf
  <2>2. LatestRows \subseteq txn[p].base BY DEF AllBased, At, Based
  <2> QED BY <2>1, <2>2 DEF WrittenFrom, Removed, SlotsOf
<1> QED
  BY <1>1, <1>2, <1>3, SoloAlways, VersionsArePublic, PTL DEF Safety, Undisturbed

\* The three together for publishes that run one after another, as those of one
\* worker do: no lock would be needed then.
THEOREM OneAfterAnother ==
  Safety /\ []OneAtATime => []CarriedForward /\ []ChangesAnnounced /\ RefinesDataset
<1>1. OneAtATime => [CommitsAlone]_vars
  BY DEF OneAtATime, CommitsAlone, Commit, Based, Running, At
<1> QED BY <1>1, NothingLost, EverythingAnnounced, ServesTheDataset, PTL DEF Undisturbed

\* The instance that the run serial checks: a directory with one publisher.
COROLLARY OnePublisher ==
  ASSUME \A p, q \in Publishers : p = q
  PROVE  Safety => []CarriedForward /\ []ChangesAnnounced /\ RefinesDataset
<1>1. OneAtATime BY DEF OneAtATime
<1> QED BY <1>1, OneAfterAnother, PTL

=============================================================================
