----------------------------- MODULE CrawlProofs -----------------------------
(***************************************************************************)
(* Theorems about Crawl, for any number of sources, workers, copies of a   *)
(* task and crashes: type correctness, and that three failures in a row    *)
(* take an extractor out although runs overlap and two counters are kept.  *)
(***************************************************************************)
EXTENDS Crawl, TLAPS

\* A run of an extractor names its source and the counter it has read.
LEMMA RepoRun ==
  ASSUME TypeOK, NEW w \in Workers, work[w].kind = "repo"
  PROVE  work[w].src \in Sources /\ work[w].fails \in 0..3
BY DEF TypeOK, Runs, Off

\* A fetch of a homepage names its source.
LEMMA HomeRun ==
  ASSUME TypeOK, NEW w \in Workers, work[w].kind = "home"
  PROVE  work[w].src \in Sources
BY DEF TypeOK, Runs, Off

\* A backoff is a number of hours.
LEMMA BackoffIsTime ==
  ASSUME NEW n \in 0..3
  PROVE  Beats(BackoffAfter(n)) \in Nat
<1>1. Upto(n + 1, 3) + 1 \in 1..4
  BY DEF Upto
<1>2. Backoff[Upto(n + 1, 3) + 1] \in Nat
  BY <1>1, CrawlAssumption DEF CrawlAssumption
<1> QED
  BY <1>2 DEF BackoffAfter, Beats

\* So is the pause after failed fetches.
LEMMA PauseIsTime ==
  ASSUME NEW n \in Nat
  PROVE  Beats(PauseAfter(n)) \in Nat
<1> DEFINE k == Upto(n, 4) + 1
<1>1. k \in 1..5
  BY DEF Upto
<1>2. <<1, 2, 4, 8, 16>>[k] \in Nat
  BY <1>1
<1> HIDE DEF k
<1>3. Upto(<<1, 2, 4, 8, 16>>[k], LongestPause) \in Nat
  BY <1>2, CrawlAssumption DEF CrawlAssumption, Upto
<1> QED
  BY <1>3 DEF PauseAfter, Beats, k

-----------------------------------------------------------------------------
(* Type correctness. *)

\* The first state is of the right type.
LEMMA InitType == ASSUME Init PROVE TypeOK
BY CrawlAssumption DEF Init, TypeOK, CrawlAssumption, Runs, Off

\* Every step keeps the types: by the counters' bounds, and because a run's record
\* holds what was of the right type when it began.
LEMMA NextType == ASSUME TypeOK, [Next]_vars PROVE TypeOK'
<1> USE CrawlAssumption DEF CrawlAssumption
<1>1. CASE FetchDue
  BY <1>1 DEF FetchDue, TypeOK, NextBeat, Upto
<1>2. ASSUME NEW s \in Sources, NEW w \in Workers, TakeRepo(w, s)
      PROVE  TypeOK'
  <2>1. queue' \in [Sources -> 0..MaxCopies]
    BY <1>2 DEF TakeRepo, Delivered, TypeOK
  <2>2. work' \in [Workers -> Runs]
    BY <1>2 DEF TakeRepo, TypeOK, Runs
  <2> QED
    BY <1>2, <2>1, <2>2 DEF TakeRepo, Delivered, TypeOK
<1>3. ASSUME NEW s \in Sources, NEW w \in Workers, TakeHome(w, s)
      PROVE  TypeOK'
  <2>1. queue' \in [Sources -> 0..MaxCopies]
    BY <1>3 DEF TakeHome, Delivered, TypeOK
  <2>2. work' \in [Workers -> Runs]
    BY <1>3 DEF TakeHome, TypeOK, Runs
  <2> QED
    BY <1>3, <2>1, <2>2 DEF TakeHome, Delivered, TypeOK
<1>4. ASSUME NEW s \in Sources, NEW w \in Workers, SkipHome(w, s)
      PROVE  TypeOK'
  BY <1>4 DEF SkipHome, Delivered, TypeOK
<1>5. ASSUME NEW w \in Workers, Done(w)
      PROVE  work' \in [Workers -> Runs]
  BY <1>5 DEF Done, TypeOK, Runs
<1>6. ASSUME NEW w \in Workers, RepoSucceeds(w)
      PROVE  TypeOK'
  <2>1. work[w].src \in Sources
    BY <1>6, RepoRun DEF RepoSucceeds
  <2>2. work' \in [Workers -> Runs]
    BY <1>5, <1>6 DEF RepoSucceeds
  <2>3. Beats(RunHours[work[w].src]) \in Nat
    BY <2>1 DEF Beats
  <2> QED
    BY <1>6, <2>1, <2>2, <2>3 DEF RepoSucceeds, TypeOK
<1>7. ASSUME NEW w \in Workers, RepoFails(w)
      PROVE  TypeOK'
  <2> DEFINE s == work[w].src
             struck == Upto(strikes[s] + 1, MaxStrikes)
             failed == Upto(work[w].fails + 2, 3)
             beats == Beats(BackoffAfter(work[w].fails))
  <2>1. s \in Sources /\ work[w].fails \in 0..3
    BY <1>7, RepoRun DEF RepoFails
  <2>2. work' \in [Workers -> Runs]
    BY <1>5, <1>7 DEF RepoFails
  <2>3. struck \in 0..MaxStrikes
    BY <2>1 DEF TypeOK, Upto
  <2>4. failed \in 0..3
    BY <2>1 DEF Upto
  <2>5. beats \in Nat
    BY <2>1, BackoffIsTime
  <2>6. Upto(streak[s] + 1, 3) \in 0..3
    BY <2>1 DEF TypeOK, Upto
  <2>7. /\ fails' = [fails EXCEPT ![s] = failed]
        /\ wait' = [wait EXCEPT ![s] = beats]
        /\ strikes' = [strikes EXCEPT ![s] = struck]
        /\ assign' = IF StrikeOut(struck) THEN [assign EXCEPT ![s] = "out"] ELSE assign
        /\ streak' = [streak EXCEPT ![s] = Upto(@ + 1, 3)]
        /\ UNCHANGED <<pause, known, queue, events>>
    BY <1>7 DEF RepoFails
  <2> HIDE DEF s, struck, failed, beats
  <2> QED
    BY <2>1, <2>2, <2>3, <2>4, <2>5, <2>6, <2>7 DEF TypeOK
<1>8. ASSUME NEW w \in Workers, HomeSucceeds(w)
      PROVE  TypeOK'
  <2>1. work[w].src \in Sources
    BY <1>8, HomeRun DEF HomeSucceeds
  <2>2. work' \in [Workers -> Runs]
    BY <1>5, <1>8 DEF HomeSucceeds
  <2>3. Beats(CrawlHours) \in Nat
    BY DEF Beats
  <2> QED
    BY <1>8, <2>1, <2>2, <2>3 DEF HomeSucceeds, TypeOK
<1>9. ASSUME NEW w \in Workers, HomeFails(w)
      PROVE  TypeOK'
  <2> DEFINE s == work[w].src
             struck == Upto(strikes[s] + 1, MaxStrikes)
             beats == Beats(PauseAfter(struck))
  <2>1. s \in Sources
    BY <1>9, HomeRun DEF HomeFails
  <2>2. work' \in [Workers -> Runs]
    BY <1>5, <1>9 DEF HomeFails
  <2>3. struck \in 0..MaxStrikes
    BY <2>1 DEF TypeOK, Upto
  <2>4. beats \in Nat
    BY <2>3, PauseIsTime
  <2>5. /\ strikes' = [strikes EXCEPT ![s] = struck]
        /\ pause' = [pause EXCEPT ![s] = beats]
        /\ UNCHANGED <<assign, fails, wait, known, queue, streak, events>>
    BY <1>9 DEF HomeFails
  <2> HIDE DEF s, struck, beats
  <2> QED
    BY <2>1, <2>2, <2>3, <2>4, <2>5 DEF TypeOK
<1>10. ASSUME NEW w \in Workers, Crash(w)
       PROVE  TypeOK'
  BY <1>5, <1>10 DEF Crash, Event, TypeOK
<1>11. ASSUME NEW s \in Sources, Activate(s)
       PROVE  TypeOK'
  BY <1>11 DEF Activate, Event, TypeOK, Beats
<1>12. CASE UNCHANGED vars
  BY <1>12 DEF vars, TypeOK
<1> QED
  BY <1>1, <1>2, <1>3, <1>4, <1>6, <1>7, <1>8, <1>9, <1>10, <1>11, <1>12
  DEF Next, Take, Finish

\* The types of Crawl hold in every behaviour, whatever fairness.
THEOREM CrawlTypes == Safety => []TypeOK
BY InitType, NextType, PTL DEF Safety

-----------------------------------------------------------------------------
(* Three strikes. *)

\* What makes ThreeStrikesOut inductive: the counter of source_health is never
\* behind the failures since the activation, though it is not set to zero with them.
StrikesInv ==
  \A s \in Sources : streak[s] <= strikes[s] /\ (streak[s] = 3 => ~Active(s))

\* A run that fails is the only step that makes a streak longer.
LEMMA FailedRunStrikes ==
  ASSUME TypeOK, StrikesInv, NEW w \in Workers, RepoFails(w)
  PROVE  StrikesInv'
<1> USE CrawlAssumption DEF CrawlAssumption
<1> DEFINE s == work[w].src
           struck == Upto(strikes[s] + 1, MaxStrikes)
           longer == Upto(streak[s] + 1, 3)
<1>1. s \in Sources
  BY RepoRun DEF RepoFails
<1>2. /\ strikes' = [strikes EXCEPT ![s] = struck]
      /\ streak' = [streak EXCEPT ![s] = longer]
      /\ assign' = IF StrikeOut(struck) THEN [assign EXCEPT ![s] = "out"] ELSE assign
  BY DEF RepoFails
<1>3. streak[s] \in 0..3 /\ strikes[s] \in 0..MaxStrikes /\ streak[s] <= strikes[s]
  BY <1>1 DEF TypeOK, StrikesInv
<1>4. longer <= struck /\ (longer = 3 => struck >= 3)
  BY <1>3 DEF Upto
<1> HIDE DEF s, struck, longer
<1>5. longer = 3 => assign' = [assign EXCEPT ![s] = "out"]
  BY <1>2, <1>4 DEF StrikeOut
<1>6. streak'[s] <= strikes'[s] /\ (streak'[s] = 3 => assign'[s] # "active")
  <2>1. streak'[s] = longer /\ strikes'[s] = struck
    BY <1>1, <1>2 DEF TypeOK
  <2>2. longer = 3 => assign'[s] = "out"
    BY <1>1, <1>5 DEF TypeOK
  <2> QED
    BY <1>4, <2>1, <2>2
<1>7. ASSUME NEW t \in Sources, t # s
      PROVE  streak'[t] <= strikes'[t] /\ (streak'[t] = 3 => assign'[t] # "active")
  BY <1>1, <1>2, <1>7 DEF TypeOK, StrikesInv, Active
<1> QED
  BY <1>6, <1>7 DEF StrikesInv, Active

\* Every step keeps the invariant.
LEMMA NextStrikes ==
  ASSUME TypeOK, StrikesInv, [Next]_vars
  PROVE  StrikesInv'
<1>1. ASSUME UNCHANGED <<assign, strikes, streak>>
      PROVE  StrikesInv'
  BY <1>1 DEF StrikesInv, Active
<1>2. CASE FetchDue \/ UNCHANGED vars
  BY <1>1, <1>2 DEF FetchDue, vars
<1>3. ASSUME NEW s \in Sources, Take(s)
      PROVE  StrikesInv'
  BY <1>1, <1>3 DEF Take, TakeRepo, TakeHome, SkipHome, Delivered
<1>4. ASSUME NEW w \in Workers, RepoSucceeds(w)
      PROVE  StrikesInv'
  <2>1. work[w].src \in Sources
    BY <1>4, RepoRun DEF RepoSucceeds
  <2> QED
    BY <1>4, <2>1 DEF RepoSucceeds, TypeOK, StrikesInv, Active
<1>5. ASSUME NEW w \in Workers, HomeSucceeds(w)
      PROVE  StrikesInv'
  <2>1. work[w].src \in Sources
    BY <1>5, HomeRun DEF HomeSucceeds
  <2> QED
    BY <1>5, <2>1 DEF HomeSucceeds, TypeOK, StrikesInv, Active
<1>6. ASSUME NEW w \in Workers, HomeFails(w)
      PROVE  StrikesInv'
  <2> DEFINE s == work[w].src
             struck == Upto(strikes[s] + 1, MaxStrikes)
  <2>1. s \in Sources
    BY <1>6, HomeRun DEF HomeFails
  <2>2. strikes' = [strikes EXCEPT ![s] = struck] /\ UNCHANGED <<assign, streak>>
    BY <1>6 DEF HomeFails
  <2>3. strikes[s] <= struck
    BY <2>1, CrawlAssumption DEF TypeOK, Upto, CrawlAssumption
  <2>4. struck \in Nat
    BY <2>1, CrawlAssumption DEF TypeOK, CrawlAssumption, Upto
  <2> HIDE DEF s, struck
  <2> QED
    BY <2>1, <2>2, <2>3, <2>4, CrawlAssumption DEF TypeOK, StrikesInv, Active, CrawlAssumption
<1>7. ASSUME NEW w \in Workers, Crash(w)
      PROVE  StrikesInv'
  BY <1>1, <1>7 DEF Crash
<1>8. ASSUME NEW s \in Sources, Activate(s)
      PROVE  StrikesInv'
  BY <1>8, CrawlAssumption DEF Activate, TypeOK, StrikesInv, Active, CrawlAssumption
<1> QED
  BY <1>2, <1>3, <1>4, <1>5, <1>6, <1>7, <1>8, FailedRunStrikes DEF Next, Finish

\* An extractor with three failures and no success since its activation is out, for
\* any number of overlapping runs: those that fail count on the same row.
THEOREM StruckOut == Safety => []ThreeStrikesOut
<1>1. Init => StrikesInv
  BY CrawlAssumption DEF Init, StrikesInv, CrawlAssumption
<1>2. TypeOK /\ StrikesInv /\ [Next]_vars => StrikesInv'
  BY NextStrikes
<1>3. StrikesInv => ThreeStrikesOut
  BY DEF StrikesInv, ThreeStrikesOut
<1> QED
  BY CrawlTypes, <1>1, <1>2, <1>3, PTL DEF Safety
=============================================================================
