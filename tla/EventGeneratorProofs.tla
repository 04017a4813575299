------------------------ MODULE EventGeneratorProofs ------------------------
(***************************************************************************)
(* No registration falls between two runs of the event generator, for any  *)
(* Klasser, page size, precision and order of FKK's results, and whatever  *)
(* fails, as long as FKK's clock is not behind ours.                       *)
(*                                                                         *)
(* The invariant is RunCatchesUp with NoLostChange: while results change,  *)
(* positions in them only grow, so what lay beyond the pages asked for     *)
(* still does; and a page that is empty leaves nothing beyond it, because  *)
(* positions have no gaps.                                                 *)
(***************************************************************************)
EXTENDS EventGenerator, FiniteSetTheorems, WellFoundedInduction, TLAPS

\* FKK's clock is not behind ours.
NotBehind == Ahead \in Nat

\* No time passes the clock by which it was taken.
Clocks ==
    /\ \A u \in Uuids : registered[u] <= clock + Ahead
    /\ Since(last_run) <= clock
    /\ now <= clock

PollInv == TypeOK /\ NotBehind /\ Clocks /\ NoLostChange /\ RunCatchesUp

LEMMA ConstantsTyped ==
    /\ IsFiniteSet(Uuids) /\ Ahead \in Int
    /\ MILLISECOND \in Nat \ {0} /\ PAGE_LIMIT \in Nat \ {0}
    /\ NoRun \notin Int
    /\ MaxClock \in Nat /\ MaxVersion \in Nat /\ MaxFaults \in Nat
BY EventGeneratorAssumption

-----------------------------------------------------------------------------
(* Times and positions. *)

LEMMA FormatTimeIsBelow ==
    ASSUME NEW t \in Nat
    PROVE  FormatTime(t) \in Nat /\ FormatTime(t) <= t
<1>1. ASSUME NEW m \in Nat, m > 0
      PROVE  (t \div m) * m \in Int /\ (t \div m) * m >= 0
    BY <1>1, SMT
<1>2. ASSUME NEW m \in Nat, m > 0
      PROVE  t - (t % m) = (t \div m) * m /\ t % m >= 0
    BY <1>2, Z3
<1>3. MILLISECOND \in Nat /\ MILLISECOND > 0
    BY ConstantsTyped
<1>4. (t \div MILLISECOND) * MILLISECOND \in Nat
    BY <1>1, <1>3
<1>5. (t \div MILLISECOND) * MILLISECOND <= t
    BY <1>2, <1>3
<1> QED BY <1>4, <1>5 DEF FormatTime

LEMMA SinceIsNat == TypeOK => Since(last_run) \in Nat
BY DEF TypeOK, Since

\* The results that FKK lists before u.
Earlier(u, S) == {v \in S : Before(v, u)}

LEMMA EarlierIsFinite ==
    ASSUME NEW S \in SUBSET Uuids, NEW u \in Uuids
    PROVE  /\ IsFiniteSet(Earlier(u, S))
           /\ Cardinality(Earlier(u, S)) \in Nat
<1>1. IsFiniteSet(Earlier(u, S))
    BY ConstantsTyped, FS_Subset, Earlier(u, S) \in SUBSET Uuids DEF Earlier
<1> QED BY <1>1, FS_CardinalityType

LEMMA PositionIsNat ==
    ASSUME NEW u \in Uuids, NEW t
    PROVE  Position(u, t) = Cardinality(Earlier(u, Matching(t))) /\ Position(u, t) \in Nat
<1>1. Matching(t) \in SUBSET Uuids
    BY DEF Matching
<1> QED BY <1>1, EarlierIsFinite DEF Position, Earlier

\* Among finitely many sets, one has none of the others strictly within it.
LEMMA SmallestSet ==
    ASSUME NEW F \in SUBSET (SUBSET Uuids), F # {}
    PROVE  \E X \in F : \A Y \in F : Y \subseteq X => Y = X
<1>1. FiniteSubsetsOf(Uuids) = SUBSET Uuids
    BY ConstantsTyped, FS_FiniteSubsetsOfFinite
<1>2. IsWellFoundedOn(StrictSubsetOrdering(Uuids), FiniteSubsetsOf(Uuids))
    BY FS_StrictSubsetOrderingWellFounded
<1>3. F \subseteq FiniteSubsetsOf(Uuids)
    BY <1>1
<1>4. PICK X \in F : \A Y \in F : ~(<<Y, X>> \in StrictSubsetOrdering(Uuids))
    BY <1>2, <1>3, WFMin
<1>5. \A Y \in F : Y \subseteq X => Y = X
    BY <1>4 DEF StrictSubsetOrdering
<1> QED BY <1>5

\* Positions are ordered as the results are.
LEMMA EarlierIsMonotone ==
    ASSUME NEW S \in SUBSET Uuids, NEW v \in S, NEW w \in Earlier(v, S)
    PROVE  /\ Earlier(w, S) \subseteq Earlier(v, S)
           /\ w \notin Earlier(w, S)
BY BeforeAssumption DEF Earlier

\* The last of the results before v is at the position before v's.
LEMMA LastEarlier ==
    ASSUME NEW S \in SUBSET Uuids, NEW v \in S, Earlier(v, S) # {}
    PROVE  \E w \in Earlier(v, S) :
               Cardinality(Earlier(v, S)) = Cardinality(Earlier(w, S)) + 1
<1> DEFINE P == Earlier(v, S)
           F == {P \ Earlier(w, S) : w \in P}
<1>1. P \in SUBSET Uuids /\ F \in SUBSET (SUBSET Uuids) /\ F # {}
    BY DEF Earlier
<1>2. PICK X \in F : \A Y \in F : Y \subseteq X => Y = X
    BY <1>1, SmallestSet
<1>3. PICK w \in P : X = P \ Earlier(w, S)
    BY <1>2
<1>4. w \in S /\ w \in Uuids
    BY DEF Earlier
<1>5. P = Earlier(w, S) \union {w}
  <2>1. SUFFICES ASSUME NEW x \in P, x # w PROVE Before(x, w)
      BY EarlierIsMonotone DEF Earlier
  <2>2. x \in S /\ x \in Uuids
      BY DEF Earlier
  <2>3. SUFFICES ASSUME Before(w, x) PROVE FALSE
      BY <1>4, <2>1, <2>2, BeforeAssumption
  <2>4. w \in Earlier(x, S)
      BY <1>4, <2>3 DEF Earlier
  <2>5. Earlier(w, S) \subseteq Earlier(x, S) /\ w \notin Earlier(w, S)
      BY <2>2, <2>4, EarlierIsMonotone
  <2>6. P \ Earlier(x, S) = X
      BY <1>2, <1>3, <2>5
  <2> QED BY <1>3, <2>4, <2>5, <2>6
<1>6. w \notin Earlier(w, S) /\ IsFiniteSet(Earlier(w, S))
    BY <1>4, EarlierIsMonotone, EarlierIsFinite
<1>7. Cardinality(P) = Cardinality(Earlier(w, S)) + 1
    BY <1>5, <1>6, FS_AddElement
<1> QED BY <1>7

\* Positions have no gaps.
LEMMA NoGaps ==
    ASSUME NEW S \in SUBSET Uuids, NEW u \in S, NEW k \in Nat,
           Cardinality(Earlier(u, S)) >= k
    PROVE  \E v \in S : Cardinality(Earlier(v, S)) = k
<1> DEFINE Far == {v \in S : Cardinality(Earlier(v, S)) >= k}
           F == {Earlier(v, S) : v \in Far}
<1>1. F \in SUBSET (SUBSET Uuids) /\ F # {}
    BY DEF Earlier
<1>2. PICK X \in F : \A Y \in F : Y \subseteq X => Y = X
    BY <1>1, SmallestSet
<1>3. PICK v \in Far : X = Earlier(v, S)
    BY <1>2
<1>4. Cardinality(Earlier(v, S)) \in Nat
    BY EarlierIsFinite
<1>5. SUFFICES ASSUME Cardinality(Earlier(v, S)) > k PROVE FALSE
    BY <1>3, <1>4
<1>6. Earlier(v, S) # {}
    BY <1>5, FS_EmptySet
<1>7. PICK w \in Earlier(v, S) :
          Cardinality(Earlier(v, S)) = Cardinality(Earlier(w, S)) + 1
    BY <1>6, LastEarlier
<1>8. w \in S /\ Cardinality(Earlier(w, S)) \in Nat
    BY EarlierIsFinite DEF Earlier
<1>9. w \in Far
    BY <1>5, <1>7, <1>8
<1>10. Earlier(w, S) \subseteq Earlier(v, S) /\ w \notin Earlier(w, S)
    BY EarlierIsMonotone
<1> QED BY <1>2, <1>3, <1>7, <1>9, <1>10

\* Nothing lies beyond an empty page.
LEMMA EmptyPageIsLast ==
    ASSUME NEW t, NEW offset \in Nat, Page(t, offset) = {},
           NEW u \in Matching(t)
    PROVE  Position(u, t) < offset
<1>1. Matching(t) \in SUBSET Uuids
    BY DEF Matching
<1>2. Position(u, t) \in Nat
    BY <1>1, PositionIsNat
<1>3. SUFFICES ASSUME Position(u, t) >= offset PROVE FALSE
    BY <1>2
<1>4. PICK v \in Matching(t) : Cardinality(Earlier(v, Matching(t))) = offset
    BY <1>1, <1>3, PositionIsNat, NoGaps
<1>5. Position(v, t) = offset
    BY <1>1, <1>4, PositionIsNat
<1>6. offset \in offset..(offset + PAGE_LIMIT - 1)
    BY ConstantsTyped
<1> QED BY <1>5, <1>6 DEF Page

\* Results that join push the others back.
LEMMA JoiningPushesBack ==
    ASSUME NEW T \in SUBSET Uuids, NEW S \in SUBSET T, NEW u \in Uuids
    PROVE  Cardinality(Earlier(u, S)) <= Cardinality(Earlier(u, T))
<1>1. IsFiniteSet(Earlier(u, T))
    BY EarlierIsFinite
<1>2. Earlier(u, S) \subseteq Earlier(u, T)
    BY DEF Earlier
<1> QED BY <1>1, <1>2, FS_Subset

-----------------------------------------------------------------------------
(* The invariant. *)

LEMMA InitTyped == Init => TypeOK
BY ConstantsTyped DEF Init, TypeOK

LEMMA NextTyped == TypeOK /\ [Next]_vars => TypeOK'
<1> SUFFICES ASSUME TypeOK, [Next]_vars PROVE TypeOK'
    OBVIOUS
<1> USE ConstantsTyped DEF TypeOK
<1>1. CASE Tick
    BY <1>1 DEF Tick, run
<1>2. ASSUME NEW u \in Uuids, Register(u) PROVE TypeOK'
    BY <1>2 DEF Register, run
<1>3. CASE StartRun
    BY <1>3 DEF StartRun, fkk, Since
<1>4. CASE Search
  <2>1. Page(since, page_offset) \subseteq Uuids
      BY DEF Page, Matching
  <2> QED BY <1>4, <2>1 DEF Search, fkk
<1>5. CASE Commit
    BY <1>5 DEF Commit, fkk, Reset
<1>6. ASSUME NEW u \in Uuids, Publish(u) PROVE TypeOK'
    BY <1>6 DEF Publish, Notify, fkk
<1>7. CASE Fail
    BY <1>7 DEF Fail, fkk, Reset
<1>8. CASE Crash
    BY <1>8 DEF Crash, fkk, Reset
<1>9. ASSUME NEW u \in Uuids, PublishStraggler(u) PROVE TypeOK'
    BY <1>9 DEF PublishStraggler, Notify, fkk, run
<1>10. CASE UNCHANGED vars
    BY <1>10 DEF vars, fkk, run
<1> QED
    BY <1>1, <1>2, <1>3, <1>4, <1>5, <1>6, <1>7, <1>8, <1>9, <1>10 DEF Next

\* The state is typed in every run of the generator.
THEOREM PollTypeCorrect == Spec => []TypeOK
<1> QED BY InitTyped, NextTyped, PTL DEF Spec

LEMMA InitCatchesUp == Init /\ NotBehind => PollInv
<1> SUFFICES ASSUME Init, NotBehind PROVE PollInv
    OBVIOUS
<1>1. TypeOK
    BY InitTyped
<1>2. FormatTime(0) <= 0 /\ FormatTime(0) \in Nat
    BY FormatTimeIsBelow
<1>3. Clocks
    BY DEF Clocks, Init, Since, NotBehind
<1>4. NoLostChange
    BY <1>2 DEF NoLostChange, Init, Since, Matching
<1>5. RunCatchesUp
    BY DEF RunCatchesUp, Init
<1> QED BY <1>1, <1>3, <1>4, <1>5 DEF PollInv

LEMMA NextClocks ==
    ASSUME PollInv, [Next]_vars, TypeOK'
    PROVE  Clocks'
<1> USE ConstantsTyped DEF PollInv, TypeOK, NotBehind, Clocks
<1>1. CASE Tick
    BY <1>1 DEF Tick, run, Since
<1>2. ASSUME NEW u \in Uuids, Register(u) PROVE Clocks'
    BY <1>2 DEF Register, run, Since
<1>3. CASE StartRun
    BY <1>3 DEF StartRun, fkk, Since
<1>4. CASE Search
    BY <1>4 DEF Search, fkk, Since
<1>5. CASE Commit
    BY <1>5 DEF Commit, fkk, Reset, Since
<1>6. ASSUME NEW u \in Uuids, Publish(u) PROVE Clocks'
    BY <1>6 DEF Publish, fkk, Since
<1>7. CASE Fail
    BY <1>7 DEF Fail, fkk, Reset, Since
<1>8. CASE Crash
    BY <1>8 DEF Crash, fkk, Reset, Since
<1>9. ASSUME NEW u \in Uuids, PublishStraggler(u) PROVE Clocks'
    BY <1>9 DEF PublishStraggler, fkk, run, Since
<1>10. CASE UNCHANGED vars
    BY <1>10 DEF vars, fkk, run, Since
<1> QED
    BY <1>1, <1>2, <1>3, <1>4, <1>5, <1>6, <1>7, <1>8, <1>9, <1>10 DEF Next

\* A registration made now is not before any time taken so far.
LEMMA RegisteredNow ==
    ASSUME PollInv, NEW u \in Uuids, Register(u), NEW t \in Nat, t <= clock
    PROVE  registered'[u] >= FormatTime(t)
<1>1. registered'[u] = clock + Ahead
    BY DEF Register, PollInv, TypeOK
<1> QED BY <1>1, FormatTimeIsBelow DEF PollInv, TypeOK, NotBehind

LEMMA NextLosesNothing ==
    ASSUME PollInv, [Next]_vars, TypeOK'
    PROVE  NoLostChange'
<1> SUFFICES ASSUME NEW u \in Uuids
             PROVE  \/ notified'[u] = version'[u]
                    \/ registered'[u] >= FormatTime(Since(last_run'))
    BY DEF NoLostChange, Matching
<1>0. \/ notified[u] = version[u]
      \/ registered[u] >= FormatTime(Since(last_run))
    BY DEF PollInv, NoLostChange, Matching
<1> USE DEF PollInv, TypeOK
<1>1. CASE Tick
    BY <1>0, <1>1 DEF Tick
<1>2. ASSUME NEW v \in Uuids, Register(v)
      PROVE  \/ notified'[u] = version'[u]
             \/ registered'[u] >= FormatTime(Since(last_run'))
  <2>1. CASE u = v
    <3>1. Since(last_run) \in Nat /\ Since(last_run) <= clock
        BY SinceIsNat DEF Clocks
    <3> QED BY <1>2, <2>1, <3>1, RegisteredNow DEF Register
  <2>2. CASE u # v
      BY <1>0, <1>2, <2>2 DEF Register
  <2> QED BY <2>1, <2>2
<1>3. CASE StartRun
    BY <1>0, <1>3 DEF StartRun, fkk
<1>4. CASE Search
    BY <1>0, <1>4 DEF Search, fkk
<1>5. CASE Commit
  <2>1. notified[u] = version[u] \/ registered[u] >= FormatTime(now)
      BY <1>5 DEF Commit, RunCatchesUp, InWindow, Matching
  <2>2. Since(now) = now
      BY ConstantsTyped DEF Since
  <2> QED BY <1>5, <2>1, <2>2 DEF Commit, fkk
<1>6. ASSUME NEW v \in Uuids, Publish(v)
      PROVE  \/ notified'[u] = version'[u]
             \/ registered'[u] >= FormatTime(Since(last_run'))
    BY <1>0, <1>6 DEF Publish, Notify, fkk
<1>7. CASE Fail
    BY <1>0, <1>7 DEF Fail, fkk
<1>8. CASE Crash
    BY <1>0, <1>8 DEF Crash, fkk
<1>9. ASSUME NEW v \in Uuids, PublishStraggler(v)
      PROVE  \/ notified'[u] = version'[u]
             \/ registered'[u] >= FormatTime(Since(last_run'))
    BY <1>0, <1>9 DEF PublishStraggler, Notify, fkk
<1>10. CASE UNCHANGED vars
    BY <1>0, <1>10 DEF vars, fkk
<1> QED
    BY <1>1, <1>2, <1>3, <1>4, <1>5, <1>6, <1>7, <1>8, <1>9, <1>10 DEF Next

LEMMA NextCatchesUp ==
    ASSUME PollInv, [Next]_vars, TypeOK'
    PROVE  RunCatchesUp'
<1> SUFFICES ASSUME phase' # "sleep", NEW u \in Uuids PROVE InWindow(u)'
    BY DEF RunCatchesUp
<1>0. phase # "sleep" => InWindow(u)
    BY DEF PollInv, RunCatchesUp
<1> USE DEF PollInv, TypeOK
<1>1. CASE Tick
    BY <1>0, <1>1 DEF Tick, run, InWindow, Matching, Position
<1>2. ASSUME NEW v \in Uuids, Register(v) PROVE InWindow(u)'
  <2>1. CASE u = v
    <3>1. registered'[u] >= FormatTime(now)
        BY <1>2, <2>1, RegisteredNow DEF Clocks
    <3> QED BY <1>2, <3>1 DEF Register, run, InWindow, Matching
  <2>2. CASE u # v
    <3>1. /\ registered'[u] = registered[u]
          /\ UNCHANGED <<phase, run, notified>> /\ version'[u] = version[u]
        BY <1>2, <2>2 DEF Register
    <3>2. \A w \in Uuids : registered'[w] >= registered[w]
        BY <1>2 DEF Register, Clocks
    <3>3. FormatTime(since) \in Nat
        BY FormatTimeIsBelow
    <3>4. Matching(since) \subseteq Matching(since)' /\ Matching(since)' \subseteq Uuids
        BY <3>1, <3>2, <3>3 DEF Matching, run
    <3>5. /\ Position(u, since) = Cardinality(Earlier(u, Matching(since)))
          /\ Position(u, since) \in Nat
        BY PositionIsNat
    <3>6. Position(u, since)' = Cardinality(Earlier(u, Matching(since)'))
        BY DEF Position, Earlier
    <3>7. Cardinality(Earlier(u, Matching(since)')) \in Nat
        BY <3>4, EarlierIsFinite
    <3>8. Position(u, since) <= Position(u, since)'
        BY <3>4, <3>5, <3>6, JoiningPushesBack
    <3>9. Position(u, since) >= page_offset => (Position(u, since) >= page_offset)'
        BY <3>1, <3>5, <3>6, <3>7, <3>8 DEF run
    <3> QED BY <1>0, <3>1, <3>4, <3>9 DEF InWindow, run, Matching
  <2> QED BY <2>1, <2>2
<1>3. CASE StartRun
  <2>1. since' = Since(last_run) /\ page_offset' = 0 /\ phase' = "search"
      BY <1>3 DEF StartRun
  <2>2. notified[u] = version[u] \/ registered[u] >= FormatTime(Since(last_run))
      BY DEF NoLostChange, Matching
  <2>3. UNCHANGED <<registered, version, notified>>
      BY <1>3 DEF StartRun, fkk
  <2>4. Position(u, since)' \in Nat
    <3>1. (Earlier(u, Matching(since)))' \subseteq Uuids
        BY DEF Earlier, Matching
    <3>2. IsFiniteSet((Earlier(u, Matching(since)))')
        BY <3>1, ConstantsTyped, FS_Subset
    <3> QED BY <3>2, FS_CardinalityType DEF Position, Earlier
  <2> QED BY <2>1, <2>2, <2>3, <2>4 DEF InWindow, Matching
<1>4. CASE Search
  <2>1. UNCHANGED <<fkk, since, now, notified>> /\ phase = "search"
      BY <1>4 DEF Search
  <2>2. (u \in Matching(now))' <=> u \in Matching(now)
      BY <2>1 DEF Matching, fkk
  <2>3. CASE Page(since, page_offset) = {}
    <3>1. ~(u \in Matching(since) /\ Position(u, since) >= page_offset)
        BY <2>3, EmptyPageIsLast, PositionIsNat
    <3> QED BY <1>0, <1>4, <2>1, <2>2, <2>3, <3>1 DEF Search, InWindow, fkk
  <2>4. CASE Page(since, page_offset) # {}
    <3>1. /\ phase' = "search" /\ page_offset' = page_offset + PAGE_LIMIT
          /\ changed' = changed \union Page(since, page_offset)
        BY <1>4, <2>4 DEF Search
    <3>2. (u \in Matching(since))' <=> u \in Matching(since)
        BY <2>1 DEF Matching, fkk
    <3>3. Position(u, since)' = Position(u, since)
        BY <2>1 DEF Position, Matching, fkk
    <3>4. ASSUME u \in Matching(since), Position(u, since) >= page_offset
          PROVE  u \in changed' \/ Position(u, since) >= page_offset'
        BY <3>1, <3>4, ConstantsTyped, PositionIsNat DEF Page
    <3> QED BY <1>0, <2>1, <2>2, <3>1, <3>2, <3>3, <3>4 DEF InWindow, fkk
  <2> QED BY <2>3, <2>4
<1>5. CASE Commit
    BY <1>5 DEF Commit
<1>6. ASSUME NEW v \in Uuids, Publish(v) PROVE InWindow(u)'
    BY <1>0, <1>6 DEF Publish, Notify, fkk, InWindow, Matching
<1>7. CASE Fail
    BY <1>7 DEF Fail
<1>8. CASE Crash
    BY <1>8 DEF Crash
<1>9. ASSUME NEW v \in Uuids, PublishStraggler(v) PROVE InWindow(u)'
    BY <1>0, <1>9 DEF PublishStraggler, Notify, fkk, run, InWindow, Matching, Position
<1>10. CASE UNCHANGED vars
    BY <1>0, <1>10 DEF vars, fkk, run, InWindow, Matching, Position
<1> QED
    BY <1>1, <1>2, <1>3, <1>4, <1>5, <1>6, <1>7, <1>8, <1>9, <1>10 DEF Next

LEMMA NextPolls == PollInv /\ [Next]_vars => PollInv'
<1> SUFFICES ASSUME PollInv, [Next]_vars PROVE PollInv'
    OBVIOUS
<1>1. TypeOK'
    BY NextTyped DEF PollInv
<1>2. Clocks' /\ NoLostChange' /\ RunCatchesUp'
    BY <1>1, NextClocks, NextLosesNothing, NextCatchesUp
<1>3. NotBehind'
    BY DEF PollInv, NotBehind
<1> QED BY <1>1, <1>2, <1>3 DEF PollInv

\* With a clock of FKK's that is not behind ours, every registration nobody has
\* been told of is found by the next run.
THEOREM NoChangeIsLost == Spec /\ NotBehind => []NoLostChange
<1>1. PollInv => NoLostChange
    BY DEF PollInv
<1> QED BY <1>1, InitCatchesUp, NextPolls, PTL DEF Spec

\* And the paging of a run skips none of them, whatever changes meanwhile.
THEOREM RunsCatchUp == Spec /\ NotBehind => []RunCatchesUp
<1>1. PollInv => RunCatchesUp
    BY DEF PollInv
<1> QED BY <1>1, InitCatchesUp, NextPolls, PTL DEF Spec
====
