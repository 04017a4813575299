-------------------------- MODULE ConversionProofs ---------------------------
(***************************************************************************)
(* What the conversion of a Klasse yields, for every Klasse and calendar:  *)
(* the class validities say at every instant what the Klasse says, it      *)
(* fails exactly on gaps and double parents, and what is written to MO     *)
(* does not overlap.                                                       *)
(*                                                                         *)
(* The argument is about neighbouring timestamps: an instant within the    *)
(* span of a Klasse lies between exactly two of them, and no element       *)
(* begins or ends between the two.                                         *)
(***************************************************************************)
EXTENDS ClassValidities, FiniteSetTheorems, WellFoundedInduction, TLAPS

(* Neighbouring timestamps. *)

\* A nonempty set of naturals has a least element.
LEMMA Smallest ==
    ASSUME NEW S \in SUBSET Nat, S # {}
    PROVE  \E x \in S : \A y \in S : x <= y
<1> DEFINE R == OpToRel(<, Nat)
<1>1. IsWellFoundedOn(R, Nat)
    BY NatLessThanWellFounded
<1>2. PICK x \in S : \A y \in S : ~(<<y, x>> \in R)
    BY <1>1, WFMin
<1>3. \A y \in S : y < x => <<y, x>> \in R
    BY DEF OpToRel
<1>4. \A y \in S : ~(y < x)
    BY <1>2, <1>3, Zenon
<1> QED BY <1>4

LEMMA LastBefore ==
    ASSUME NEW T \in SUBSET Int, NEW t \in Int, NEW a \in T, a <= t
    PROVE  \E x \in T : x <= t /\ \A y \in T : y <= t => y <= x
<1> DEFINE S == {n \in Nat : t - n \in T}
<1>1. t - a \in S
    OBVIOUS
<1>2. PICK n \in S : \A m \in S : n <= m
    BY <1>1, Smallest
<1>3. ASSUME NEW y \in T, y <= t PROVE y <= t - n
  <2>1. t - y \in S
      BY <1>3
  <2>2. n <= t - y
      BY <1>2, <2>1
  <2> QED BY <2>2
<1> QED BY <1>3

LEMMA FirstAfter ==
    ASSUME NEW T \in SUBSET Int, NEW t \in Int, NEW a \in T, t < a
    PROVE  \E x \in T : t < x /\ \A y \in T : t < y => x <= y
<1> DEFINE S == {n \in Nat : t + 1 + n \in T}
<1>1. a - (t + 1) \in S
    OBVIOUS
<1>2. PICK n \in S : \A m \in S : n <= m
    BY <1>1, Smallest
<1>3. ASSUME NEW y \in T, t < y PROVE t + 1 + n <= y
  <2>1. y - (t + 1) \in S
      BY <1>3
  <2>2. n <= y - (t + 1)
      BY <1>2, <2>1
  <2> QED BY <2>2
<1> QED BY <1>3

Around(p, t) == p[1] <= t /\ t < p[2]

\* An instant within the span lies between two neighbours.
LEMMA PairAround ==
    ASSUME NEW T \in SUBSET Int, NEW t \in Int,
           \E x \in T : x <= t, \E x \in T : t < x
    PROVE  \E p \in Pairwise(T) : Around(p, t)
<1>1. PICK a \in T : a <= t /\ \A y \in T : y <= t => y <= a
    BY LastBefore
<1>2. PICK b \in T : t < b /\ \A y \in T : t < y => b <= y
    BY FirstAfter
<1>3. <<a, b>> \in Pairwise(T)
    BY <1>1, <1>2 DEF Pairwise
<1>4. Around(<<a, b>>, t)
    BY <1>1, <1>2 DEF Around
<1> QED BY <1>3, <1>4

\* Intervals between neighbours do not overlap.
LEMMA Neighbours ==
    ASSUME NEW T \in SUBSET Int, NEW p \in Pairwise(T)
    PROVE  /\ p[1] \in T /\ p[2] \in T /\ p[1] < p[2] /\ p = <<p[1], p[2]>>
           /\ \A t \in T : t <= p[1] \/ p[2] <= t
BY DEF Pairwise

LEMMA PairsApart ==
    ASSUME NEW T \in SUBSET Int, NEW p \in Pairwise(T), NEW q \in Pairwise(T)
    PROVE  p = q \/ p[2] <= q[1] \/ q[2] <= p[1]
<1>1. /\ p[1] \in T /\ p[2] \in T /\ p[1] < p[2] /\ p = <<p[1], p[2]>>
      /\ \A t \in T : t <= p[1] \/ p[2] <= t
    BY Neighbours
<1>2. /\ q[1] \in T /\ q[2] \in T /\ q[1] < q[2] /\ q = <<q[1], q[2]>>
      /\ \A t \in T : t <= q[1] \/ q[2] <= t
    BY Neighbours
<1>3. p[2] <= q[1] \/ q[2] <= p[1] \/ (p[1] = q[1] /\ p[2] = q[2])
    BY <1>1, <1>2
<1> QED BY <1>1, <1>2, <1>3

LEMMA OnePair ==
    ASSUME NEW T \in SUBSET Int, NEW p \in Pairwise(T), NEW q \in Pairwise(T),
           NEW t \in Int, Around(p, t), Around(q, t)
    PROVE  p = q
BY PairsApart, Neighbours DEF Around

\* Between neighbours nothing begins or ends.
LEMMA FilteredInForce ==
    ASSUME NEW T \in SUBSET Int, NEW p \in Pairwise(T), NEW t \in Int, Around(p, t),
           NEW objects, \A o \in objects : o.fra \in T /\ o.til \in T
    PROVE  FilterVirkning(objects, p) = InForce(objects, t)
<1>1. ASSUME NEW o \in objects
      PROVE  o.fra < p[2] /\ o.til > p[1] <=> o.fra <= t /\ t < o.til
    BY <1>1, Neighbours DEF Around
<1> QED BY <1>1 DEF FilterVirkning, InForce

-----------------------------------------------------------------------------
(* The times of a Klasse. *)

LEMMA TimesOfKlasse ==
    ASSUME NEW k \in Klasser
    PROVE  /\ Timestamps(k) \in SUBSET (NEGATIVE_INFINITY..POSITIVE_INFINITY)
           /\ Timestamps(k) \in SUBSET Int
           /\ \A o \in k.attribut_egenskab : o.fra \in Timestamps(k) /\ o.til \in Timestamps(k)
           /\ \A o \in k.tilstand_publiceret : o.fra \in Timestamps(k) /\ o.til \in Timestamps(k)
           /\ \A o \in k.relation_overordnet : o.fra \in Timestamps(k) /\ o.til \in Timestamps(k)
<1>1. \A s \in Virkninger(k) : /\ s[1] \in NEGATIVE_INFINITY..POSITIVE_INFINITY
                               /\ s[2] \in NEGATIVE_INFINITY..POSITIVE_INFINITY
    BY KlasseAssumption
<1>2. /\ \A o \in k.attribut_egenskab : <<o.fra, o.til>> \in Virkninger(k)
      /\ \A o \in k.tilstand_publiceret : <<o.fra, o.til>> \in Virkninger(k)
      /\ \A o \in k.relation_overordnet : <<o.fra, o.til>> \in Virkninger(k)
    BY DEF Virkninger, Spans
<1>3. \A a, b : <<a, b>> \in Virkninger(k) => a \in Timestamps(k) /\ b \in Timestamps(k)
    BY DEF Timestamps
<1>4. Timestamps(k) \in SUBSET (NEGATIVE_INFINITY..POSITIVE_INFINITY)
    BY <1>1 DEF Timestamps
<1>5. Timestamps(k) \in SUBSET Int
    BY <1>4, CalendarAssumption
<1> QED BY <1>2, <1>3, <1>4, <1>5

\* What the Klasse says at t is what is filtered for the interval around t.
LEMMA KlasseBetween ==
    ASSUME NEW k \in Klasser, NEW t \in Int,
           NEW p \in Pairwise(Timestamps(k)), Around(p, t)
    PROVE  /\ FilterVirkning(k.attribut_egenskab, p) = InForce(k.attribut_egenskab, t)
           /\ FilterVirkning(k.tilstand_publiceret, p) = InForce(k.tilstand_publiceret, t)
           /\ FilterVirkning(k.relation_overordnet, p) = InForce(k.relation_overordnet, t)
BY TimesOfKlasse, FilteredInForce

\* Where something is in force, there are neighbours on both sides.
LEMMA InForceInSpan ==
    ASSUME NEW k \in Klasser, NEW t \in Int, InForce(k.attribut_egenskab, t) # {}
    PROVE  \E p \in Pairwise(Timestamps(k)) : Around(p, t)
<1>1. PICK o \in k.attribut_egenskab : o.fra <= t /\ t < o.til
    BY DEF InForce
<1> QED BY <1>1, TimesOfKlasse, PairAround

LEMMA SingleValue ==
    ASSUME NEW S, One(S)
    PROVE  \E x \in S : S = {x} /\ TheValue(S) = x.value
BY DEF One, TheValue

LEMMA PublishedThen ==
    ASSUME NEW k \in Klasser, NEW t \in Int,
           NEW p \in Pairwise(Timestamps(k)), Around(p, t),
           One(InForce(k.tilstand_publiceret, t))
    PROVE  ErPubliceret(k, p) <=> PublishedAt(k, t)
<1>1. PICK x \in InForce(k.tilstand_publiceret, t) :
            /\ InForce(k.tilstand_publiceret, t) = {x}
            /\ TheValue(InForce(k.tilstand_publiceret, t)) = x.value
    BY SingleValue
<1>2. ErPubliceret(k, p) = x.value
    BY <1>1, KlasseBetween DEF ErPubliceret
<1>3. x.value \in BOOLEAN
    BY KlasseAssumption DEF InForce
<1>4. PublishedAt(k, t) <=> x.value
    BY <1>1 DEF PublishedAt
<1> QED BY <1>2, <1>3, <1>4

LEMMA NoneOrOne ==
    ASSUME NEW k \in Klasser, NEW t,
           Cardinality(InForce(k.relation_overordnet, t)) <= 1
    PROVE  \/ InForce(k.relation_overordnet, t) = {}
           \/ One(InForce(k.relation_overordnet, t))
<1> DEFINE S == InForce(k.relation_overordnet, t)
<1>1. IsFiniteSet(S)
    BY KlasseAssumption, FS_Subset DEF InForce
<1>2. Cardinality(S) \in Nat
    BY <1>1, FS_CardinalityType
<1>3. Cardinality(S) = 0 \/ Cardinality(S) = 1
    BY <1>2
<1>4. S = {} \/ \E x : S = {x}
    BY <1>1, <1>3, FS_EmptySet, FS_Singleton
<1> QED BY <1>4 DEF One

-----------------------------------------------------------------------------
(* The class validities. *)

LEMMA CoveredBy ==
    ASSUME NEW k \in Klasser, NEW t \in Int,
           NEW v \in ClassValidities(k), Covers(v, t)
    PROVE  \E p \in Pairwise(Timestamps(k)) :
               /\ Around(p, t) /\ v = ClassValidity(k, p)
               /\ ErPubliceret(k, p) /\ One(FilterVirkning(k.attribut_egenskab, p))
<1>1. PICK p \in Pairwise(Timestamps(k)) :
            /\ v = ClassValidity(k, p)
            /\ ErPubliceret(k, p) /\ One(FilterVirkning(k.attribut_egenskab, p))
    BY DEF ClassValidities
<1>2. v.start = p[1] /\ v.end = p[2]
    BY <1>1 DEF ClassValidity
<1>3. Around(p, t)
    BY <1>2 DEF Covers, Around
<1> QED BY <1>1, <1>3

\* Within an interval: at most the one class validity made for it is shown.
LEMMA ShownBetween ==
    ASSUME NEW k \in Klasser, NEW t \in Int,
           NEW p \in Pairwise(Timestamps(k)), Around(p, t)
    PROVE  ShownAt(ClassValidities(k), t) =
               IF ErPubliceret(k, p) /\ One(FilterVirkning(k.attribut_egenskab, p))
               THEN {Says(ClassValidity(k, p))} ELSE {}
<1> DEFINE made == ErPubliceret(k, p) /\ One(FilterVirkning(k.attribut_egenskab, p))
           shown == {v \in ClassValidities(k) : Covers(v, t)}
<1>1. ASSUME NEW v \in shown PROVE made /\ v = ClassValidity(k, p)
    BY CoveredBy, OnePair, TimesOfKlasse
<1>2. ASSUME made PROVE ClassValidity(k, p) \in shown
  <2>1. ClassValidity(k, p) \in ClassValidities(k)
      BY <1>2 DEF ClassValidities
  <2>2. Covers(ClassValidity(k, p), t)
      BY DEF Covers, ClassValidity, Around
  <2> QED BY <2>1, <2>2
<1>3. CASE made
  <2>1. shown = {ClassValidity(k, p)}
      BY <1>1, <1>2, <1>3
  <2> QED BY <1>3, <2>1 DEF ShownAt
<1>4. CASE ~made
  <2>1. shown = {}
      BY <1>1, <1>4
  <2> QED BY <1>4, <2>1 DEF ShownAt
<1> QED BY <1>3, <1>4

\* The Klasse says one thing where it is published and has one set of attributes.
LEMMA SaidBetween ==
    ASSUME NEW k \in Klasser, NEW t \in Int, NEW p \in Pairwise(Timestamps(k)),
           Around(p, t), PublishedAt(k, t), One(InForce(k.attribut_egenskab, t)),
           Cardinality(InForce(k.relation_overordnet, t)) <= 1
    PROVE  KlasseAt(k, t) = {Says(ClassValidity(k, p))}
<1> DEFINE E == InForce(k.attribut_egenskab, t)
           O == InForce(k.relation_overordnet, t)
           parent == IF O = {} THEN NoParent ELSE TheValue(O)
<1>1. PICK e \in E : E = {e} /\ TheValue(E) = e.value
    BY SingleValue
<1>2. (IF O = {} THEN {NoParent} ELSE {r.value : r \in O}) = {parent}
  <2>1. CASE O = {}
      BY <2>1
  <2>2. CASE One(O)
    <3>1. PICK r \in O : O = {r} /\ TheValue(O) = r.value
        BY <2>2, SingleValue
    <3> QED BY <3>1
  <2> QED BY <2>1, <2>2, NoneOrOne
<1>3. Says(ClassValidity(k, p)) = <<e.value, parent>>
    BY <1>1, KlasseBetween DEF Says, ClassValidity
<1>4. KlasseAt(k, t) = {<<o.value, x>> : o \in E, x \in {parent}}
    BY <1>2 DEF KlasseAt
<1>5. KlasseAt(k, t) = {<<e.value, parent>>}
    BY <1>1, <1>4
<1> QED BY <1>3, <1>5

LEMMA Faithful ==
    ASSUME NEW k \in Klasser, Converts(k), NEW t \in Instants
    PROVE  ShownAt(ClassValidities(k), t) = KlasseAt(k, t)
<1>0. t \in Int
    BY CalendarAssumption DEF Instants
<1>1. ASSUME NEW p \in Pairwise(Timestamps(k)), Around(p, t)
      PROVE  ShownAt(ClassValidities(k), t) = KlasseAt(k, t)
  <2>1. One(InForce(k.tilstand_publiceret, t))
      BY <1>0, <1>1, KlasseBetween DEF Converts
  <2>2. ErPubliceret(k, p) <=> PublishedAt(k, t)
      BY <1>0, <1>1, <2>1, PublishedThen
  <2>3. CASE PublishedAt(k, t) /\ One(InForce(k.attribut_egenskab, t))
    <3>1. Cardinality(InForce(k.relation_overordnet, t)) <= 1
        BY <1>0, <1>1, <2>2, <2>3, KlasseBetween DEF Converts
    <3> QED BY <1>0, <1>1, <2>2, <2>3, <3>1, SaidBetween, ShownBetween, KlasseBetween
  <2>4. CASE ~PublishedAt(k, t) \/ ~One(InForce(k.attribut_egenskab, t))
    <3>1. KlasseAt(k, t) = {}
        BY <2>4 DEF KlasseAt
    <3> QED BY <1>0, <1>1, <2>2, <2>4, <3>1, ShownBetween, KlasseBetween
  <2> QED BY <2>3, <2>4
<1>2. ASSUME ~\E p \in Pairwise(Timestamps(k)) : Around(p, t)
      PROVE  ShownAt(ClassValidities(k), t) = KlasseAt(k, t)
  <2>1. ShownAt(ClassValidities(k), t) = {}
      BY <1>0, <1>2, CoveredBy DEF ShownAt
  <2>2. InForce(k.attribut_egenskab, t) = {}
      BY <1>0, <1>2, InForceInSpan
  <2>3. KlasseAt(k, t) = {}
      BY <2>2 DEF KlasseAt, One
  <2> QED BY <2>1, <2>3
<1> QED BY <1>1, <1>2

-----------------------------------------------------------------------------
(* When the conversion fails. *)

LEMMA FailsOnAmbiguity ==
    ASSUME NEW k \in Klasser
    PROVE  Converts(k) <=> ~\E t \in Instants : InSpan(k, t) /\ Ambiguous(k, t)
<1>1. ASSUME Converts(k), NEW t \in Instants, InSpan(k, t)
      PROVE  ~Ambiguous(k, t)
  <2>1. t \in Int
      BY CalendarAssumption DEF Instants
  <2>2. PICK p \in Pairwise(Timestamps(k)) : Around(p, t)
      BY <1>1, <2>1, TimesOfKlasse, PairAround DEF InSpan
  <2>3. One(InForce(k.tilstand_publiceret, t))
      BY <1>1, <2>1, <2>2, KlasseBetween DEF Converts
  <2>4. ErPubliceret(k, p) <=> PublishedAt(k, t)
      BY <2>1, <2>2, <2>3, PublishedThen
  <2>5. ASSUME PublishedAt(k, t), One(InForce(k.attribut_egenskab, t))
        PROVE  Cardinality(InForce(k.relation_overordnet, t)) <= 1
      BY <1>1, <2>1, <2>2, <2>4, <2>5, KlasseBetween DEF Converts
  <2>6. Cardinality(InForce(k.relation_overordnet, t)) \in Nat
      BY KlasseAssumption, FS_Subset, FS_CardinalityType DEF InForce
  <2> QED BY <2>3, <2>5, <2>6 DEF Ambiguous
<1>2. ASSUME \A t \in Instants : InSpan(k, t) => ~Ambiguous(k, t),
             NEW p \in Pairwise(Timestamps(k))
      PROVE  /\ One(FilterVirkning(k.tilstand_publiceret, p))
             /\ ErPubliceret(k, p) /\ One(FilterVirkning(k.attribut_egenskab, p))
                => Cardinality(FilterVirkning(k.relation_overordnet, p)) <= 1
  <2> DEFINE t == p[1]
  <2>1. /\ p[1] \in Timestamps(k) /\ p[2] \in Timestamps(k) /\ p[1] < p[2]
      BY TimesOfKlasse, Neighbours
  <2>2. t \in Instants /\ t \in Int /\ Around(p, t)
      BY <2>1, TimesOfKlasse, CalendarAssumption DEF Instants, Around
  <2>3. InSpan(k, t)
      BY <2>1, <2>2 DEF InSpan
  <2>4. ~Ambiguous(k, t)
      BY <1>2, <2>2, <2>3
  <2>5. One(InForce(k.tilstand_publiceret, t))
      BY <2>4 DEF Ambiguous
  <2>6. ErPubliceret(k, p) <=> PublishedAt(k, t)
      BY <2>2, <2>5, PublishedThen
  <2>7. Cardinality(InForce(k.relation_overordnet, t)) \in Nat
      BY KlasseAssumption, FS_Subset, FS_CardinalityType DEF InForce
  <2>8. PublishedAt(k, t) /\ One(InForce(k.attribut_egenskab, t))
        => Cardinality(InForce(k.relation_overordnet, t)) <= 1
      BY <2>4, <2>7 DEF Ambiguous
  <2> QED BY <2>2, <2>5, <2>6, <2>8, KlasseBetween
<1> QED BY <1>1, <1>2 DEF Converts

-----------------------------------------------------------------------------
(* Truncation to dates. *)

LEMMA CalendarHas ==
    /\ Instants \subseteq Calendar /\ Calendar \subseteq Int
    /\ \A t \in Calendar : Offset(t) \in Int /\ t + Offset(t) \in Int /\ DayOf(t) \in Int
<1>1. Instants \subseteq Calendar /\ Calendar \subseteq Int
    BY CalendarAssumption DEF Instants, Calendar
<1>2. ASSUME NEW t \in Calendar
      PROVE  Offset(t) \in Int /\ t + Offset(t) \in Int
    BY <1>1, <1>2, CalendarAssumption
<1>3. ASSUME NEW t \in Calendar
      PROVE  DayOf(t) \in Int
    BY <1>2, <1>3, CalendarAssumption DEF DayOf
<1> QED BY <1>1, <1>2, <1>3

LEMMA Division ==
    ASSUME NEW a \in Int
    PROVE  /\ a \div DAY \in Int /\ (a \div DAY) * DAY \in Int
           /\ (a \div DAY) * DAY <= a /\ a < (a \div DAY) * DAY + DAY
BY CalendarAssumption

LEMMA Multiple ==
    ASSUME NEW n \in Int
    PROVE  (n * DAY) \div DAY = n
<1> DEFINE m == (n * DAY) \div DAY
<1>1. n * DAY \in Int /\ DAY \in Int /\ DAY > 0
    BY CalendarAssumption
<1>2. m \in Int /\ m * DAY <= n * DAY /\ n * DAY < m * DAY + DAY
    BY <1>1, Division
<1>3. n * DAY < (m + 1) * DAY
    BY <1>1, <1>2
<1>4. m <= n /\ n < m + 1
    BY <1>1, <1>2, <1>3
<1> QED BY <1>2, <1>4

LEMMA DivisionMonotone ==
    ASSUME NEW a \in Int, NEW b \in Int, a <= b
    PROVE  (a \div DAY) * DAY <= (b \div DAY) * DAY
<1> DEFINE m == a \div DAY
           n == b \div DAY
<1>1. /\ m \in Int /\ n \in Int /\ m * DAY <= a /\ b < n * DAY + DAY
    BY Division
<1>2. m * DAY < (n + 1) * DAY
    BY <1>1, CalendarAssumption
<1>3. m < n + 1
    BY <1>1, <1>2, CalendarAssumption
<1> QED BY <1>1, <1>3, CalendarAssumption

LEMMA TruncationMonotone ==
    ASSUME NEW k \in Klasser, Steady(k),
           NEW t \in Timestamps(k) \ Infinities, NEW u \in Timestamps(k) \ Infinities,
           t <= u
    PROVE  TruncateTime(t) <= TruncateTime(u)
<1>1. /\ t \in Instants /\ u \in Instants
      /\ t \in Int /\ u \in Int /\ Offset(t) \in Int /\ Offset(u) \in Int
    BY TimesOfKlasse, CalendarAssumption, CalendarHas DEF Instants, Infinities
<1>2. /\ TruncateTime(t) = ((t + Offset(t)) \div DAY) * DAY - Offset(t)
      /\ TruncateTime(u) = ((u + Offset(u)) \div DAY) * DAY - Offset(u)
    BY DEF TruncateTime
<1>3. t + Offset(t) \in Int /\ u + Offset(u) \in Int
    BY <1>1
<1>4. TruncateTime(t) \in Int /\ TruncateTime(u) \in Int /\ TruncateTime(t) <= t
    BY <1>1, <1>2, <1>3, Division
<1>5. CASE t < TruncateTime(u)
    BY <1>1, <1>4, <1>5
<1>6. CASE TruncateTime(u) <= t
  <2>1. Offset(t) = Offset(u)
      BY <1>1, <1>4, <1>6 DEF Steady
  <2>2. ((t + Offset(t)) \div DAY) * DAY <= ((u + Offset(u)) \div DAY) * DAY
      BY <1>1, <1>3, <2>1, DivisionMonotone
  <2>3. /\ ((t + Offset(t)) \div DAY) * DAY \in Int
        /\ ((u + Offset(u)) \div DAY) * DAY \in Int
      BY <1>3, Division
  <2> QED BY <1>1, <1>2, <2>1, <2>2, <2>3
<1> QED BY <1>1, <1>4, <1>5, <1>6

LEMMA DatesApart ==
    ASSUME NEW k \in Klasser, Steady(k), NEW v \in Desired(k), NEW w \in Desired(k)
    PROVE  v = w \/ v.end <= w.start \/ w.end <= v.start
<1>1. ASSUME NEW x \in Desired(k)
      PROVE  \E p \in Pairwise(Timestamps(k)) :
                 /\ x = AsDates(ClassValidity(k, p))
                 /\ x.start = TruncateTime(p[1]) /\ x.end = TruncateTime(p[2])
  <2>1. PICK p \in Pairwise(Timestamps(k)) : x = AsDates(ClassValidity(k, p))
      BY <1>1 DEF Desired, ClassValidities
  <2> QED BY <2>1 DEF AsDates, ClassValidity
<1>2. PICK p \in Pairwise(Timestamps(k)) :
            /\ v = AsDates(ClassValidity(k, p))
            /\ v.start = TruncateTime(p[1]) /\ v.end = TruncateTime(p[2])
    BY <1>1
<1>3. PICK q \in Pairwise(Timestamps(k)) :
            /\ w = AsDates(ClassValidity(k, q))
            /\ w.start = TruncateTime(q[1]) /\ w.end = TruncateTime(q[2])
    BY <1>1
<1>4. ASSUME NEW a \in Pairwise(Timestamps(k)), NEW b \in Pairwise(Timestamps(k)),
             a[2] <= b[1]
      PROVE  TruncateTime(a[2]) <= TruncateTime(b[1])
  <2>1. /\ a[1] \in Timestamps(k) /\ a[2] \in Timestamps(k) /\ a[1] < a[2]
        /\ b[1] \in Timestamps(k) /\ b[2] \in Timestamps(k) /\ b[1] < b[2]
      BY TimesOfKlasse, Neighbours
  <2>2. a[2] \notin Infinities /\ b[1] \notin Infinities
      BY <1>4, <2>1, TimesOfKlasse, CalendarAssumption DEF Infinities
  <2> QED BY <1>4, <2>1, <2>2, TruncationMonotone
<1>5. p = q \/ p[2] <= q[1] \/ q[2] <= p[1]
    BY TimesOfKlasse, PairsApart
<1> QED BY <1>2, <1>3, <1>4, <1>5

-----------------------------------------------------------------------------
(* The dates of MO. *)

\* A time of a Klasse, truncated.
LEMMA Truncated ==
    ASSUME NEW t \in Instants \ Infinities
    PROVE  /\ TruncateTime(t) \in Int
           /\ TruncateTime(t) + Offset(t) = ((t + Offset(t)) \div DAY) * DAY
           /\ TruncateTime(t) <= t /\ t < TruncateTime(t) + DAY
           /\ TruncateTime(t) \in Calendar
<1>1. t \in Calendar /\ t \in Int /\ Offset(t) \in Int /\ t + Offset(t) \in Int
    BY CalendarHas
<1> DEFINE midnight == ((t + Offset(t)) \div DAY) * DAY
<1>2. /\ midnight \in Int
      /\ midnight <= t + Offset(t) /\ t + Offset(t) < midnight + DAY
    BY <1>1, Division
<1>3. TruncateTime(t) = midnight - Offset(t)
    BY DEF TruncateTime
<1>4. /\ TruncateTime(t) \in Int /\ TruncateTime(t) + Offset(t) = midnight
      /\ TruncateTime(t) <= t /\ t < TruncateTime(t) + DAY
    <2> HIDE DEF midnight
    <2> QED BY <1>1, <1>2, <1>3, CalendarAssumption
<1>5. TruncateTime(t) \in Calendar
    BY <1>4, CalendarAssumption DEF Calendar, Instants
<1> QED BY <1>4, <1>5

\* If the offset is the same at both, it is a midnight, and its date is that of t.
LEMMA TruncatedIsMidnight ==
    ASSUME NEW t \in Instants \ Infinities, Offset(TruncateTime(t)) = Offset(t)
    PROVE  /\ DayOf(TruncateTime(t)) = DayOf(t)
           /\ AtMidnight(TruncateTime(t))
<1> DEFINE n == (t + Offset(t)) \div DAY
<1>1. n \in Int /\ TruncateTime(t) + Offset(TruncateTime(t)) = n * DAY
    BY Truncated, CalendarHas, Division
<1>2. (n * DAY) \div DAY = n
    BY <1>1, Multiple
<1> QED BY <1>1, <1>2 DEF DayOf, AtMidnight

\* The dates before a midnight are earlier ones, and begin it.
LEMMA BeforeMidnight ==
    ASSUME NEW d \in Calendar, AtMidnight(d),
           NEW x \in Calendar, x < d
    PROVE  DayOf(x) < DayOf(d)
<1>1. d \in Int /\ x \in Int /\ d - 1 \in Calendar
    BY CalendarAssumption DEF Calendar
<1>2. DayOf(d - 1) < DayOf(d)
    BY <1>1, DatesAssumption DEF AtMidnight
<1>3. DayOf(x) <= DayOf(d - 1)
    BY <1>1, DatesAssumption
<1> QED BY <1>1, <1>2, <1>3, CalendarHas

\* The instant at which the date of t begins, as StartOfDate() looks for it.
Begins(s, t) ==
    /\ s \in (t - 2 * DAY)..t
    /\ DayOf(s) = DayOf(t) /\ \A x \in (s - DAY)..(s - 1) : DayOf(x) < DayOf(t)

\* There are instants to look at.
Dated == (NEGATIVE_INFINITY - DAY)..POSITIVE_INFINITY

LEMMA DatedHas ==
    ASSUME NEW t \in Dated
    PROVE  /\ t \in Calendar /\ t \in Int /\ DAY \in Int /\ DAY > 0
           /\ \A s \in (t - 2 * DAY)..t : s \in Calendar /\ s \in Int
           /\ \A s \in (t - 2 * DAY)..t : \A x \in (s - DAY)..(s - 1) :
                  x \in Calendar /\ x \in Int
  BY CalendarAssumption DEF Dated, Calendar

LEMMA OneBeginning ==
    ASSUME NEW t \in Dated, NEW r, Begins(r, t), NEW s, Begins(s, t)
    PROVE  r = s
<1>1. /\ r \in Calendar /\ s \in Calendar /\ r \in Int /\ s \in Int
      /\ DAY \in Int /\ DAY > 0
    BY DatedHas DEF Begins
<1>2. ASSUME NEW a, NEW b, Begins(a, t), Begins(b, t), a \in Int, b \in Int, a < b
      PROVE  FALSE
  <2>1. b - 1 \in (b - DAY)..(b - 1)
      BY <1>1, <1>2
  <2>2. a \in Calendar /\ b - 1 \in Calendar
      BY <1>2, <2>1, DatedHas DEF Begins
  <2>3. DayOf(b - 1) < DayOf(t) /\ DayOf(a) = DayOf(t)
      BY <1>2, <2>1 DEF Begins
  <2>4. DayOf(a) <= DayOf(b - 1)
      BY <1>2, <2>2, DatesAssumption
  <2>5. DayOf(a) \in Int /\ DayOf(b - 1) \in Int
      BY <2>2, CalendarHas
  <2> QED BY <2>3, <2>4, <2>5
<1> QED BY <1>1, <1>2

LEMMA BeginningIsStart ==
    ASSUME NEW t \in Dated, NEW s, Begins(s, t)
    PROVE  StartOfDate(t) = s
<1> DEFINE P(x) == /\ DayOf(x) = DayOf(t)
                   /\ \A y \in (x - DAY)..(x - 1) : DayOf(y) < DayOf(t)
           c == CHOOSE x \in (t - 2 * DAY)..t : P(x)
<1>1. s \in (t - 2 * DAY)..t /\ P(s)
    BY DEF Begins
<1>2. c \in (t - 2 * DAY)..t /\ P(c)
    <2> HIDE DEF P
    <2> QED BY <1>1
<1>3. Begins(c, t)
    BY <1>2 DEF Begins
<1>4. StartOfDate(t) = c
    BY DEF StartOfDate
<1> QED BY <1>3, <1>4, OneBeginning

\* Each date begins: it lasts less than two days.
LEMMA DateBegins ==
    ASSUME NEW t \in Dated
    PROVE  \E s : Begins(s, t)
<1>1. /\ t \in Calendar /\ t \in Int /\ DAY \in Int /\ DAY > 0
      /\ \A s \in (t - 2 * DAY)..t : s \in Calendar /\ s \in Int
    BY DatedHas
<1> DEFINE e == t - 2 * DAY
           T == {x \in (e + 1)..t : DayOf(x) = DayOf(t)}
<1>2. e \in Calendar /\ e \in Int /\ e < t
    BY <1>1
<1>3. DayOf(e) < DayOf(t)
  <2>1. /\ Offset(e) < Offset(t) + DAY
        /\ Offset(e) \in Int /\ Offset(t) \in Int
      BY <1>1, <1>2, DatesAssumption, CalendarHas
  <2>2. (e + Offset(e)) + DAY < t + Offset(t)
      BY <1>1, <1>2, <2>1
  <2>3. /\ e + Offset(e) \in Int /\ t + Offset(t) \in Int
      BY <1>1, <1>2, <2>1
  <2>4. /\ DayOf(e) * DAY <= e + Offset(e)
        /\ t + Offset(t) < DayOf(t) * DAY + DAY
        /\ DayOf(e) \in Int /\ DayOf(t) \in Int
        /\ DayOf(e) * DAY \in Int /\ DayOf(t) * DAY \in Int
      BY <2>3, Division DEF DayOf
  <2>5. DayOf(e) * DAY < DayOf(t) * DAY
      BY <1>1, <2>2, <2>3, <2>4
  <2> QED BY <1>1, <2>4, <2>5
<1>4. t \in T /\ T \in SUBSET Int
    BY <1>1, <1>2
<1>5. PICK s \in T : e < s /\ \A y \in T : e < y => s <= y
    BY <1>1, <1>2, <1>4, FirstAfter
<1>6. ASSUME NEW x \in (s - DAY)..(s - 1)
      PROVE  DayOf(x) < DayOf(t)
  <2>1. x \in Int /\ s \in Int /\ s <= t /\ x < s /\ s \in (t - 2 * DAY)..t
      BY <1>1, <1>4, <1>5, <1>6
  <2>2. x \in Calendar
      BY <1>6, <2>1, DatedHas
  <2>3. CASE x <= e
    <3>1. DayOf(x) <= DayOf(e)
        BY <1>2, <2>2, <2>3, DatesAssumption
    <3> QED BY <1>1, <1>2, <1>3, <2>2, <3>1, CalendarHas
  <2>4. CASE e < x
    <3>1. x \notin T
        BY <1>5, <2>1, <2>4
    <3>2. DayOf(x) # DayOf(t)
        BY <1>1, <1>2, <2>1, <2>4, <3>1
    <3>3. DayOf(x) <= DayOf(t)
        BY <1>1, <2>1, <2>2, DatesAssumption
    <3> QED BY <1>1, <2>2, <3>2, <3>3, CalendarHas
  <2> QED BY <1>2, <2>1, <2>3, <2>4
<1>7. s \in (t - 2 * DAY)..t /\ DayOf(s) = DayOf(t)
    BY <1>1, <1>5
<1> QED BY <1>6, <1>7 DEF Begins

LEMMA Quotient ==
    ASSUME NEW a \in Int, NEW n \in Int
    PROVE  /\ a < n * DAY => a \div DAY < n
           /\ n * DAY <= a => n <= a \div DAY
<1> DEFINE m == a \div DAY
<1>1. /\ m \in Int /\ m * DAY \in Int /\ m * DAY <= a /\ a < m * DAY + DAY
      /\ n * DAY \in Int /\ DAY \in Int /\ DAY > 0
    BY Division, CalendarAssumption
<1> HIDE DEF m
<1>2. a < n * DAY => m * DAY < n * DAY
    BY <1>1
<1>3. n * DAY <= a => n * DAY < (m + 1) * DAY
    BY <1>1
<1>4. m * DAY < n * DAY => m < n
    BY <1>1
<1>5. n * DAY < (m + 1) * DAY => n < m + 1
    BY <1>1
<1> QED BY <1>1, <1>2, <1>3, <1>4, <1>5 DEF m

\* The day before a truncated time is an earlier date, wherever the clocks are
\* changed: MO's date of it does not begin a whole day earlier.
LEMMA DayBeforeTruncated ==
    ASSUME NEW t \in Instants \ Infinities
    PROVE  DayOf(TruncateTime(t) - DAY) < DayOf(TruncateTime(t))
<1> DEFINE e == TruncateTime(t)
           y == e - DAY
           n == (t + Offset(t)) \div DAY
<1>1. /\ e \in Int /\ e \in Calendar /\ e <= t /\ t < e + DAY /\ e + Offset(t) = n * DAY
    BY Truncated
<1>2. t \in Calendar /\ t \in Int /\ Offset(t) \in Int /\ t + Offset(t) \in Int
    BY CalendarHas
<1>3. DAY \in Int /\ DAY > 0 /\ n \in Int /\ n * DAY \in Int
    BY <1>2, Division, CalendarAssumption
<1> HIDE DEF e, n
<1>4. y \in Calendar /\ y \in Int
    BY <1>1, <1>2, <1>3, CalendarAssumption DEF Calendar, Instants
<1>5. /\ Offset(e) \in Int /\ Offset(y) \in Int
      /\ e + Offset(e) \in Int /\ y + Offset(y) \in Int
      /\ DayOf(e) \in Int /\ DayOf(y) \in Int
    BY <1>1, <1>4, CalendarHas
<1>6. CASE Offset(t) <= Offset(e)
  <2>1. Offset(y) < Offset(t) + DAY
      BY <1>2, <1>4, DatesAssumption
  <2>2. n * DAY <= e + Offset(e) /\ y + Offset(y) < n * DAY
    <3> HIDE DEF y
    <3>1. y = e - DAY
        BY DEF y
    <3> QED BY <1>1, <1>2, <1>3, <1>5, <1>6, <2>1, <3>1
  <2>3. n <= DayOf(e) /\ DayOf(y) < n
      BY <1>3, <1>5, <2>2, Quotient DEF DayOf
  <2> QED BY <1>3, <1>5, <2>3 DEF e
<1>7. CASE Offset(e) < Offset(t)
  <2>1. Offset(e) \in {Offset(y), Offset(t)}
    <3>1. y <= e /\ e <= t /\ t <= y + 2 * DAY
        BY <1>1, <1>2, <1>3
    <3> QED BY <1>1, <1>2, <1>4, <3>1, DatesAssumption
  <2>2. Offset(y) = Offset(e)
      BY <1>2, <1>5, <1>7, <2>1
  <2>3. /\ e + Offset(e) < DayOf(e) * DAY + DAY /\ DayOf(e) * DAY \in Int
      BY <1>5, Division DEF DayOf
  <2>4. y + Offset(y) < DayOf(e) * DAY
    <3>1. y + Offset(y) = e + Offset(e) - DAY
        BY <1>1, <1>3, <1>5, <2>2
    <3> DEFINE m == DayOf(e) * DAY
    <3>2. e + Offset(e) < m + DAY /\ m \in Int
        BY <2>3
    <3> HIDE DEF y, m
    <3>3. y + Offset(y) < m
        BY <1>1, <1>3, <1>4, <1>5, <3>1, <3>2
    <3> QED BY <3>3 DEF m
  <2>5. DayOf(y) < DayOf(e)
      BY <1>5, <2>4, Quotient DEF DayOf
  <2> QED BY <2>5 DEF e
<1> QED BY <1>2, <1>5, <1>6, <1>7

\* What MO stores for a truncated time is that time or less than a day earlier.
LEMMA StartOfTruncated ==
    ASSUME NEW t \in NEGATIVE_INFINITY..POSITIVE_INFINITY
    PROVE  /\ TruncateTime(t) \in Int /\ StartOfDay(TruncateTime(t)) \in Int
           /\ StartOfDay(TruncateTime(t)) <= TruncateTime(t)
           /\ TruncateTime(t) - DAY < StartOfDay(TruncateTime(t))
<1> DEFINE e == TruncateTime(t)
<1>1. DAY \in Int /\ DAY > 0
    BY CalendarAssumption
<1>2. CASE t \in Infinities
  <2>1. e = t /\ StartOfDay(e) = e /\ e \in Int
      BY <1>2, CalendarAssumption DEF TruncateTime, StartOfDay, Infinities
  <2> QED BY <1>1, <2>1
<1>3. CASE t \notin Infinities
  <2>1. t \in Instants \ Infinities
      BY <1>3, CalendarAssumption DEF Instants, Infinities
  <2>2. e \in Int /\ e \in Calendar /\ e <= t /\ t < e + DAY
      BY <2>1, Truncated
  <2> HIDE DEF e
  <2>3. CASE e \in Infinities
    <3>1. StartOfDay(e) = e
        BY <2>3 DEF StartOfDay
    <3> QED BY <1>1, <2>2, <3>1 DEF e
  <2>4. CASE e \notin Infinities
    <3>1. e \in Dated
        BY <2>1, <2>2, CalendarAssumption DEF Dated, Instants
    <3>2. PICK s : Begins(s, e)
        BY <3>1, DateBegins
    <3>3. StartOfDay(e) = s
        BY <2>4, <3>1, <3>2, BeginningIsStart DEF StartOfDay
    <3>4. /\ s \in (e - 2 * DAY)..e /\ s \in Int /\ s \in Calendar
          /\ DayOf(s) = DayOf(e)
        BY <3>1, <3>2, DatedHas DEF Begins
    <3>5. e - DAY \in Calendar /\ e - DAY \in Int
        BY <1>1, <3>1, CalendarAssumption DEF Dated, Calendar
    <3>6. DayOf(e - DAY) < DayOf(e)
        BY <2>1, DayBeforeTruncated DEF e
    <3>7. ~(s <= e - DAY)
      <4>1. s <= e - DAY => DayOf(s) <= DayOf(e - DAY)
          BY <3>4, <3>5, DatesAssumption
      <4>2. DayOf(s) \in Int /\ DayOf(e - DAY) \in Int
          BY <3>4, <3>5, CalendarHas
      <4> QED BY <3>4, <3>6, <4>1, <4>2
    <3> QED BY <1>1, <2>2, <3>3, <3>4, <3>5, <3>7 DEF e
  <2> QED BY <2>3, <2>4
<1> QED BY <1>2, <1>3

\* A time of a Steady Klasse is truncated to a midnight.
LEMMA SteadyMidnight ==
    ASSUME NEW k \in Klasser, Steady(k), NEW t \in Timestamps(k) \ Infinities
    PROVE  /\ t \in Instants \ Infinities
           /\ TruncateTime(t) \in Calendar /\ TruncateTime(t) \in Dated
           /\ AtMidnight(TruncateTime(t)) /\ DayOf(TruncateTime(t)) = DayOf(t)
<1>1. t \in Instants \ Infinities
    BY TimesOfKlasse, CalendarAssumption DEF Instants, Infinities
<1>2. /\ TruncateTime(t) \in Int /\ TruncateTime(t) \in Calendar
      /\ TruncateTime(t) <= t /\ t < TruncateTime(t) + DAY
    BY <1>1, Truncated
<1>3. TruncateTime(t) \in Dated
    BY <1>1, <1>2, CalendarAssumption DEF Dated, Instants
<1>4. Offset(TruncateTime(t)) = Offset(t)
  <2>1. TruncateTime(t) \in TruncateTime(t)..t
      BY <1>1, <1>2, CalendarHas
  <2> QED BY <2>1 DEF Steady
<1> QED BY <1>1, <1>2, <1>3, <1>4, TruncatedIsMidnight

\* MO's dates begin where its times are truncated to.
LEMMA StoredAsIs ==
    ASSUME NEW k \in Klasser, Steady(k), NEW t \in Timestamps(k)
    PROVE  StartOfDay(TruncateTime(t)) = TruncateTime(t)
<1> DEFINE d == TruncateTime(t)
<1>1. CASE t \in Infinities
    BY <1>1 DEF TruncateTime, StartOfDay
<1>2. CASE t \notin Infinities
  <2>1. d \in Calendar /\ d \in Dated /\ AtMidnight(d)
      BY <1>2, SteadyMidnight
  <2> HIDE DEF d
  <2>2. /\ d \in Int /\ d \in (d - 2 * DAY)..d
        /\ \A x \in (d - DAY)..(d - 1) : x \in Calendar /\ x \in Int /\ x < d
      BY <2>1, DatedHas
  <2>3. Begins(d, d)
      BY <2>1, <2>2, BeforeMidnight DEF Begins
  <2>4. StartOfDay(d) = d
      BY <2>1, <2>3, BeginningIsStart DEF StartOfDay
  <2> QED BY <2>4 DEF d
<1> QED BY <1>1, <1>2

\* A date reaches a truncated time exactly if its last instant reaches the time.
LEMMA ReachedAtEnd ==
    ASSUME NEW k \in Klasser, Steady(k), NEW t \in Timestamps(k), NEW d \in Dates
    PROVE  TruncateTime(t) <= d[1] <=> t <= d[2]
<1> DEFINE a == d[1]
           b == d[2]
           m == TruncateTime(t)
<1>1. /\ a \in Instants /\ b \in Instants /\ a <= b
      /\ DayOf(a) = DayOf(b) /\ DayOf(b + 1) > DayOf(b)
    BY DEF Dates
<1> HIDE DEF a, b, m
<1>2. /\ a \in Calendar /\ b \in Calendar /\ b + 1 \in Calendar
      /\ a \in Int /\ b \in Int
    BY <1>1, CalendarHas, CalendarAssumption DEF Instants, Calendar
<1>3. CASE t \in Infinities
  <2>1. m = t
      BY <1>3 DEF m, TruncateTime
  <2>2. m <= a <=> t <= b
      BY <1>1, <1>2, <1>3, <2>1, CalendarAssumption DEF Instants, Infinities
  <2> QED BY <2>2 DEF a, b, m
<1>4. CASE t \notin Infinities
  <2>1. t \in Instants /\ m \in Calendar /\ AtMidnight(m) /\ DayOf(m) = DayOf(t)
      BY <1>4, SteadyMidnight DEF m
  <2>2. t \in Calendar /\ t \in Int /\ m \in Int
      BY <2>1, CalendarHas
  <2>3. /\ DayOf(a) \in Int /\ DayOf(b) \in Int /\ DayOf(b + 1) \in Int
        /\ DayOf(t) \in Int /\ DayOf(m) \in Int
      BY <1>2, <2>1, <2>2, CalendarHas
  <2>4. ASSUME m <= a, b < t PROVE FALSE
    <3>1. DayOf(m) <= DayOf(a)
        BY <1>2, <2>1, <2>4, DatesAssumption
    <3>2. DayOf(b + 1) <= DayOf(t)
        BY <1>2, <2>2, <2>4, DatesAssumption
    <3> QED BY <1>1, <2>1, <2>3, <3>1, <3>2
  <2>5. ASSUME t <= b, a < m PROVE FALSE
    <3>1. DayOf(a) < DayOf(m)
        BY <1>2, <2>1, <2>5, BeforeMidnight
    <3>2. DayOf(t) <= DayOf(b)
        BY <1>2, <2>2, <2>5, DatesAssumption
    <3> QED BY <1>1, <2>1, <2>3, <3>1, <3>2
  <2>6. m <= a <=> t <= b
      BY <1>2, <2>2, <2>4, <2>5
  <2> QED BY <2>6 DEF a, b, m
<1> QED BY <1>3, <1>4

-----------------------------------------------------------------------------
(* What is written, and what is read back. *)

Validity(a, b, x, y) == [start |-> a, end |-> b, attributes |-> x, parent |-> y]

LEMMA ValidityIs ==
    ASSUME NEW a, NEW b, NEW x, NEW y,
           NEW v \in [start : {a}, end : {b}, attributes : {x}, parent : {y}]
    PROVE  v = Validity(a, b, x, y)
BY DEF Validity

LEMMA Converted ==
    ASSUME NEW a, NEW b, NEW x, NEW y
    PROVE  /\ AsDates(Validity(a, b, x, y)) =
                 Validity(TruncateTime(a), TruncateTime(b), x, y)
           /\ Stored(Validity(a, b, x, y)) = Validity(StartOfDay(a), StartOfDay(b), x, y)
<1> DEFINE v == Validity(a, b, x, y)
<1>1. AsDates(v) \in [start : {TruncateTime(a)}, end : {TruncateTime(b)},
                      attributes : {x}, parent : {y}]
    BY DEF AsDates, Validity
<1>2. Stored(v) \in [start : {StartOfDay(a)}, end : {StartOfDay(b)},
                     attributes : {x}, parent : {y}]
    BY DEF Stored, Validity
<1> QED BY <1>1, <1>2, ValidityIs

LEMMA DesiredHas ==
    ASSUME NEW k \in Klasser, NEW v \in Desired(k)
    PROVE  /\ v.end - v.start > DAY
           /\ \E t, u \in Timestamps(k) : \E x, y :
                  v = Validity(TruncateTime(t), TruncateTime(u), x, y)
<1>1. v.end - v.start > DAY
    BY DEF Desired, LongerThanDay
<1>2. PICK p \in Pairwise(Timestamps(k)) : v = AsDates(ClassValidity(k, p))
    BY DEF Desired, ClassValidities
<1>3. PICK x, y : ClassValidity(k, p) = Validity(p[1], p[2], x, y)
    BY DEF ClassValidity, Validity
<1>4. v = Validity(TruncateTime(p[1]), TruncateTime(p[2]), x, y)
    BY <1>2, <1>3, Converted
<1>5. p[1] \in Timestamps(k) /\ p[2] \in Timestamps(k)
    BY TimesOfKlasse, Neighbours
<1> QED BY <1>1, <1>4, <1>5

LEMMA StoredOrdered ==
    ASSUME NEW k \in Klasser, NEW v \in Desired(k)
    PROVE  /\ Stored(v).start \in Int /\ Stored(v).end \in Int
           /\ Stored(v).start < Stored(v).end
<1>0. PICK t, u \in Timestamps(k) :
          \E x, y : v = Validity(TruncateTime(t), TruncateTime(u), x, y)
    BY DesiredHas
<1>1. PICK x, y : v = Validity(TruncateTime(t), TruncateTime(u), x, y)
    BY <1>0
<1>2. /\ t \in NEGATIVE_INFINITY..POSITIVE_INFINITY
      /\ u \in NEGATIVE_INFINITY..POSITIVE_INFINITY
    BY TimesOfKlasse
<1>3. /\ Stored(v).start = StartOfDay(TruncateTime(t))
      /\ Stored(v).end = StartOfDay(TruncateTime(u))
  <2>1. Stored(v) = Validity(StartOfDay(TruncateTime(t)), StartOfDay(TruncateTime(u)), x, y)
      BY <1>1, Converted
  <2> QED BY <2>1 DEF Validity
<1>4. TruncateTime(u) - TruncateTime(t) > DAY
    BY <1>1, DesiredHas DEF Validity
<1>5. DAY \in Int
    BY CalendarAssumption
<1> QED BY <1>2, <1>3, <1>4, <1>5, StartOfTruncated

\* The date before a midnight is one less.
LEMMA DateBefore ==
    ASSUME NEW b \in Dated, b - 1 \in Dated, AtMidnight(b)
    PROVE  DayOf(b - 1) = DayOf(b) - 1
<1> DEFINE n == DayOf(b)
           m == n * DAY
<1>1. /\ b \in Calendar /\ b - 1 \in Calendar /\ b \in Int /\ DAY \in Int
      /\ Offset(b) \in Int /\ Offset(b - 1) \in Int /\ b - 1 + Offset(b - 1) \in Int
      /\ n \in Int /\ DayOf(b - 1) \in Int
    BY DatedHas, CalendarHas
<1>2. DayOf(b - 1) < n
    BY <1>1, BeforeMidnight
<1>3. (n - 1) * DAY = m - DAY /\ m \in Int
    BY <1>1
<1>4. b + Offset(b) = m
    BY DEF AtMidnight
<1>5. Offset(b) < Offset(b - 1) + DAY
    BY <1>1, DatesAssumption
<1> HIDE DEF m, n
<1>6. (n - 1) * DAY <= b - 1 + Offset(b - 1)
    BY <1>1, <1>3, <1>4, <1>5
<1>7. n - 1 <= DayOf(b - 1)
    BY <1>1, <1>6, Quotient DEF DayOf
<1> QED BY <1>1, <1>2, <1>7 DEF n

\* A day later than the beginning of the date before a midnight is that midnight.
LEMMA DayLaterIsEnd ==
    ASSUME NEW b \in Dated, b - 1 \in Dated, AtMidnight(b),
           AtMidnight(StartOfDate(b - 1)),
           KeepsOffset => Offset(StartOfDate(b - 1)) = Offset(b)
    PROVE  StartOfDate(b - 1) \in Int /\ StartOfDate(b - 1) < b
           /\ DayLater(StartOfDate(b - 1)) = b
<1> DEFINE d == StartOfDate(b - 1)
<1>1. /\ b \in Calendar /\ b \in Int /\ DAY \in Int /\ DAY > 0
      /\ Offset(b) \in Int /\ DayOf(b) \in Int
    BY DatedHas, CalendarHas
<1>2. Begins(d, b - 1)
    BY DateBegins, BeginningIsStart
<1>3. d \in (b - 1 - 2 * DAY)..(b - 1) /\ DayOf(d) = DayOf(b - 1)
    BY <1>2 DEF Begins
<1>4. d \in Calendar /\ d \in Int /\ Offset(d) \in Int
    BY <1>3, DatedHas, CalendarHas
<1>5. d < b
    BY <1>1, <1>3, <1>4
<1>6. d + Offset(d) = (DayOf(b) - 1) * DAY
    BY <1>3, DateBefore DEF AtMidnight
<1>7. b + Offset(b) = DayOf(b) * DAY
    BY DEF AtMidnight
<1>8. b + Offset(b) = d + Offset(d) + DAY
    BY <1>1, <1>6, <1>7
<1> DEFINE later == {s \in d..(d + 2 * DAY) : s + Offset(s) = d + Offset(d) + DAY}
<1> HIDE DEF d
<1>9. b \in later
  <2>1. Offset(d) < Offset(b) + DAY
      BY <1>1, <1>4, DatesAssumption
  <2>2. b \in d..(d + 2 * DAY)
      BY <1>1, <1>4, <1>5, <1>8, <2>1
  <2> QED BY <1>8, <2>2
<1>10. ASSUME NEW s \in later PROVE s = b
  <2>1. s \in Int /\ s \in Calendar
    <3>1. s \in d..(d + 2 * DAY)
        OBVIOUS
    <3>2. d + 2 * DAY <= POSITIVE_INFINITY + 2 * DAY /\ NEGATIVE_INFINITY - 4 * DAY <= d
        BY <1>1, <1>4, <1>5, CalendarAssumption DEF Dated, Calendar
    <3> QED BY <1>1, <1>4, <3>1, <3>2, CalendarAssumption DEF Calendar
  <2>2. s + Offset(s) = DayOf(b) * DAY
      BY <1>7, <1>8
  <2>3. DayOf(s) = DayOf(b)
      BY <1>1, <2>2, Multiple DEF DayOf
  <2>4. AtMidnight(s)
      BY <2>2, <2>3 DEF AtMidnight
  <2>5. ~(s < b) /\ ~(b < s)
      BY <1>1, <2>1, <2>3, <2>4, BeforeMidnight
  <2> QED BY <1>1, <2>1, <2>5
<1>11. (CHOOSE s \in later : TRUE) = b /\ later # {}
    BY <1>9, <1>10
<1>12. KeepsOffset => d + DAY = b
    BY <1>1, <1>4, <1>8 DEF d
<1>13. DayLater(d) = IF KeepsOffset \/ later = {} THEN d + DAY ELSE CHOOSE s \in later : TRUE
    BY DEF DayLater
<1>14. DayLater(d) = b
    BY <1>11, <1>12, <1>13
<1> QED BY <1>4, <1>5, <1>14 DEF d

\* A validity with an end is long enough for a date before its end.
LEMMA EndIsMidnight ==
    ASSUME NEW k \in Klasser, Steady(k), NEW v \in Desired(k),
           NEW t \in Timestamps(k), NEW u \in Timestamps(k), NEW x, NEW y,
           v = Validity(TruncateTime(t), TruncateTime(u), x, y),
           v.end # POSITIVE_INFINITY
    PROVE  /\ v.end \in Dated /\ v.end - 1 \in Dated /\ AtMidnight(v.end)
           /\ v.end < POSITIVE_INFINITY
<1> DEFINE a == TruncateTime(t)
           b == TruncateTime(u)
<1>1. v.start = a /\ v.end = b /\ b - a > DAY
    BY DesiredHas DEF Validity
<1>2. /\ DAY \in Int /\ DAY > 0 /\ NEGATIVE_INFINITY \in Int /\ POSITIVE_INFINITY \in Int
      /\ t \in NEGATIVE_INFINITY..POSITIVE_INFINITY /\ t \in Int
    BY CalendarAssumption, TimesOfKlasse
<1>3. a \in Int /\ NEGATIVE_INFINITY - DAY < a
  <2>1. CASE t \in Infinities
      BY <1>2, <2>1 DEF TruncateTime
  <2>2. CASE t \notin Infinities
    <3>1. t \in Instants \ Infinities
        BY <1>2, <2>2 DEF Instants, Infinities
    <3> QED BY <1>2, <3>1, Truncated
  <2> QED BY <2>1, <2>2
<1>4. u \notin Infinities
  <2>1. u # POSITIVE_INFINITY
      BY <1>1 DEF TruncateTime, Infinities
  <2>2. u # NEGATIVE_INFINITY
    <3>1. u = NEGATIVE_INFINITY => b = NEGATIVE_INFINITY
        BY DEF TruncateTime, Infinities
    <3> HIDE DEF a, b
    <3> QED BY <1>1, <1>2, <1>3, <3>1
  <2> QED BY <2>1, <2>2 DEF Infinities
<1>5. b \in Dated /\ AtMidnight(b) /\ u \in Instants \ Infinities
    BY <1>4, SteadyMidnight
<1>6. b \in Int /\ b <= u /\ u \in Int /\ u < POSITIVE_INFINITY
    BY <1>2, <1>5, Truncated DEF Instants
<1> HIDE DEF a, b
<1>7. b - 1 \in Dated /\ b < POSITIVE_INFINITY
    BY <1>1, <1>2, <1>3, <1>6 DEF Dated
<1> QED BY <1>1, <1>5, <1>7

LEMMA ReadBack ==
    ASSUME NEW k \in Klasser, Steady(k), Returning(k), NEW v \in Desired(k)
    PROVE  /\ FixedValidity(MORead(Stored(v))) = v
           /\ MORead(Stored(v)).end # POSITIVE_INFINITY
              => AtMidnight(MORead(Stored(v)).end)
<1>0. PICK t, u \in Timestamps(k) :
          \E x, y : v = Validity(TruncateTime(t), TruncateTime(u), x, y)
    BY DesiredHas
<1>1. PICK x, y : v = Validity(TruncateTime(t), TruncateTime(u), x, y)
    BY <1>0
<1> DEFINE a == TruncateTime(t)
           b == TruncateTime(u)
<1>2. Stored(v) = v
    BY <1>1, StoredAsIs, Converted
<1>3. b # POSITIVE_INFINITY =>
          /\ b \in Dated /\ b - 1 \in Dated /\ AtMidnight(b) /\ b < POSITIVE_INFINITY
    BY <1>1, EndIsMidnight DEF Validity
<1>4. b # POSITIVE_INFINITY =>
          /\ AtMidnight(StartOfDate(b - 1))
          /\ KeepsOffset => Offset(StartOfDate(b - 1)) = Offset(b)
    BY <1>1 DEF Returning, Validity
<1> HIDE DEF a, b
<1>5. v = Validity(a, b, x, y)
    BY <1>1 DEF a, b
<1> DEFINE c == IF b = POSITIVE_INFINITY THEN b ELSE StartOfDate(b - 1)
<1>6. MORead(v) = Validity(a, c, x, y)
  <2>1. MORead(v) \in [start : {a}, end : {c}, attributes : {x}, parent : {y}]
      BY <1>5 DEF MORead, Validity
  <2> HIDE DEF c
  <2> QED BY <2>1, ValidityIs
<1>7. /\ (IF c = POSITIVE_INFINITY THEN c ELSE DayLater(c)) = b
      /\ c # POSITIVE_INFINITY => AtMidnight(c)
  <2>1. CASE b = POSITIVE_INFINITY
      BY <2>1
  <2>2. CASE b # POSITIVE_INFINITY
    <3>1. /\ StartOfDate(b - 1) \in Int /\ StartOfDate(b - 1) < b
          /\ DayLater(StartOfDate(b - 1)) = b
        BY <1>3, <1>4, <2>2, DayLaterIsEnd
    <3>2. b \in Int /\ b < POSITIVE_INFINITY /\ POSITIVE_INFINITY \in Int
        BY <1>3, <2>2, CalendarAssumption, DatedHas
    <3>3. c = StartOfDate(b - 1) /\ c # POSITIVE_INFINITY
        BY <2>2, <3>1, <3>2
    <3> HIDE DEF c
    <3> QED BY <1>4, <2>2, <3>1, <3>3
  <2> QED BY <2>1, <2>2
<1> HIDE DEF c
<1>8. FixedValidity(Validity(a, c, x, y)) \in [start : {a}, end : {b}, attributes : {x}, parent : {y}]
    BY <1>7 DEF FixedValidity, Validity
<1>9. FixedValidity(Validity(a, c, x, y)) = v
    BY <1>5, <1>8, ValidityIs
<1>10. Validity(a, c, x, y).end = c
    BY DEF Validity
<1> QED BY <1>2, <1>6, <1>7, <1>9, <1>10

LEMMA WrittenIsActual ==
    ASSUME NEW k \in Klasser, Steady(k), Returning(k)
    PROVE  /\ Actual({Stored(v) : v \in Desired(k)}) = Desired(k)
           /\ Reads(Answer({Stored(v) : v \in Desired(k)}))
<1>1. Answer({Stored(v) : v \in Desired(k)}) = {MORead(Stored(v)) : v \in Desired(k)}
    BY DEF Answer
<1>2. Reads(Answer({Stored(v) : v \in Desired(k)}))
    BY <1>1, ReadBack DEF Reads
<1>3. Actual({Stored(v) : v \in Desired(k)})
          = {FixedValidity(MORead(Stored(v))) : v \in Desired(k)}
    BY <1>1 DEF Actual
<1> QED BY <1>2, <1>3, ReadBack

\* Between the dates written and the times kept: each date shows its end.
LEMMA ShowsEnd ==
    ASSUME NEW k \in Klasser, Steady(k), NEW d \in Dates
    PROVE  ShownAt(Desired(k), d[1]) =
               ShownAt({v \in ClassValidities(k) : LongerThanDay(AsDates(v))}, d[2])
<1> DEFINE kept == {v \in ClassValidities(k) : LongerThanDay(AsDates(v))}
<1>1. Desired(k) = {AsDates(v) : v \in kept}
    BY DEF Desired
<1>2. ASSUME NEW v \in kept
      PROVE  /\ Says(AsDates(v)) = Says(v)
             /\ Covers(AsDates(v), d[1]) <=> Covers(v, d[2])
  <2>1. PICK p \in Pairwise(Timestamps(k)) : v = ClassValidity(k, p)
      BY <1>2 DEF ClassValidities
  <2>2. PICK x, y : v = Validity(p[1], p[2], x, y)
      BY <2>1 DEF ClassValidity, Validity
  <2>3. AsDates(v) = Validity(TruncateTime(p[1]), TruncateTime(p[2]), x, y)
      BY <2>2, Converted
  <2>4. /\ p[1] \in Timestamps(k) /\ p[2] \in Timestamps(k)
        /\ p[1] \in Int /\ p[2] \in Int
        /\ TruncateTime(p[1]) \in Int /\ TruncateTime(p[2]) \in Int
      BY TimesOfKlasse, Neighbours, StartOfTruncated
  <2>5. d[1] \in Int /\ d[2] \in Int
      BY CalendarHas DEF Dates
  <2>6. /\ TruncateTime(p[1]) <= d[1] <=> p[1] <= d[2]
        /\ TruncateTime(p[2]) <= d[1] <=> p[2] <= d[2]
      BY <2>4, ReachedAtEnd
  <2>7. Covers(AsDates(v), d[1]) <=> Covers(v, d[2])
      BY <2>2, <2>3, <2>4, <2>5, <2>6 DEF Covers, Validity
  <2>8. Says(AsDates(v)) = Says(v)
      BY <2>2, <2>3 DEF Says, Validity
  <2> QED BY <2>7, <2>8
<1> HIDE DEF kept
<1>3. ShownAt(Desired(k), d[1]) = {Says(AsDates(v)) : v \in {v \in kept : Covers(AsDates(v), d[1])}}
    BY <1>1 DEF ShownAt
<1>4. ShownAt(kept, d[2]) = {Says(v) : v \in {v \in kept : Covers(v, d[2])}}
    BY DEF ShownAt
<1>5. ShownAt(Desired(k), d[1]) = ShownAt(kept, d[2])
    BY <1>2, <1>3, <1>4
<1> QED BY <1>5 DEF kept

-----------------------------------------------------------------------------

Known == klasse \in Klasser

LEMMA KnownKlasse == Spec => []Known
<1>1. Init => Known
    BY DEF Init, Known
<1>2. Known /\ [Next]_vars => Known'
    BY KlasseAssumption DEF Next, Sync, FKKChange, vars, Known
<1> QED BY <1>1, <1>2, PTL DEF Spec

\* Splitting a Klasse at its timestamps loses and invents nothing
\* (models.py:90-154), whatever its elements are.
THEOREM SplitsFaithfully == Spec => []SplitIsFaithful
<1>1. Known => SplitIsFaithful
    BY Faithful DEF Known, SplitIsFaithful
<1> QED BY <1>1, KnownKlasse, PTL

\* The conversion raises on a gap of the published state and on two parents, and
\* on nothing else (models.py:132,142).
THEOREM FailsOnGaps == Spec => []FailsOnGapsOnly
<1>1. Known => FailsOnGapsOnly
    BY FailsOnAmbiguity DEF Known, FailsOnGapsOnly
<1> QED BY <1>1, KnownKlasse, PTL

\* What sync() writes to MO does not overlap, in any calendar, if all times are
\* truncated to midnights (models.py:72-87).
THEOREM DesiredIsDisjoint == Spec => []DesiredDisjoint
<1>1. Known => DesiredDisjoint
    BY DatesApart DEF Known, DesiredDisjoint
<1> QED BY <1>1, KnownKlasse, PTL

\* MO shows on a date what the Klasse says at the end of that date, whatever the
\* dates are, unless that is dropped as too short (events.py:76-89).
THEOREM ShowsTheEndOfDay == Spec => []DayShowsItsEnd
<1>1. Known => DayShowsItsEnd
    BY ShowsEnd DEF Known, DayShowsItsEnd
<1> QED BY <1>1, KnownKlasse, PTL

Synced == {"up_to_date", "delete", "create_or_update"}
LoopInv == Known /\ SteadyNoSyncLoop /\ (status \in Synced => Converts(klasse))

LEMMA LoopInvariant == Spec => []LoopInv
<1>1. Init => LoopInv
    BY DEF Init, LoopInv, Known, SteadyNoSyncLoop, NoSyncLoop, Synced

<1>2. LoopInv /\ [Next]_vars => LoopInv'
  <2> SUFFICES ASSUME LoopInv, [Next]_vars PROVE LoopInv'
      OBVIOUS
  <2>1. Known'
      BY KlasseAssumption DEF LoopInv, Next, Sync, FKKChange, vars, Known
  <2>2. CASE Sync
    <3>1. klasse' = klasse /\ klasse \in Klasser
        BY <2>2 DEF Sync, LoopInv, Known
    <3>2. ASSUME Steady(klasse), Returning(klasse),
                 status' \in {"up_to_date", "delete", "create_or_update"}
          PROVE  Reads(Answer(mo')) /\ Actual(mo') = Desired(klasse)
      <4>1. CASE status' = "up_to_date"
          BY <2>2, <4>1 DEF Sync
      <4>2. CASE status' = "delete"
        <5>1. mo' = {} /\ Desired(klasse) = {}
            BY <2>2, <4>2 DEF Sync
        <5> QED BY <5>1 DEF Actual, Answer, Reads
      <4>3. CASE status' = "create_or_update"
        <5>1. mo' = {Stored(v) : v \in Desired(klasse)}
            BY <2>2, <4>3 DEF Sync
        <5> QED BY <3>1, <3>2, <5>1, WrittenIsActual
      <4> QED BY <3>2, <4>1, <4>2, <4>3
    <3>3. SteadyNoSyncLoop'
        BY <3>1, <3>2 DEF SteadyNoSyncLoop, NoSyncLoop
    <3>4. status' \in Synced => Converts(klasse')
        BY <2>2, <3>1 DEF Sync, Synced
    <3> QED BY <2>1, <3>3, <3>4 DEF LoopInv
  <2>3. CASE FKKChange
      BY <2>1, <2>3 DEF FKKChange, LoopInv, SteadyNoSyncLoop, NoSyncLoop, Synced
  <2>4. CASE UNCHANGED vars
    <3>1. SteadyNoSyncLoop' /\ (status' \in Synced => Converts(klasse'))
        BY <2>4 DEF vars, LoopInv, SteadyNoSyncLoop, NoSyncLoop, Synced
    <3> QED BY <2>1, <3>1 DEF LoopInv
  <2> QED BY <2>2, <2>3, <2>4 DEF Next
<1> QED BY <1>1, <1>2, PTL DEF Spec

\* A second sync() finds nothing to do and does not raise (events.py:74-75,
\* models.py:162-168), for every Klasse whose times are truncated to midnights, and
\* in every calendar where the date before an end begins at midnight.
THEOREM NoLoopIfSteady == Spec => []SteadyNoSyncLoop
<1>1. LoopInv => SteadyNoSyncLoop
    BY DEF LoopInv
<1> QED BY <1>1, LoopInvariant, PTL

\* What MO holds begins before it ends, although MO moves each time to the
\* beginning of its date: of every validity written, more than a day is left.
THEOREM ConversionTypeCorrect == Spec => []TypeOK
<1> DEFINE TInv == Known /\ TypeOK
<1>0. ASSUME NEW k \in Klasser
      PROVE  \A s \in Virkninger(k) : s[1] \in Int /\ s[2] \in Int
    BY KlasseAssumption, CalendarAssumption
<1>1. Init => TInv
    BY <1>0, KlasseAssumption DEF Init, Known, TypeOK
<1>2. TInv /\ [Next]_vars => TInv'
  <2> SUFFICES ASSUME TInv, [Next]_vars PROVE TInv'
      OBVIOUS
  <2>1. Known'
      BY KlasseAssumption DEF Next, Sync, FKKChange, vars, Known
  <2>2. \A s \in Virkninger(klasse)' : s[1] \in Int /\ s[2] \in Int
      BY <1>0, <2>1 DEF Known
  <2>3. CASE Sync
    <3>1. /\ klasse \in Klasser
          /\ changes' \in 0..MaxChanges
          /\ status' \in {"none", "error", "up_to_date", "delete", "create_or_update"}
        BY <2>3 DEF Sync, Known, TypeOK
    <3>2. mo' = mo \/ mo' = {} \/ mo' = {Stored(v) : v \in Desired(klasse)}
        BY <2>3 DEF Sync
    <3>3. \A v \in mo' : v.start \in Int /\ v.end \in Int /\ v.start < v.end
        BY <3>1, <3>2, StoredOrdered DEF TypeOK
    <3> QED BY <2>1, <2>2, <3>1, <3>3 DEF TypeOK
  <2>4. CASE FKKChange
    <3>1. changes' \in 0..MaxChanges
        BY <2>4, KlasseAssumption DEF FKKChange, TypeOK
    <3> QED BY <2>1, <2>2, <2>4, <3>1 DEF FKKChange, TypeOK
  <2>5. CASE UNCHANGED vars
      BY <2>1, <2>2, <2>5 DEF vars, TypeOK
  <2> QED BY <2>3, <2>4, <2>5 DEF Next
<1> QED BY <1>1, <1>2, PTL DEF Spec

\* With one offset, the date before a midnight began a day before it.
LEMMA StartWithoutChanges ==
    ASSUME \A x, y \in Calendar : Offset(x) = Offset(y),
           NEW b \in Dated, b - 1 \in Dated, AtMidnight(b)
    PROVE  /\ StartOfDate(b - 1) = b - DAY /\ AtMidnight(b - DAY)
           /\ b - DAY \in Calendar
<1> DEFINE d == b - DAY
           n == DayOf(b)
           m == n * DAY
<1>1. /\ b \in Calendar /\ b \in Int /\ DAY \in Int /\ DAY > 0
      /\ Offset(b) \in Int /\ n \in Int /\ m \in Int
    BY DatedHas, CalendarHas
<1>2. d \in Calendar /\ d \in Int /\ Offset(d) = Offset(b)
  <2>1. d \in Calendar /\ d \in Int
      BY <1>1, CalendarAssumption DEF Dated, Calendar
  <2> QED BY <1>1, <2>1
<1>3. b + Offset(b) = m
    BY DEF AtMidnight
<1>4. (n - 1) * DAY = m - DAY
    BY <1>1
<1> HIDE DEF m, n
<1>5. d + Offset(d) = (n - 1) * DAY
  <2>1. d = b - DAY
      OBVIOUS
  <2> HIDE DEF d
  <2> QED BY <1>1, <1>2, <1>3, <1>4, <2>1
<1>6. DayOf(d) = n - 1
    BY <1>1, <1>5, Multiple DEF DayOf
<1>7. AtMidnight(d)
    BY <1>5, <1>6 DEF AtMidnight
<1>8. DayOf(b - 1) = n - 1
    BY DateBefore DEF n
<1>9. d \in (b - 1 - 2 * DAY)..(b - 1)
    BY <1>1
<1>10. ASSUME NEW x \in (d - DAY)..(d - 1) PROVE DayOf(x) < DayOf(b - 1)
  <2>1. x \in Calendar /\ x < d
      BY <1>1, <1>9, <1>10, DatedHas
  <2> QED BY <1>2, <1>6, <1>7, <1>8, <2>1, BeforeMidnight
<1>11. Begins(d, b - 1)
    BY <1>6, <1>8, <1>9, <1>10 DEF Begins
<1>12. StartOfDate(b - 1) = d
    BY <1>11, BeginningIsStart
<1> QED BY <1>2, <1>7, <1>12

\* Both disagreements of the conversion with the documentation are due to the
\* changes of the clocks: with the same UTC offset all along, no sync() is
\* repeated (events.py:74-75) and no single day is written (events.py:78).
THEOREM WithoutClockChanges ==
    ASSUME \A x, y \in Calendar : Offset(x) = Offset(y)
    PROVE  Spec => [](NoSyncLoop /\ SingleDaysIgnored)
<1>1. ASSUME NEW k \in Klasser PROVE Steady(k)
  <2>1. ASSUME NEW t \in Timestamps(k) \ Infinities, NEW x \in TruncateTime(t)..t
        PROVE  Offset(x) = Offset(t)
    <3>1. t \in Instants \ Infinities
        BY <2>1, TimesOfKlasse, CalendarAssumption DEF Instants, Infinities
    <3>2. /\ TruncateTime(t) \in Int /\ TruncateTime(t) \in Calendar
          /\ t \in Calendar /\ t \in Int
        BY <3>1, Truncated, CalendarHas
    <3>3. x \in Calendar
        BY <2>1, <3>2, CalendarAssumption DEF Calendar
    <3> QED BY <3>2, <3>3
  <2> QED BY <2>1 DEF Steady
<1>2. ASSUME NEW k \in Klasser, NEW v \in Desired(k),
             v.start \notin Infinities, v.end \notin Infinities
      PROVE  DayOf(v.end) - DayOf(v.start) > 1
  <2>0. PICK t, u \in Timestamps(k) :
            \E x, y : v = Validity(TruncateTime(t), TruncateTime(u), x, y)
      BY DesiredHas
  <2>1. PICK x, y : v = Validity(TruncateTime(t), TruncateTime(u), x, y)
      BY <2>0
  <2>2. v.start = TruncateTime(t) /\ v.end = TruncateTime(u)
      BY <2>1 DEF Validity
  <2>3. t \notin Infinities /\ u \notin Infinities
      BY <1>2, <2>2 DEF TruncateTime
  <2> DEFINE a == TruncateTime(t)
             b == TruncateTime(u)
             m == DayOf(a)
             n == DayOf(b)
  <2>4. a \in Calendar /\ b \in Calendar /\ AtMidnight(a) /\ AtMidnight(b)
      BY <1>1, <2>3, SteadyMidnight
  <2>5. b - a > DAY
      BY <2>2, DesiredHas
  <2> HIDE DEF a, b
  <2>6. /\ a \in Int /\ b \in Int /\ Offset(a) \in Int /\ Offset(a) = Offset(b)
        /\ m \in Int /\ n \in Int /\ DAY \in Int /\ DAY > 0
      BY <2>4, CalendarHas, CalendarAssumption
  <2>7. a + Offset(a) = m * DAY /\ b + Offset(b) = n * DAY
      BY <2>4 DEF AtMidnight
  <2> HIDE DEF m, n
  <2>8. n * DAY - m * DAY > DAY
    <3> DEFINE p == m * DAY
               q == n * DAY
    <3>1. p \in Int /\ q \in Int /\ a + Offset(a) = p /\ b + Offset(b) = q
        BY <2>6, <2>7
    <3> HIDE DEF p, q
    <3>2. q - p > DAY
        BY <2>5, <2>6, <3>1
    <3> QED BY <3>2 DEF p, q
  <2>9. n - m > 1
    <3>1. (n - m) * DAY > 1 * DAY
        BY <2>6, <2>8
    <3> QED BY <2>6, <3>1
  <2> QED BY <2>2, <2>9 DEF m, n, a, b
<1>3. ASSUME NEW k \in Klasser PROVE Returning(k)
  <2> SUFFICES ASSUME NEW v \in Desired(k), v.end # POSITIVE_INFINITY
               PROVE  /\ AtMidnight(StartOfDate(v.end - 1))
                      /\ Offset(StartOfDate(v.end - 1)) = Offset(v.end)
      BY DEF Returning
  <2>0. PICK t, u \in Timestamps(k) :
            \E x, y : v = Validity(TruncateTime(t), TruncateTime(u), x, y)
      BY DesiredHas
  <2>1. PICK x, y : v = Validity(TruncateTime(t), TruncateTime(u), x, y)
      BY <2>0
  <2> DEFINE b == v.end
  <2>2. b \in Dated /\ b - 1 \in Dated /\ AtMidnight(b)
      BY <1>1, <2>1, EndIsMidnight
  <2> HIDE DEF b
  <2>3. StartOfDate(b - 1) = b - DAY /\ AtMidnight(b - DAY) /\ b - DAY \in Calendar
      BY <2>2, StartWithoutChanges
  <2> QED BY <2>2, <2>3, DatedHas DEF b
<1>4. ASSUME LoopInv PROVE NoSyncLoop /\ SingleDaysIgnored
  <2>1. Steady(klasse) /\ Returning(klasse) /\ klasse \in Klasser
      BY <1>1, <1>3, <1>4 DEF LoopInv, Known
  <2>2. SingleDaysIgnored
      BY <1>2, <2>1 DEF SingleDaysIgnored
  <2>3. CASE status \in Synced
      BY <1>4, <2>1, <2>2, <2>3 DEF LoopInv, SteadyNoSyncLoop
  <2>4. CASE status \notin Synced
      BY <2>2, <2>4 DEF NoSyncLoop, Synced
  <2> QED BY <2>3, <2>4
<1> QED BY <1>4, LoopInvariant, PTL

=============================================================================
