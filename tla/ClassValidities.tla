-------------------------- MODULE ClassValidities ---------------------------
(***************************************************************************)
(* The conversions of models.py and the comparison in sync(): how a        *)
(* temporal FKK Klasse becomes the class validities MO should hold, what   *)
(* MO's day resolution makes of them, and whether a second sync() then     *)
(* finds anything left to do.                                              *)
(*                                                                         *)
(* An instant is an integer.  A datetime from FKK or MO is an instant with *)
(* the UTC offset in force at it, Offset(t), so that its wall clock reads  *)
(* t + Offset(t).  A list of FKK elements is a set of elements that carry  *)
(* their place in the list, so that equal ones count twice.  sync() is one *)
(* step here; its interleavings are the subject of module Sync.            *)
(***************************************************************************)
EXTENDS Integers, FiniteSets

CONSTANTS
    DAY,            \* timedelta(days=1)
    Offset(_),      \* UTC offset in Denmark
    KeepsOffset,    \* a datetime from MO keeps the UTC offset it was sent with,
                    \* rather than being given Denmark's time zone
    NEGATIVE_INFINITY, POSITIVE_INFINITY,
    Klasser,        \* the Klasser FKK may hold
    Changed,        \* those it may change a Klasse to
    NoParent,
    MaxChanges      \* bound on changes in FKK

Instants == NEGATIVE_INFINITY..(POSITIVE_INFINITY - 1)
Infinities == {NEGATIVE_INFINITY, POSITIVE_INFINITY}

\* The instants whose dates matter: those and some days around them.
Calendar == (NEGATIVE_INFINITY - 4 * DAY)..(POSITIVE_INFINITY + 2 * DAY)

ASSUME CalendarAssumption ==
    /\ DAY \in Nat \ {0}
    /\ NEGATIVE_INFINITY \in Int /\ POSITIVE_INFINITY \in Int
    /\ KeepsOffset \in BOOLEAN
    /\ \A t \in Calendar : Offset(t) \in Int

Spans(objects) == {<<o.fra, o.til>> : o \in objects}
Virkninger(k) == Spans(k.attribut_egenskab) \union Spans(k.tilstand_publiceret)
                     \union Spans(k.relation_overordnet)

ASSUME KlasseAssumption ==
    /\ \A k \in Klasser :
          /\ IsFiniteSet(k.relation_overordnet)
          /\ \A o \in k.tilstand_publiceret : o.value \in BOOLEAN
          /\ \A s \in Virkninger(k) :
                /\ s[1] \in NEGATIVE_INFINITY..POSITIVE_INFINITY
                /\ s[2] \in NEGATIVE_INFINITY..POSITIVE_INFINITY
                /\ s[1] < s[2]
    /\ Changed \subseteq Klasser
    /\ MaxChanges \in Nat

VARIABLES klasse, mo, status, changes
vars == <<klasse, mo, status, changes>>

-----------------------------------------------------------------------------
(* fkk_klasse_to_class_validities() *)

Timestamps(k) == {s[1] : s \in Virkninger(k)} \union {s[2] : s \in Virkninger(k)}

\* itertools.pairwise(sorted(timestamps))
Pairwise(T) ==
    {p \in T \X T : p[1] < p[2] /\ \A t \in T : t <= p[1] \/ p[2] <= t}

\* Mutant: only elements within the interval are taken.
FilterVirkning_Within(objects, p) ==
    {o \in objects : o.fra >= p[1] /\ o.til <= p[2]}

\* Mutant: an element that starts when the interval ends is taken as well.
FilterVirkning_Closed(objects, p) ==
    {o \in objects : o.fra <= p[2] /\ o.til > p[1]}

FilterVirkning(objects, p) == {o \in objects : o.fra < p[2] /\ o.til > p[1]}

One(S) == \E x \in S : S = {x}
TheValue(S) == (CHOOSE x \in S : TRUE).value

ErPubliceret(k, p) == TheValue(FilterVirkning(k.tilstand_publiceret, p))

\* one() of the published state and only() of the parent do not raise; the
\* error of one() on the attributes is caught.
Converts(k) ==
    \A p \in Pairwise(Timestamps(k)) :
        /\ One(FilterVirkning(k.tilstand_publiceret, p))
        /\ ErPubliceret(k, p) /\ One(FilterVirkning(k.attribut_egenskab, p))
           => Cardinality(FilterVirkning(k.relation_overordnet, p)) <= 1

ClassValidity(k, p) ==
    LET parents == FilterVirkning(k.relation_overordnet, p)
    IN  [start |-> p[1], end |-> p[2],
         attributes |-> TheValue(FilterVirkning(k.attribut_egenskab, p)),
         parent |-> IF parents = {} THEN NoParent ELSE TheValue(parents)]

ClassValidities(k) ==
    {ClassValidity(k, p) :
        p \in {p \in Pairwise(Timestamps(k)) :
                  /\ ErPubliceret(k, p)
                  /\ One(FilterVirkning(k.attribut_egenskab, p))}}

-----------------------------------------------------------------------------
(* with_validity_as_dates(), and what sync() keeps of the result. *)

\* Mutant: the time is rounded up instead of truncated.
TruncateTime_Up(t) ==
    IF t \in Infinities THEN t
    ELSE ((t + Offset(t) + DAY - 1) \div DAY) * DAY - Offset(t)

\* Midnight of the wall clock date, with the offset of the datetime itself.
TruncateTime(t) ==
    IF t \in Infinities THEN t ELSE ((t + Offset(t)) \div DAY) * DAY - Offset(t)

\* Mutant: the end is rounded up, so that the whole date is covered.
AsDates_Covering(v) == [v EXCEPT !.start = TruncateTime(@), !.end = TruncateTime_Up(@)]

AsDates(v) == [v EXCEPT !.start = TruncateTime(@), !.end = TruncateTime(@)]

\* Mutant: no validity is dropped.
LongerThanDay_All(v) == TRUE

LongerThanDay(v) == v.end - v.start > DAY

Desired(k) == {v \in {AsDates(v) : v \in ClassValidities(k)} : LongerThanDay(v)}

-----------------------------------------------------------------------------
(* MO, which keeps dates, and reads an end date one day early. *)

DayOf(t) == (t + Offset(t)) \div DAY

\* Dates never go back, the clocks are not put back to a midnight, and they are
\* changed by less than a day, and at most once within two days.
ASSUME DatesAssumption ==
    /\ \A x, y \in Calendar : x <= y => DayOf(x) <= DayOf(y)
    /\ \A x, y \in Calendar :
          y = x + 1 /\ y + Offset(y) = DayOf(y) * DAY => DayOf(x) < DayOf(y)
    /\ \A x, y \in Calendar : Offset(x) < Offset(y) + DAY
    /\ \A x, y, z \in Calendar :
          x <= y /\ y <= z /\ z <= x + 2 * DAY => Offset(y) \in {Offset(x), Offset(z)}

\* The instant at which the date of t begins.
StartOfDate(t) ==
    CHOOSE s \in (t - 2 * DAY)..t :
        DayOf(s) = DayOf(t) /\ \A x \in (s - DAY)..(s - 1) : DayOf(x) < DayOf(t)

StartOfDay(t) == IF t \in Infinities THEN t ELSE StartOfDate(t)

Stored(v) == [v EXCEPT !.start = StartOfDay(@), !.end = StartOfDay(@)]

\* The date before the end is the one that the instant before the end is on.
MORead(v) ==
    [v EXCEPT !.end = IF @ = POSITIVE_INFINITY THEN @ ELSE StartOfDate(@ - 1)]

-----------------------------------------------------------------------------
(* mo_class_read_to_class_validities() *)

AtMidnight(t) == t + Offset(t) = DayOf(t) * DAY

\* The assertion that an end has no time of the day.
Reads(validities) ==
    \A v \in validities : v.end # POSITIVE_INFINITY => AtMidnight(v.end)

\* timedelta(days=1) added to a datetime moves its wall clock by a day.  The wall
\* clock is that of the offset or of the zone the datetime has; a time that the
\* zone skips is taken with the offset before.
DayLater(t) ==
    LET later == {s \in t..(t + 2 * DAY) : s + Offset(s) = t + Offset(t) + DAY}
    IN  IF KeepsOffset \/ later = {} THEN t + DAY ELSE CHOOSE s \in later : TRUE

\* Mutant: 24 hours are added, whatever the day.
FixedValidity_Elapsed(v) ==
    [v EXCEPT !.end = IF @ = POSITIVE_INFINITY THEN @ ELSE @ + DAY]

FixedValidity(v) ==
    [v EXCEPT !.end = IF @ = POSITIVE_INFINITY THEN @ ELSE DayLater(@)]

Answer(validities) == {MORead(v) : v \in validities}
Actual(validities) == {FixedValidity(v) : v \in Answer(validities)}

-----------------------------------------------------------------------------
(* sync() as one step, for a class under the facet kle_number. *)

Init ==
    /\ klasse \in Klasser
    /\ mo = {}
    /\ status = "none"
    /\ changes = 0

Sync ==
    /\ UNCHANGED <<klasse, changes>>
    /\ \/ /\ ~Reads(Answer(mo)) \/ ~Converts(klasse)
          /\ status' = "error" /\ UNCHANGED mo
       \/ /\ Reads(Answer(mo)) /\ Converts(klasse)
          /\ Actual(mo) = Desired(klasse)
          /\ status' = "up_to_date" /\ UNCHANGED mo
       \/ /\ Reads(Answer(mo)) /\ Converts(klasse)
          /\ Desired(klasse) = {} /\ mo # {}
          /\ status' = "delete" /\ mo' = {}
       \/ /\ Reads(Answer(mo)) /\ Converts(klasse)
          /\ Actual(mo) # Desired(klasse) /\ Desired(klasse) # {}
          /\ status' = "create_or_update"
          /\ mo' = {Stored(v) : v \in Desired(klasse)}

FKKChange ==
    /\ changes < MaxChanges
    /\ klasse' \in Changed \ {klasse}
    /\ changes' = changes + 1
    /\ status' = "none"
    /\ UNCHANGED mo

Next == Sync \/ FKKChange

Spec == Init /\ [][Next]_vars

-----------------------------------------------------------------------------
(* Properties. *)

Covers(v, t) == v.start <= t /\ t < v.end
Says(v) == <<v.attributes, v.parent>>
ShownAt(validities, t) == {Says(v) : v \in {v \in validities : Covers(v, t)}}

\* The reference: what the Klasse says at an instant, from the elements in
\* force there, without timestamps or intervals.
InForce(objects, t) == {o \in objects : o.fra <= t /\ t < o.til}
PublishedAt(k, t) == \E o \in InForce(k.tilstand_publiceret, t) : o.value
KlasseAt(k, t) ==
    IF ~PublishedAt(k, t) \/ ~One(InForce(k.attribut_egenskab, t)) THEN {}
    ELSE {<<o.value, parent>> :
             o \in InForce(k.attribut_egenskab, t),
             parent \in IF InForce(k.relation_overordnet, t) = {} THEN {NoParent}
                        ELSE {r.value : r \in InForce(k.relation_overordnet, t)}}

\* Types of the variables.
TypeOK ==
    /\ \A s \in Virkninger(klasse) : s[1] \in Int /\ s[2] \in Int
    /\ changes \in 0..MaxChanges
    /\ status \in {"none", "error", "up_to_date", "delete", "create_or_update"}
    /\ \A v \in mo : v.start \in Int /\ v.end \in Int /\ v.start < v.end

\* Splitting at the timestamps loses and invents nothing: at every instant the
\* class validities say what the Klasse says (models.py:90-154).
SplitIsFaithful ==
    Converts(klasse) =>
        LET converted == ClassValidities(klasse)
        IN  \A t \in Instants : ShownAt(converted, t) = KlasseAt(klasse, t)

InSpan(k, t) ==
    (\E x \in Timestamps(k) : x <= t) /\ (\E x \in Timestamps(k) : t < x)

\* Not exactly one published state, or two parents where the Klasse says something.
Ambiguous(k, t) ==
    \/ ~One(InForce(k.tilstand_publiceret, t))
    \/ /\ PublishedAt(k, t) /\ One(InForce(k.attribut_egenskab, t))
       /\ Cardinality(InForce(k.relation_overordnet, t)) > 1

\* The conversion fails only on a Klasse that has, within its span, an instant
\* without exactly one published state, or with two parents (models.py:132,142).
FailsOnGapsOnly ==
    Converts(klasse) <=>
        ~\E t \in Instants : InSpan(klasse, t) /\ Ambiguous(klasse, t)

\* Nothing changes on a date after the clocks were changed on it: each time has
\* the offset of the midnight it is truncated to.
Steady(k) ==
    \A t \in Timestamps(k) \ Infinities :
        \A x \in TruncateTime(t)..t : Offset(x) = Offset(t)

\* No two validities that sync() writes overlap, so the arbitrary order of the
\* updates does not matter (events.py:137, models.py:95-98).
DesiredDisjoint ==
    Converts(klasse) /\ Steady(klasse) =>
        \A v, w \in Desired(klasse) : v = w \/ v.end <= w.start \/ w.end <= v.start

\* An instant, and the last one of its date.
Dates ==
    {d \in Instants \X Instants :
        d[1] <= d[2] /\ DayOf(d[1]) = DayOf(d[2]) /\ DayOf(d[2] + 1) > DayOf(d[2])}

\* MO shows on a date what the Klasse says at the end of that date, unless that
\* state is dropped for being a single day or less (events.py:76-89).
DayShowsItsEnd ==
    Converts(klasse) /\ Steady(klasse) =>
        LET desired == Desired(klasse)
            kept == {v \in ClassValidities(klasse) : LongerThanDay(AsDates(v))}
        IN  \A d \in Dates : ShownAt(desired, d[1]) = ShownAt(kept, d[2])

\* A sync() right after a successful one finds nothing to do, and does not raise
\* on what it reads: otherwise every write would cause the next one, through MO's
\* event (events.py:74-75, models.py:162-168, test_daylight_saving_dates).
NoSyncLoop ==
    status \in {"up_to_date", "delete", "create_or_update"}
        => Reads(Answer(mo)) /\ Actual(mo) = Desired(klasse)

\* The date before an end begins at midnight, so that MO's answer is one; and if
\* the answer keeps its offset, this is still the offset at the end.
Returning(k) ==
    \A v \in Desired(k) : v.end # POSITIVE_INFINITY =>
        LET returned == StartOfDate(v.end - 1)
        IN  /\ AtMidnight(returned)
            /\ KeepsOffset => Offset(returned) = Offset(v.end)

\* The same for a Klasse whose times are truncated to midnights, with ends from
\* which MO can subtract a date that adding a day makes good.
SteadyNoSyncLoop ==
    Converts(klasse) /\ Steady(klasse) /\ Returning(klasse) => NoSyncLoop

\* "MO does not support objects with a validity less than a day": a validity of
\* a single date is not written (events.py:78, test_ignore_single_day).
SingleDaysIgnored ==
    \A v \in Desired(klasse) :
        v.start \notin Infinities /\ v.end \notin Infinities
            => DayOf(v.end) - DayOf(v.start) > 1

=============================================================================
