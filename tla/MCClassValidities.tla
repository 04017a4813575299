------------------------- MODULE MCClassValidities --------------------------
(***************************************************************************)
(* Klasser and calendars for model checking ClassValidities.               *)
(***************************************************************************)
EXTENDS ClassValidities

CONSTANTS
    Cuts,        \* the instants at which anything may change
    FineCuts,    \* more instants, at which attributes may change
    AutumnAt,    \* the instant at which summer time ends, 0 for never
    SpringAt     \* the instant at which it begins again

T0 == NEGATIVE_INFINITY
T1 == POSITIVE_INFINITY

\* Denmark: one tick ahead in winter, two in summer; no offset without a switch.
MCOffset(t) ==
    CASE AutumnAt = 0                   -> 0
      [] AutumnAt > 0 /\ AutumnAt <= t /\ t < SpringAt -> 1
      [] OTHER                          -> 2

El(fra, til, value) == [fra |-> fra, til |-> til, value |-> value, nr |-> 1]
Again(e) == [e EXCEPT !.nr = 2]
Twice(e) == {e, Again(e)}
Periods(C) == {s \in (C \union {T0, T1}) \X (C \union {T0, T1}) : s[1] < s[2]}

\* One published state, the same one twice, or an unpublished and a published one
\* that meet, overlap or leave a gap.
Published ==
    {{El(s[1], s[2], b)} : s \in Periods(Cuts), b \in BOOLEAN}
        \union {Twice(El(T0, b, TRUE)) : b \in Cuts \union {T1}}
        \union {{El(T0, a, FALSE), El(b, T1, TRUE)} : a \in Cuts, b \in Cuts}
        \union {{El(T0, a, TRUE), El(b, T1, FALSE)} : a \in Cuts, b \in Cuts}

Egenskaber(C) ==
    {{}} \union {{El(s[1], s[2], "x")} : s \in Periods(C)}
         \union {Twice(El(a, T1, "x")) : a \in C}
         \union {{El(s[1], s[2], "x"), El(a, T1, "y")} : s \in Periods(C), a \in C}

Parents ==
    {{}} \union {{El(a, T1, "p")} : a \in Cuts}
         \union {{El(a, T1, "p"), El(T0, b, "q")} : a \in Cuts, b \in Cuts}
         \union {Twice(El(T0, T1, "p"))}

KlasseOf(e, p, o) ==
    [attribut_egenskab |-> e, tilstand_publiceret |-> p, relation_overordnet |-> o]
Gone == KlasseOf({}, {}, {})

\* Always published, as KLE numbers mostly are, or gone.
SimpleKlasser ==
    {Gone} \union {KlasseOf(e, {El(T0, T1, TRUE)}, {}) : e \in Egenskaber(Cuts \union FineCuts)}

\* These, and every combination of attributes, published states and parents.
AllKlasser ==
    SimpleKlasser
        \union {KlasseOf(e, p, o) : e \in Egenskaber(Cuts), p \in Published, o \in Parents}

\* What FKK may change a Klasse to: it is deleted, or always the same.
FewKlasser == {Gone, KlasseOf({El(T0, T1, "x")}, {El(T0, T1, TRUE)}, {})}
=============================================================================
