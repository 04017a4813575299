------------------------------- MODULE MCSync -------------------------------
(***************************************************************************)
(* Values for model checking Sync: a Klasse is absent, has one validity    *)
(* over two days, or one for each day, raises, or is not read back as it   *)
(* was written; users delete a class, make it longer, move it to another   *)
(* facet, or give it an end that sync() cannot convert.                    *)
(***************************************************************************)
EXTENDS Sync

CONSTANTS KleFacet, OtherFacet, A, B, Gap

MCFacets == {KleFacet, OtherFacet}
MCAttributes == {A, B}

Valid(facet, start, end, attributes) ==
    [facet |-> facet, start |-> start, end |-> end, attributes |-> attributes]
ClassOf(validities) == [exists |-> TRUE, validities |-> validities]

\* A day is lost of one validity.
Drifting == Valid(KleFacet, 2, 4, A)
MCStored(v) == IF v = Drifting THEN [v EXCEPT !.end = 3] ELSE v

FewKlasser ==
    {{},
     {Drifting},
     {Valid(KleFacet, 1, 2, A), Valid(KleFacet, 2, 3, B)}}
MCKlasser == FewKlasser \union {{Valid(KleFacet, 1, 3, A)}}

\* A Klasse with a gap in its published state.
MCFaulty == {Gap}

MCUnreadable == {Valid(KleFacet, 2, 4, B)}

\* A class in another facet, one under kle_number that reaches further than any
\* Klasse, an unreadable one, and a deleted one.
FewEdited ==
    {ClassOf({Valid(OtherFacet, 1, 3, A)}),
     ClassOf({Valid(KleFacet, 1, 4, B)}),
     ClassOf(MCUnreadable)}
MCEdited == FewEdited \union {NoClass}
=============================================================================
