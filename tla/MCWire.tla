------------------------------- MODULE MCWire -------------------------------
(***************************************************************************)
(* Klasser with every combination of bounded and unbounded spans, with and *)
(* without a parent, published, not published and without such a state.    *)
(***************************************************************************)
EXTENDS Wire

MCKlasser ==
    [noegle : {"85"}, titel : {"title"}, fra : {-1000, 1}, til : {2, 1000},
     publiceret : {"true", "false", "none"}, overordnet : {"parent", Null}]
=============================================================================
