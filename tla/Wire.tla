-------------------------------- MODULE Wire --------------------------------
(***************************************************************************)
(* From FKK's XML to MO's JSON and back: parse_klasse(), the inputs of     *)
(* class_create and class_update, and the reading of get_class.            *)
(*                                                                         *)
(* An element of the XML is a record of the elements below it.  A Klasse   *)
(* has one span here, so that it is one class validity at most, and its    *)
(* times are dates: ClassValidities has the conversion of the others.      *)
(* What this module adds is that infinity is an element in FKK, the object *)
(* NEGATIVE_INFINITY or POSITIVE_INFINITY in the program, which to_mo()    *)
(* tells by identity, and null in MO.                                      *)
(*                                                                         *)
(* What may raise is modelled by the set of what it returns, which is      *)
(* empty if it does.                                                       *)
(***************************************************************************)
EXTENDS Integers

CONSTANTS
    Klasser,
    Null       \* None, and null

Uuid == "uuid"
Facet == "facet"
NEGATIVE_INFINITY == -1000
POSITIVE_INFINITY == 1000
Infinities == {NEGATIVE_INFINITY, POSITIVE_INFINITY}

ASSUME WireAssumption ==
    /\ \A k \in Klasser :
          /\ k.fra \in NEGATIVE_INFINITY..(POSITIVE_INFINITY - 1)
          /\ k.til \in (NEGATIVE_INFINITY + 1)..POSITIVE_INFINITY
          /\ k.publiceret \in {"true", "false", "none"}
    /\ Null \notin Int

VARIABLES
    klasse,    \* what FKK holds
    document,  \* FKK's answer
    damaged,
    class,     \* validities of the class in MO
    status,    \* of the last sync()
    writes     \* since the Klasse was registered or its document damaged

vars == <<klasse, document, damaged, class, status, writes>>

-----------------------------------------------------------------------------
(* XML. *)

\* An element with a text; it may be missing, or empty, its text may be blank,
\* which is nothing but whitespace, or not be of the kind expected there.
Text(t, padded) == [state |-> "known", text |-> t, padded |-> padded]
Missing == [state |-> "missing", text |-> Null, padded |-> FALSE]

\* Mutant: the text is not stripped.
FindText_AsItIs(x) ==
    IF x.state \in {"missing", "empty"} THEN {}
    ELSE {[x EXCEPT !.state = IF x.padded THEN "unknown" ELSE @]}

\* _findtext(), which raises on an element without text and strips the text of
\* any other.
FindText(x) ==
    CASE x.state \in {"missing", "empty"} -> {}
      [] x.state = "blank" -> {[x EXCEPT !.text = ""]}
      [] OTHER -> {x}

\* What UUID(), BOOLEANS[] and fromisoformat() do not raise on.
Known(texts) == {t.text : t \in {t \in texts : t.state = "known"}}

\* How FKK writes times: a limit without whitespace.
Tidspunkt(t, padded) ==
    [there |-> TRUE,
     graense |-> IF t \in Infinities THEN Text("true", FALSE) ELSE Missing,
     stempel |-> IF t \in Infinities THEN Missing ELSE Text([iso |-> t], padded)]
Virkning(k, padded) ==
    [there |-> TRUE, fra |-> Tidspunkt(k.fra, padded), til |-> Tidspunkt(k.til, padded)]

\* A list has one element, or none.
Document(k, padded) ==
    [uuid |-> Text(Uuid, padded),
     registrering |-> TRUE,
     egenskab |-> {[virkning |-> Virkning(k, padded), noegle |-> Text(k.noegle, padded),
                    titel |-> Text(k.titel, padded)]},
     publiceret |-> IF k.publiceret = "none" THEN {}
                    ELSE {[virkning |-> Virkning(k, padded),
                           indikator |-> Text(k.publiceret, padded)]},
     overordnet |-> IF k.overordnet = Null THEN {}
                    ELSE {[virkning |-> Virkning(k, padded),
                           uuid |-> Text(k.overordnet, padded)]}]

\* One of the texts is missing, empty or blank, or is something else; one of
\* the elements above them is missing.  Whole elements of the lists never are:
\* findall() takes them for not being there.
LostText(x) ==
    IF x.state = "missing" THEN {}
    ELSE {[x EXCEPT !.state = s] : s \in {"missing", "empty", "blank"}}

BrokenText(x) ==
    LostText(x) \union
    IF x.state = "missing" THEN {} ELSE {[x EXCEPT !.state = "unknown"]}

\* The text of GraenseIndikator is not stripped.
BrokenGraense(x) ==
    BrokenText(x) \union
    IF x.state = "missing" THEN {} ELSE {[x EXCEPT !.text = "false"], [x EXCEPT !.padded = TRUE]}

BrokenTidspunkt(t) ==
    {[t EXCEPT !.there = FALSE]}
        \union {[t EXCEPT !.graense = x] : x \in BrokenGraense(t.graense)}
        \union {[t EXCEPT !.stempel = x] : x \in BrokenText(t.stempel)}

BrokenVirkning(v) ==
    {[v EXCEPT !.there = FALSE]}
        \union {[v EXCEPT !.fra = t] : t \in BrokenTidspunkt(v.fra)}
        \union {[v EXCEPT !.til = t] : t \in BrokenTidspunkt(v.til)}

BrokenEgenskab(e) ==
    {[e EXCEPT !.virkning = v] : v \in BrokenVirkning(e.virkning)}
        \union {[e EXCEPT !.noegle = x] : x \in LostText(e.noegle)}
        \union {[e EXCEPT !.titel = x] : x \in LostText(e.titel)}

BrokenPubliceret(e) ==
    {[e EXCEPT !.virkning = v] : v \in BrokenVirkning(e.virkning)}
        \union {[e EXCEPT !.indikator = x] : x \in BrokenText(e.indikator)}

BrokenOverordnet(e) ==
    {[e EXCEPT !.virkning = v] : v \in BrokenVirkning(e.virkning)}
        \union {[e EXCEPT !.uuid = x] : x \in BrokenText(e.uuid)}

BrokenDocument(d) ==
    {[d EXCEPT !.registrering = FALSE]}
        \union {[d EXCEPT !.uuid = x] : x \in BrokenText(d.uuid)}
        \union {[d EXCEPT !.egenskab = {x}] : x \in UNION {BrokenEgenskab(e) : e \in d.egenskab}}
        \union {[d EXCEPT !.publiceret = {x}] :
                    x \in UNION {BrokenPubliceret(e) : e \in d.publiceret}}
        \union {[d EXCEPT !.overordnet = {x}] :
                    x \in UNION {BrokenOverordnet(e) : e \in d.overordnet}}

-----------------------------------------------------------------------------
(* parse_klasse() *)

\* A datetime: the instant, and the constant that it is, if any.
Datetime(t, constant) == [at |-> t, is |-> constant]

FromIsoformat(texts) == {Datetime(s.iso, "other") : s \in Known(texts)}

\* Mutant: a time without GraenseIndikator true is taken for the limit.
ParseTidspunkt_Lenient(x, limit) ==
    IF FindText(x.stempel) # {} THEN FromIsoformat(FindText(x.stempel)) ELSE {limit}

\* Mutant: the limit is a datetime like any other.
ParseTidspunkt_Fresh(x, limit) ==
    IF x.graense.state = "missing" THEN FromIsoformat(FindText(x.stempel))
    ELSE {[limit EXCEPT !.is = "other"]}

ParseTidspunkt(x, limit) ==
    IF x.graense.state = "missing" THEN FromIsoformat(FindText(x.stempel))
    ELSE IF Known({x.graense}) = {"true"} /\ ~x.graense.padded THEN {limit}
    ELSE {}

ParseVirkning(x) ==
    IF ~x.there \/ ~x.fra.there \/ ~x.til.there THEN {}
    ELSE {[fra |-> fra, til |-> til] :
             fra \in ParseTidspunkt(x.fra, Datetime(NEGATIVE_INFINITY, "NEGATIVE_INFINITY")),
             til \in ParseTidspunkt(x.til, Datetime(POSITIVE_INFINITY, "POSITIVE_INFINITY"))}

ParseEgenskab(x) ==
    {[virkning |-> v, brugervendtnoegle |-> n.text, titel |-> t.text] :
        v \in ParseVirkning(x.virkning), n \in FindText(x.noegle), t \in FindText(x.titel)}

ParsePubliceret(x) ==
    {[virkning |-> v, er_publiceret |-> t = "true"] :
        v \in ParseVirkning(x.virkning), t \in Known(FindText(x.indikator))}

ParseOverordnet(x) ==
    {[virkning |-> v, uuid |-> u] :
        v \in ParseVirkning(x.virkning), u \in Known(FindText(x.uuid))}

ParseKlasse(x) ==
    IF \/ ~x.registrering
       \/ \E e \in x.egenskab : ParseEgenskab(e) = {}
       \/ \E e \in x.publiceret : ParsePubliceret(e) = {}
       \/ \E e \in x.overordnet : ParseOverordnet(e) = {}
    THEN {}
    ELSE {[uuid |-> u,
           attribut_egenskab |-> UNION {ParseEgenskab(e) : e \in x.egenskab},
           tilstand_publiceret |-> UNION {ParsePubliceret(e) : e \in x.publiceret},
           relation_overordnet |-> UNION {ParseOverordnet(e) : e \in x.overordnet}] :
              u \in Known(FindText(x.uuid))}

-----------------------------------------------------------------------------
(* Class validities, MO's input, and what MO answers. *)

\* truncate_time() returns the infinities themselves.
TruncateTime(d) ==
    IF d.at \in Infinities THEN d ELSE Datetime(d.at, "other")

\* fkk_klasse_to_class_validities() and with_validity_as_dates(), of one span.
Desired(k) ==
    {[facet |-> Facet, uuid |-> k.uuid, user_key |-> e.brugervendtnoegle, name |-> e.titel,
      start |-> TruncateTime(e.virkning.fra), end |-> TruncateTime(e.virkning.til),
      parent |-> IF k.relation_overordnet = {} THEN Null
                 ELSE (CHOOSE o \in k.relation_overordnet : TRUE).uuid] :
        e \in {e \in k.attribut_egenskab : \A p \in k.tilstand_publiceret : p.er_publiceret}}

ToMO(d, constant) == IF d.is = constant THEN Null ELSE d.at

FromMO(t, constant, infinity) ==
    IF t = Null THEN Datetime(infinity, constant) ELSE Datetime(t, "other")

\* Mutant: the name and the user key are confused.
Input_Confused(v) ==
    [facet_uuid |-> v.facet, uuid |-> v.uuid, user_key |-> v.name, name |-> v.user_key,
     parent_uuid |-> v.parent, from |-> ToMO(v.start, "NEGATIVE_INFINITY"),
     to |-> ToMO(v.end, "POSITIVE_INFINITY")]

\* class_validity_to_create_input(), class_validity_to_update_input() and the
\* JSON that is made of them; MO keeps all of it.
Input(v) ==
    [facet_uuid |-> v.facet, uuid |-> v.uuid, user_key |-> v.user_key, name |-> v.name,
     parent_uuid |-> v.parent, from |-> ToMO(v.start, "NEGATIVE_INFINITY"),
     to |-> ToMO(v.end, "POSITIVE_INFINITY")]

\* mo_class_read_to_class_validities() of what get_class answers.
ClassRead(c) ==
    [facet |-> c.facet_uuid, uuid |-> c.uuid, user_key |-> c.user_key, name |-> c.name,
     start |-> FromMO(c.from, "NEGATIVE_INFINITY", NEGATIVE_INFINITY),
     end |-> FromMO(c.to, "POSITIVE_INFINITY", POSITIVE_INFINITY),
     parent |-> c.parent_uuid]

\* Class validities are compared by value.
ByValue(v) == [v EXCEPT !.start = @.at, !.end = @.at]
SameValidities(V, W) == {ByValue(v) : v \in V} = {ByValue(w) : w \in W}

-----------------------------------------------------------------------------
Init ==
    /\ klasse \in Klasser
    /\ document = Document(klasse, FALSE)
    /\ damaged = FALSE
    /\ class = {}
    /\ status = "none"
    /\ writes = 0

Register(k) ==
    /\ k # klasse
    /\ klasse' = k
    /\ document' = Document(k, FALSE)
    /\ damaged' = FALSE
    /\ status' = "none"
    /\ writes' = 0
    /\ UNCHANGED class

\* FKK writes whitespace around its texts.
Pad ==
    /\ ~damaged
    /\ document' = Document(klasse, TRUE)
    /\ status' = "none"
    /\ UNCHANGED <<klasse, damaged, class, writes>>

\* A part of the document is not as it should be.
Garble ==
    /\ ~damaged
    /\ document' \in BrokenDocument(document)
    /\ damaged' = TRUE
    /\ status' = "none"
    /\ writes' = 0
    /\ UNCHANGED <<klasse, class>>

\* sync(), for a class that nobody else writes.
Sync ==
    /\ UNCHANGED <<klasse, document, damaged>>
    /\ \/ /\ ParseKlasse(document) = {}
          /\ status' = "raised" /\ UNCHANGED <<class, writes>>
       \/ \E k \in ParseKlasse(document) :
             \/ /\ k.tilstand_publiceret = {}    \* one() raises
                /\ status' = "raised" /\ UNCHANGED <<class, writes>>
             \/ /\ k.tilstand_publiceret # {}
                /\ SameValidities({ClassRead(c) : c \in class}, Desired(k))
                /\ status' = "up_to_date" /\ UNCHANGED <<class, writes>>
             \/ /\ k.tilstand_publiceret # {}
                /\ ~SameValidities({ClassRead(c) : c \in class}, Desired(k))
                /\ status' = "written" /\ class' = {Input(v) : v \in Desired(k)}
                /\ writes' = writes + 1

Next == (\E k \in Klasser : Register(k)) \/ Pad \/ Garble \/ Sync

Spec == Init /\ [][Next]_vars

-----------------------------------------------------------------------------
(* Properties. *)

\* What MO should hold for a Klasse.
Meant(k) ==
    IF k.publiceret # "true" THEN {}
    ELSE {[facet_uuid |-> Facet, uuid |-> Uuid, user_key |-> k.noegle, name |-> k.titel,
           parent_uuid |-> k.overordnet,
           from |-> IF k.fra = NEGATIVE_INFINITY THEN Null ELSE k.fra,
           to |-> IF k.til = POSITIVE_INFINITY THEN Null ELSE k.til]}

\* What a document that can be parsed says: a blank user key, or a blank title,
\* is read as the empty text.
Renamed(k, noegle, titel) ==
    [noegle |-> noegle, titel |-> titel, fra |-> k.fra, til |-> k.til,
     publiceret |-> k.publiceret, overordnet |-> k.overordnet]
Blanked(k) == {Renamed(k, "", k.titel), Renamed(k, k.noegle, "")}
Said == IF damaged THEN Blanked(klasse) ELSE {klasse}

\* Types, and that MO is never given an infinity that is not null.
TypeOK ==
    /\ klasse \in Klasser
    /\ damaged \in BOOLEAN
    /\ status \in {"none", "raised", "up_to_date", "written"}
    /\ writes \in Nat
    /\ \A c \in class :
          /\ c.from = Null \/ c.from \in Int \ Infinities
          /\ c.to = Null \/ c.to \in Int \ Infinities

\* Whatever is missing from the elements of a Klasse, sync() raises rather than
\* write, or delete, what the Klasse does not say; only a blank text passes, as
\* an empty user key or name and nothing else (klassifikation/models.py:22-27,
\* 68-138, models.py:41-54, 184-205).
NeverMisread ==
    status \in {"up_to_date", "written"} => \E k \in Said : class = Meant(k)

\* Every Klasse with a published state can be parsed, with whitespace around its
\* texts too (klassifikation/models.py:22-27).
RaisesOnDamageOnly == status = "raised" => damaged \/ klasse.publiceret = "none"

\* What was written is read back as it was meant: an answer of FKK is written
\* once, and not again with every event (models.py:41-54, 157-181).
WrittenOnce == writes <= 1

=============================================================================
