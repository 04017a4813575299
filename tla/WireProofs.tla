----------------------------- MODULE WireProofs -----------------------------
(***************************************************************************)
(* What parse_klasse() and the conversions to and from MO's inputs keep,   *)
(* for any Klasser: a document that is as FKK writes it is read as what    *)
(* was registered, one with a broken part is not read at all unless only a *)
(* text without meaning to the program is blank, and what is written to MO *)
(* is read back.                                                           *)
(***************************************************************************)
EXTENDS Wire, TLAPS

(* What an unbroken document says. *)

Instant(t, limit) == IF t \in Infinities THEN limit ELSE Datetime(t, "other")

Span(k) ==
    [fra |-> Instant(k.fra, Datetime(NEGATIVE_INFINITY, "NEGATIVE_INFINITY")),
     til |-> Instant(k.til, Datetime(POSITIVE_INFINITY, "POSITIVE_INFINITY"))]

Egenskab(k) == [virkning |-> Span(k), brugervendtnoegle |-> k.noegle, titel |-> k.titel]
Publiceret(k) == [virkning |-> Span(k), er_publiceret |-> k.publiceret = "true"]
Overordnet(k) == [virkning |-> Span(k), uuid |-> k.overordnet]

Parsed(k) ==
    [uuid |-> Uuid, attribut_egenskab |-> {Egenskab(k)},
     tilstand_publiceret |-> IF k.publiceret = "none" THEN {} ELSE {Publiceret(k)},
     relation_overordnet |-> IF k.overordnet = Null THEN {} ELSE {Overordnet(k)}]

LEMMA TextRead ==
    ASSUME NEW t, NEW padded
    PROVE  FindText(Text(t, padded)) = {Text(t, padded)} /\ Known({Text(t, padded)}) = {t}
  <1> DEFINE x == Text(t, padded)
  <1>1. x.state = "known" /\ x.text = t
    BY DEF Text
  <1> HIDE DEF x
  <1>2. FindText(x) = {x}
    BY <1>1 DEF FindText
  <1>3. Known({x}) = {t}
    BY <1>1 DEF Known
  <1> QED
    BY <1>2, <1>3 DEF x

LEMMA UuidRead ==
    ASSUME NEW padded
    PROVE  Known(FindText(Text(Uuid, padded))) = {Uuid}
  <1>1. FindText(Text(Uuid, padded)) = {Text(Uuid, padded)}
    BY TextRead
  <1>2. Known({Text(Uuid, padded)}) = {Uuid}
    BY TextRead
  <1> QED
    BY <1>1, <1>2

LEMMA TidspunktRead ==
    ASSUME NEW t, NEW padded, NEW limit
    PROVE  ParseTidspunkt(Tidspunkt(t, padded), limit) = {Instant(t, limit)}
  <1>1. CASE t \in Infinities
    <2>1. Tidspunkt(t, padded).graense = Text("true", FALSE)
      BY <1>1 DEF Tidspunkt
    <2>2. Text("true", FALSE).state # "missing" /\ ~Text("true", FALSE).padded
      BY DEF Text
    <2> QED
      BY <1>1, <2>1, <2>2, TextRead DEF ParseTidspunkt, Instant
  <1>2. CASE t \notin Infinities
    <2>1. /\ Tidspunkt(t, padded).graense.state = "missing"
          /\ Tidspunkt(t, padded).stempel = Text([iso |-> t], padded)
      BY <1>2 DEF Tidspunkt, Missing
    <2>2. FromIsoformat({Text([iso |-> t], padded)}) = {Datetime(t, "other")}
      BY TextRead DEF FromIsoformat
    <2> QED
      BY <1>2, <2>1, <2>2, TextRead DEF ParseTidspunkt, Instant
  <1> QED
    BY <1>1, <1>2

LEMMA VirkningRead ==
    ASSUME NEW k, NEW padded
    PROVE  ParseVirkning(Virkning(k, padded)) = {Span(k)}
  <1>1. /\ Virkning(k, padded).there
        /\ Virkning(k, padded).fra = Tidspunkt(k.fra, padded)
        /\ Virkning(k, padded).til = Tidspunkt(k.til, padded)
        /\ Tidspunkt(k.fra, padded).there /\ Tidspunkt(k.til, padded).there
    BY DEF Virkning, Tidspunkt
  <1> QED
    BY <1>1, TidspunktRead DEF ParseVirkning, Span

\* The elements of a document, as Document() has them.
ElementE(k, padded) ==
    [virkning |-> Virkning(k, padded), noegle |-> Text(k.noegle, padded),
     titel |-> Text(k.titel, padded)]
ElementP(k, padded) ==
    [virkning |-> Virkning(k, padded), indikator |-> Text(k.publiceret, padded)]
ElementO(k, padded) ==
    [virkning |-> Virkning(k, padded), uuid |-> Text(k.overordnet, padded)]
ListP(k, padded) == IF k.publiceret = "none" THEN {} ELSE {ElementP(k, padded)}
ListO(k, padded) == IF k.overordnet = Null THEN {} ELSE {ElementO(k, padded)}

LEMMA DocumentIs ==
    ASSUME NEW k, NEW padded, NEW d, d = Document(k, padded)
    PROVE  /\ d.uuid = Text(Uuid, padded) /\ d.registrering
           /\ d.egenskab = {ElementE(k, padded)}
           /\ d.publiceret = ListP(k, padded) /\ d.overordnet = ListO(k, padded)
  BY DEF Document, ElementE, ElementP, ElementO, ListP, ListO

LEMMA EgenskabRead ==
    ASSUME NEW y, NEW v, NEW n, NEW t,
           ParseVirkning(y.virkning) = {v}, FindText(y.noegle) = {n}, FindText(y.titel) = {t}
    PROVE  ParseEgenskab(y) =
               {[virkning |-> v, brugervendtnoegle |-> n.text, titel |-> t.text]}
  BY DEF ParseEgenskab

LEMMA ElementsRead ==
    ASSUME NEW k, NEW padded
    PROVE  /\ ParseEgenskab(ElementE(k, padded)) = {Egenskab(k)}
           /\ ParsePubliceret(ElementP(k, padded)) = {Publiceret(k)}
           /\ ParseOverordnet(ElementO(k, padded)) = {Overordnet(k)}
  <1> DEFINE e == ElementE(k, padded)
             p == ElementP(k, padded)
             o == ElementO(k, padded)
  <1>1. ParseEgenskab(e) = {Egenskab(k)}
    <2>1. Text(k.noegle, padded).text = k.noegle /\ Text(k.titel, padded).text = k.titel
      BY DEF Text
    <2>2. /\ ParseVirkning(e.virkning) = {Span(k)}
          /\ FindText(e.noegle) = {Text(k.noegle, padded)}
          /\ FindText(e.titel) = {Text(k.titel, padded)}
      BY VirkningRead, TextRead DEF ElementE
    <2> HIDE DEF e
    <2> QED
      BY <2>1, <2>2 DEF ParseEgenskab, Egenskab
  <1>2. ParsePubliceret(p) = {Publiceret(k)}
    <2>1. ParseVirkning(p.virkning) = {Span(k)} /\ Known(FindText(p.indikator)) = {k.publiceret}
      BY VirkningRead, TextRead DEF ElementP
    <2> HIDE DEF p
    <2> QED
      BY <2>1 DEF ParsePubliceret, Publiceret
  <1>3. ParseOverordnet(o) = {Overordnet(k)}
    <2>1. ParseVirkning(o.virkning) = {Span(k)} /\ Known(FindText(o.uuid)) = {k.overordnet}
      BY VirkningRead, TextRead DEF ElementO
    <2> HIDE DEF o
    <2> QED
      BY <2>1 DEF ParseOverordnet, Overordnet
  <1> QED
    BY <1>1, <1>2, <1>3

\* A document whose Egenskab is read as that of a Klasse r, and which is
\* otherwise that of k, says r, if r differs from k in its texts only.
LEMMA ReadWith ==
    ASSUME NEW k, NEW r, NEW padded, NEW d, NEW e,
           r.fra = k.fra, r.til = k.til, r.publiceret = k.publiceret,
           r.overordnet = k.overordnet,
           d.uuid = Text(Uuid, padded), d.registrering, d.egenskab = {e},
           ParseEgenskab(e) = {Egenskab(r)},
           d.publiceret = ListP(k, padded), d.overordnet = ListO(k, padded)
    PROVE  ParseKlasse(d) = {Parsed(r)}
  <1> DEFINE p == ElementP(k, padded)
             o == ElementO(k, padded)
  <1>1. Publiceret(r) = Publiceret(k) /\ Overordnet(r) = Overordnet(k)
    BY DEF Publiceret, Overordnet, Span
  <1>2. ParsePubliceret(p) = {Publiceret(r)} /\ ParseOverordnet(o) = {Overordnet(r)}
    BY <1>1, ElementsRead
  <1> HIDE DEF p, o
  <1>3. /\ UNION {ParseEgenskab(x) : x \in d.egenskab} = {Egenskab(r)}
        /\ UNION {ParsePubliceret(x) : x \in d.publiceret} =
               (IF r.publiceret = "none" THEN {} ELSE {Publiceret(r)})
        /\ UNION {ParseOverordnet(x) : x \in d.overordnet} =
               (IF r.overordnet = Null THEN {} ELSE {Overordnet(r)})
    BY <1>2 DEF ListP, ListO, p, o
  <1>4. /\ ~\E x \in d.egenskab : ParseEgenskab(x) = {}
        /\ ~\E x \in d.publiceret : ParsePubliceret(x) = {}
        /\ ~\E x \in d.overordnet : ParseOverordnet(x) = {}
    BY <1>2 DEF ListP, ListO, p, o
  <1>5. Known(FindText(d.uuid)) = {Uuid}
    BY UuidRead
  <1> QED
    BY <1>3, <1>4, <1>5 DEF ParseKlasse, Parsed

LEMMA DocumentRead ==
    ASSUME NEW k, NEW padded
    PROVE  ParseKlasse(Document(k, padded)) = {Parsed(k)}
  <1> DEFINE d == Document(k, padded)
             e == ElementE(k, padded)
  <1>1. /\ d.uuid = Text(Uuid, padded) /\ d.registrering /\ d.egenskab = {e}
        /\ d.publiceret = ListP(k, padded) /\ d.overordnet = ListO(k, padded)
        /\ ParseEgenskab(e) = {Egenskab(k)}
    BY DocumentIs, ElementsRead
  <1> HIDE DEF d, e
  <1>2. ParseKlasse(d) = {Parsed(k)}
    BY <1>1, ReadWith
  <1> QED
    BY <1>2 DEF d

-----------------------------------------------------------------------------
(* A document with a broken part is not read, or only a blank text is. *)

LEMMA BrokenTextUnread ==
    ASSUME NEW t, NEW padded, NEW x \in BrokenText(Text(t, padded))
    PROVE  Known(FindText(x)) = {}
  <1>1. x.state \in {"missing", "empty", "unknown"} \/ x.state = "blank"
    BY DEF BrokenText, LostText, Text
  <1>2. CASE x.state \in {"missing", "empty", "unknown"}
    BY <1>2 DEF FindText, Known
  <1>3. CASE x.state = "blank"
    <2> DEFINE y == [x EXCEPT !.text = ""]
    <2>1. x.state = "blank" /\ y.state = "blank"
      BY <1>3 DEF BrokenText, LostText, Text
    <2> HIDE DEF y
    <2>2. FindText(x) = {y}
      BY <2>1 DEF FindText, y
    <2> QED
      BY <2>1, <2>2 DEF Known
  <1> QED
    BY <1>1, <1>2, <1>3

\* A text that any text would do for is lost, or read as the empty one.
LEMMA LostTextRead ==
    ASSUME NEW t, NEW padded, NEW x \in LostText(Text(t, padded))
    PROVE  FindText(x) = {} \/ \E y : FindText(x) = {y} /\ y.text = ""
  <1>1. x.state \in {"missing", "empty", "blank"}
    BY DEF LostText, Text
  <1>2. CASE x.state \in {"missing", "empty"}
    BY <1>2 DEF FindText
  <1>3. CASE x.state = "blank"
    <2> DEFINE y == [x EXCEPT !.text = ""]
    <2>1. y.text = ""
      BY DEF LostText, Text
    <2>2. FindText(x) = {y}
      BY <1>3 DEF FindText
    <2> QED
      BY <2>1, <2>2
  <1> QED
    BY <1>1, <1>2, <1>3

LEMMA BrokenTidspunktUnread ==
    ASSUME NEW t, NEW padded, NEW x \in BrokenTidspunkt(Tidspunkt(t, padded)), NEW limit
    PROVE  ~x.there \/ ParseTidspunkt(x, limit) = {}
  <1> DEFINE w == Tidspunkt(t, padded)
  <1>1. CASE x = [w EXCEPT !.there = FALSE]
    BY <1>1 DEF Tidspunkt
  <1>2. ASSUME NEW g \in BrokenGraense(w.graense), x = [w EXCEPT !.graense = g]
        PROVE  ParseTidspunkt(x, limit) = {}
    <2>1. x.graense = g /\ x.stempel = w.stempel
      BY <1>2 DEF Tidspunkt
    <2>2. CASE t \in Infinities
      <3>1. w.graense = Text("true", FALSE) /\ w.stempel = Missing
        BY <2>2 DEF Tidspunkt
      <3>2. \/ g.state \in {"missing", "empty", "blank", "unknown"}
            \/ g.state = "known" /\ g.text = "false"
            \/ g.state = "known" /\ g.padded
        BY <1>2, <3>1 DEF BrokenGraense, BrokenText, LostText, Text
      <3>3. FromIsoformat(FindText(Missing)) = {}
        BY DEF FromIsoformat, FindText, Missing, Known
      <3>4. CASE g.state = "missing"
        BY <2>1, <3>1, <3>3, <3>4 DEF ParseTidspunkt
      <3>5. CASE g.state \in {"empty", "blank", "unknown"}
        <4>1. Known({g}) = {}
          BY <3>5 DEF Known
        <4> QED
          BY <2>1, <3>5, <4>1 DEF ParseTidspunkt
      <3>6. CASE g.state = "known" /\ g.text = "false"
        <4>1. Known({g}) = {"false"}
          BY <3>6 DEF Known
        <4> QED
          BY <2>1, <3>6, <4>1 DEF ParseTidspunkt
      <3>7. CASE g.state = "known" /\ g.padded
        BY <2>1, <3>7 DEF ParseTidspunkt
      <3> QED
        BY <3>2, <3>4, <3>5, <3>6, <3>7
    <2>3. CASE t \notin Infinities
      <3>1. w.graense.state = "missing"
        BY <2>3 DEF Tidspunkt, Missing
      <3> QED
        BY <1>2, <3>1 DEF BrokenGraense, BrokenText, LostText
    <2> QED
      BY <2>2, <2>3
  <1>3. ASSUME NEW s \in BrokenText(w.stempel), x = [w EXCEPT !.stempel = s]
        PROVE  ParseTidspunkt(x, limit) = {}
    <2>1. x.graense = w.graense /\ x.stempel = s
      BY <1>3 DEF Tidspunkt
    <2>2. CASE t \in Infinities
      <3>1. w.stempel.state = "missing"
        BY <2>2 DEF Tidspunkt, Missing
      <3> QED
        BY <1>3, <3>1 DEF BrokenText, LostText
    <2>3. CASE t \notin Infinities
      <3>1. w.graense.state = "missing" /\ w.stempel = Text([iso |-> t], padded)
        BY <2>3 DEF Tidspunkt, Missing
      <3>2. Known(FindText(s)) = {}
        BY <1>3, <3>1, BrokenTextUnread
      <3> QED
        BY <2>1, <3>1, <3>2 DEF ParseTidspunkt, FromIsoformat
    <2> QED
      BY <2>2, <2>3
  <1> QED
    BY <1>1, <1>2, <1>3 DEF BrokenTidspunkt

LEMMA BrokenVirkningUnread ==
    ASSUME NEW k, NEW padded, NEW x \in BrokenVirkning(Virkning(k, padded))
    PROVE  ParseVirkning(x) = {}
  <1> DEFINE w == Virkning(k, padded)
  <1>1. CASE x = [w EXCEPT !.there = FALSE]
    BY <1>1 DEF ParseVirkning, Virkning
  <1>2. ASSUME NEW t \in BrokenTidspunkt(w.fra), x = [w EXCEPT !.fra = t]
        PROVE  ParseVirkning(x) = {}
    <2>1. x.fra = t /\ w.fra = Tidspunkt(k.fra, padded)
      BY <1>2 DEF Virkning
    <2> QED
      BY <1>2, <2>1, BrokenTidspunktUnread DEF ParseVirkning
  <1>3. ASSUME NEW t \in BrokenTidspunkt(w.til), x = [w EXCEPT !.til = t]
        PROVE  ParseVirkning(x) = {}
    <2>1. x.til = t /\ w.til = Tidspunkt(k.til, padded)
      BY <1>3 DEF Virkning
    <2> QED
      BY <1>3, <2>1, BrokenTidspunktUnread DEF ParseVirkning
  <1> QED
    BY <1>1, <1>2, <1>3 DEF BrokenVirkning

LEMMA BlankedIs ==
    ASSUME NEW k, NEW r \in Blanked(k)
    PROVE  /\ r.fra = k.fra /\ r.til = k.til /\ r.publiceret = k.publiceret
           /\ r.overordnet = k.overordnet
  <1>1. ASSUME NEW n, NEW t
        PROVE  /\ Renamed(k, n, t).fra = k.fra /\ Renamed(k, n, t).til = k.til
               /\ Renamed(k, n, t).publiceret = k.publiceret
               /\ Renamed(k, n, t).overordnet = k.overordnet
    BY DEF Renamed
  <1>2. PICK n, t : r = Renamed(k, n, t)
    BY DEF Blanked
  <1> QED
    BY <1>1, <1>2

LEMMA BrokenEgenskabRead ==
    ASSUME NEW k, NEW padded, NEW y \in BrokenEgenskab(ElementE(k, padded))
    PROVE  ParseEgenskab(y) = {} \/ \E r \in Blanked(k) : ParseEgenskab(y) = {Egenskab(r)}
  <1> DEFINE e == ElementE(k, padded)
  <1>1. /\ e.virkning = Virkning(k, padded)
        /\ e.noegle = Text(k.noegle, padded) /\ e.titel = Text(k.titel, padded)
    BY DEF ElementE
  <1>2. ASSUME NEW n, NEW t PROVE Span(Renamed(k, n, t)) = Span(k)
    BY DEF Renamed, Span
  <1>3. ASSUME NEW v \in BrokenVirkning(Virkning(k, padded)), y.virkning = v
        PROVE  ParseEgenskab(y) = {}
    BY <1>3, BrokenVirkningUnread DEF ParseEgenskab
  <1>4. ASSUME NEW x \in LostText(Text(k.noegle, padded)), y.virkning = Virkning(k, padded),
               y.noegle = x, y.titel = Text(k.titel, padded)
        PROVE  ParseEgenskab(y) = {} \/ ParseEgenskab(y) = {Egenskab(Renamed(k, "", k.titel))}
    <2>1. CASE FindText(x) = {}
      BY <1>4, <2>1 DEF ParseEgenskab
    <2>2. ASSUME NEW z, FindText(x) = {z}, z.text = ""
          PROVE  ParseEgenskab(y) = {Egenskab(Renamed(k, "", k.titel))}
      <3>1. ParseVirkning(y.virkning) = {Span(k)}
        <4>1. ParseVirkning(Virkning(k, padded)) = {Span(k)}
          BY VirkningRead
        <4> QED
          BY <1>4, <4>1
      <3>2. FindText(y.titel) = {Text(k.titel, padded)}
        <4>1. FindText(Text(k.titel, padded)) = {Text(k.titel, padded)}
          BY TextRead
        <4> QED
          BY <1>4, <4>1
      <3>3. FindText(y.noegle) = {z}
        BY <1>4, <2>2
      <3>4. ParseEgenskab(y) = {[virkning |-> Span(k), brugervendtnoegle |-> z.text,
                                 titel |-> Text(k.titel, padded).text]}
        BY <3>1, <3>2, <3>3, EgenskabRead
      <3>5. Text(k.titel, padded).text = k.titel
        BY DEF Text
      <3>6. ParseEgenskab(y) = {[virkning |-> Span(k), brugervendtnoegle |-> "",
                                 titel |-> k.titel]}
        BY <2>2, <3>4, <3>5
      <3> QED
        BY <1>2, <3>6 DEF Egenskab, Renamed
    <2> QED
      BY <2>1, <2>2, LostTextRead
  <1>5. ASSUME NEW x \in LostText(Text(k.titel, padded)), y.virkning = Virkning(k, padded),
               y.titel = x, y.noegle = Text(k.noegle, padded)
        PROVE  ParseEgenskab(y) = {} \/ ParseEgenskab(y) = {Egenskab(Renamed(k, k.noegle, ""))}
    <2>1. CASE FindText(x) = {}
      BY <1>5, <2>1 DEF ParseEgenskab
    <2>2. ASSUME NEW z, FindText(x) = {z}, z.text = ""
          PROVE  ParseEgenskab(y) = {Egenskab(Renamed(k, k.noegle, ""))}
      <3>1. ParseVirkning(y.virkning) = {Span(k)}
        <4>1. ParseVirkning(Virkning(k, padded)) = {Span(k)}
          BY VirkningRead
        <4> QED
          BY <1>5, <4>1
      <3>2. FindText(y.noegle) = {Text(k.noegle, padded)}
        <4>1. FindText(Text(k.noegle, padded)) = {Text(k.noegle, padded)}
          BY TextRead
        <4> QED
          BY <1>5, <4>1
      <3>3. FindText(y.titel) = {z}
        BY <1>5, <2>2
      <3>4. ParseEgenskab(y) = {[virkning |-> Span(k),
                                 brugervendtnoegle |-> Text(k.noegle, padded).text,
                                 titel |-> z.text]}
        BY <3>1, <3>2, <3>3, EgenskabRead
      <3>5. Text(k.noegle, padded).text = k.noegle
        BY DEF Text
      <3>6. ParseEgenskab(y) = {[virkning |-> Span(k), brugervendtnoegle |-> k.noegle,
                                 titel |-> ""]}
        BY <2>2, <3>4, <3>5
      <3> QED
        BY <1>2, <3>6 DEF Egenskab, Renamed
    <2> QED
      BY <2>1, <2>2, LostTextRead
  <1>6. \/ \E v \in BrokenVirkning(Virkning(k, padded)) : y.virkning = v
        \/ \E x \in LostText(Text(k.noegle, padded)) :
              /\ y.virkning = Virkning(k, padded) /\ y.noegle = x
              /\ y.titel = Text(k.titel, padded)
        \/ \E x \in LostText(Text(k.titel, padded)) :
              /\ y.virkning = Virkning(k, padded) /\ y.titel = x
              /\ y.noegle = Text(k.noegle, padded)
    BY DEF BrokenEgenskab, ElementE
  <1> QED
    BY <1>3, <1>4, <1>5, <1>6 DEF Blanked

LEMMA BrokenRead ==
    ASSUME NEW k, NEW padded, NEW x \in BrokenDocument(Document(k, padded))
    PROVE  ParseKlasse(x) = {} \/ \E r \in Blanked(k) : ParseKlasse(x) = {Parsed(r)}
  <1> DEFINE d == Document(k, padded)
             v == Virkning(k, padded)
             e == ElementE(k, padded)
             p == ElementP(k, padded)
             o == ElementO(k, padded)
  <1>1. /\ d.uuid = Text(Uuid, padded) /\ d.registrering /\ d.egenskab = {e}
        /\ d.publiceret = ListP(k, padded) /\ d.overordnet = ListO(k, padded)
    BY DocumentIs
  <1>2. CASE x = [d EXCEPT !.registrering = FALSE]
    BY <1>2 DEF ParseKlasse, Document
  <1>3. ASSUME NEW u \in BrokenText(d.uuid), x = [d EXCEPT !.uuid = u]
        PROVE  ParseKlasse(x) = {}
    <2>1. x.uuid = u
      BY <1>3 DEF Document
    <2>2. Known(FindText(u)) = {}
      BY <1>1, <1>3, BrokenTextUnread
    <2> QED
      BY <2>1, <2>2 DEF ParseKlasse
  <1>4. ASSUME NEW y \in BrokenEgenskab(e), x = [d EXCEPT !.egenskab = {y}]
        PROVE  ParseKlasse(x) = {} \/ \E r \in Blanked(k) : ParseKlasse(x) = {Parsed(r)}
    <2>1. /\ x.egenskab = {y} /\ x.uuid = d.uuid /\ x.registrering = d.registrering
          /\ x.publiceret = d.publiceret /\ x.overordnet = d.overordnet
      BY <1>4 DEF Document
    <2>2. CASE ParseEgenskab(y) = {}
      BY <2>1, <2>2 DEF ParseKlasse
    <2>3. ASSUME NEW r \in Blanked(k), ParseEgenskab(y) = {Egenskab(r)}
          PROVE  ParseKlasse(x) = {Parsed(r)}
      <3>1. /\ r.fra = k.fra /\ r.til = k.til /\ r.publiceret = k.publiceret
            /\ r.overordnet = k.overordnet
        BY BlankedIs
      <3> HIDE DEF d, e, p, o
      <3>2. /\ x.uuid = Text(Uuid, padded) /\ x.registrering
            /\ x.publiceret = ListP(k, padded) /\ x.overordnet = ListO(k, padded)
        BY <1>1, <2>1
      <3> QED
        BY <2>1, <2>3, <3>1, <3>2, ReadWith
    <2> QED
      BY <1>4, <2>2, <2>3, BrokenEgenskabRead
  <1>5. ASSUME NEW y \in BrokenPubliceret(p), x = [d EXCEPT !.publiceret = {y}]
        PROVE  ParseKlasse(x) = {}
    <2>1. x.publiceret = {y}
      BY <1>5 DEF Document
    <2>2. ParsePubliceret(y) = {}
      <3>1. CASE \E b \in BrokenVirkning(v) : y.virkning = b
        BY <3>1, BrokenVirkningUnread DEF ParsePubliceret
      <3>2. CASE \E b \in BrokenText(Text(k.publiceret, padded)) : y.indikator = b
        BY <3>2, BrokenTextUnread DEF ParsePubliceret
      <3> HIDE DEF v
      <3> QED
        BY <1>5, <3>1, <3>2 DEF BrokenPubliceret, ElementP, v
    <2> QED
      BY <2>1, <2>2 DEF ParseKlasse
  <1>6. ASSUME NEW y \in BrokenOverordnet(o), x = [d EXCEPT !.overordnet = {y}]
        PROVE  ParseKlasse(x) = {}
    <2>1. x.overordnet = {y}
      BY <1>6 DEF Document
    <2>2. ParseOverordnet(y) = {}
      <3>1. CASE \E b \in BrokenVirkning(v) : y.virkning = b
        BY <3>1, BrokenVirkningUnread DEF ParseOverordnet
      <3>2. CASE \E b \in BrokenText(Text(k.overordnet, padded)) : y.uuid = b
        BY <3>2, BrokenTextUnread DEF ParseOverordnet
      <3> HIDE DEF v
      <3> QED
        BY <1>6, <3>1, <3>2 DEF BrokenOverordnet, ElementO, v
    <2> QED
      BY <2>1, <2>2 DEF ParseKlasse
  <1> HIDE DEF d, e, p, o
  <1> QED
    BY <1>1, <1>2, <1>3, <1>4, <1>5, <1>6 DEF BrokenDocument, ListP, ListO, d, p, o

-----------------------------------------------------------------------------
(* What is written is read back. *)

\* Klasser, and what they are read as with a blank text.
Readable == Klasser \union UNION {Blanked(k) : k \in Klasser}

\* The one class validity of a Klasse.
Wanted(k) ==
    [facet |-> Facet, uuid |-> Uuid, user_key |-> k.noegle, name |-> k.titel,
     start |-> Span(k).fra, end |-> Span(k).til, parent |-> k.overordnet]

\* What MO stores of it.
Stored(k) ==
    [facet_uuid |-> Facet, uuid |-> Uuid, user_key |-> k.noegle, name |-> k.titel,
     parent_uuid |-> k.overordnet,
     from |-> IF k.fra = NEGATIVE_INFINITY THEN Null ELSE k.fra,
     to |-> IF k.til = POSITIVE_INFINITY THEN Null ELSE k.til]

LEMMA TimesOf ==
    ASSUME NEW k \in Readable
    PROVE  /\ k.fra \in Int /\ k.fra # POSITIVE_INFINITY
           /\ k.til \in Int /\ k.til # NEGATIVE_INFINITY
  <1>1. PICK l \in Klasser : k.fra = l.fra /\ k.til = l.til
    BY BlankedIs DEF Readable
  <1>2. /\ l.fra \in NEGATIVE_INFINITY..(POSITIVE_INFINITY - 1)
        /\ l.til \in (NEGATIVE_INFINITY + 1)..POSITIVE_INFINITY
    BY WireAssumption
  <1>3. NEGATIVE_INFINITY \in Int /\ POSITIVE_INFINITY \in Int
    BY DEF NEGATIVE_INFINITY, POSITIVE_INFINITY
  <1> QED
    BY <1>1, <1>2, <1>3

LEMMA SpanIs ==
    ASSUME NEW k \in Readable
    PROVE  /\ Span(k).fra = Datetime(k.fra, IF k.fra = NEGATIVE_INFINITY
                                            THEN "NEGATIVE_INFINITY" ELSE "other")
           /\ Span(k).til = Datetime(k.til, IF k.til = POSITIVE_INFINITY
                                            THEN "POSITIVE_INFINITY" ELSE "other")
           /\ TruncateTime(Span(k).fra) = Span(k).fra
           /\ TruncateTime(Span(k).til) = Span(k).til
  <1>1. /\ k.fra \in Int /\ k.fra # POSITIVE_INFINITY
        /\ k.til \in Int /\ k.til # NEGATIVE_INFINITY
    BY TimesOf
  <1>2. Span(k).fra = Datetime(k.fra, IF k.fra = NEGATIVE_INFINITY
                                      THEN "NEGATIVE_INFINITY" ELSE "other")
    BY <1>1 DEF Span, Instant, Infinities
  <1>3. Span(k).til = Datetime(k.til, IF k.til = POSITIVE_INFINITY
                                      THEN "POSITIVE_INFINITY" ELSE "other")
    BY <1>1 DEF Span, Instant, Infinities
  <1>4. TruncateTime(Span(k).fra) = Span(k).fra
    BY <1>1, <1>2 DEF TruncateTime, Datetime, Infinities
  <1>5. TruncateTime(Span(k).til) = Span(k).til
    BY <1>1, <1>3 DEF TruncateTime, Datetime, Infinities
  <1> QED
    BY <1>2, <1>3, <1>4, <1>5

LEMMA DesiredIs ==
    ASSUME NEW k \in Readable, k.publiceret # "none"
    PROVE  Desired(Parsed(k)) = IF k.publiceret = "true" THEN {Wanted(k)} ELSE {}
  <1> DEFINE q == Parsed(k)
             parent == IF q.relation_overordnet = {} THEN Null
                       ELSE (CHOOSE o \in q.relation_overordnet : TRUE).uuid
  <1>1. /\ q.uuid = Uuid /\ q.attribut_egenskab = {Egenskab(k)}
        /\ q.tilstand_publiceret = {Publiceret(k)}
        /\ q.relation_overordnet = IF k.overordnet = Null THEN {} ELSE {Overordnet(k)}
    BY DEF Parsed
  <1> HIDE DEF q
  <1>2. parent = k.overordnet
    <2>1. CASE k.overordnet = Null
      BY <1>1, <2>1
    <2>2. CASE k.overordnet # Null
      <3>1. (CHOOSE o \in {Overordnet(k)} : TRUE) = Overordnet(k)
        OBVIOUS
      <3>2. Overordnet(k).uuid = k.overordnet
        BY DEF Overordnet
      <3> QED
        BY <1>1, <2>2, <3>1, <3>2
    <2> QED
      BY <2>1, <2>2
  <1> HIDE DEF parent
  <1>3. Publiceret(k).er_publiceret <=> k.publiceret = "true"
    BY DEF Publiceret
  <1> DEFINE E == {e \in q.attribut_egenskab : \A p \in q.tilstand_publiceret : p.er_publiceret}
  <1>4. E = IF k.publiceret = "true" THEN {Egenskab(k)} ELSE {}
    BY <1>1, <1>3
  <1>5. Desired(q) =
            {[facet |-> Facet, uuid |-> q.uuid, user_key |-> e.brugervendtnoegle,
              name |-> e.titel, start |-> TruncateTime(e.virkning.fra),
              end |-> TruncateTime(e.virkning.til), parent |-> parent] : e \in E}
    BY DEF Desired, parent
  <1>6. /\ Egenskab(k).brugervendtnoegle = k.noegle /\ Egenskab(k).titel = k.titel
        /\ Egenskab(k).virkning = Span(k)
    BY DEF Egenskab
  <1> HIDE DEF E
  <1> QED
    BY <1>1, <1>2, <1>4, <1>5, <1>6, SpanIs DEF Wanted, q

LEMMA MOOf ==
    ASSUME NEW t, NEW c
    PROVE  /\ ToMO(Datetime(t, c), c) = Null
           /\ c # "other" => ToMO(Datetime(t, "other"), c) = t
  BY DEF ToMO, Datetime

LEMMA InputIs ==
    ASSUME NEW k \in Readable
    PROVE  Input(Wanted(k)) = Stored(k)
  <1>1. ToMO(Span(k).fra, "NEGATIVE_INFINITY") =
            IF k.fra = NEGATIVE_INFINITY THEN Null ELSE k.fra
    <2>1. CASE k.fra = NEGATIVE_INFINITY
      <3>1. Span(k).fra = Datetime(k.fra, "NEGATIVE_INFINITY")
        BY <2>1, SpanIs
      <3> QED
        BY <2>1, <3>1, MOOf
    <2>2. CASE k.fra # NEGATIVE_INFINITY
      <3>1. Span(k).fra = Datetime(k.fra, "other")
        BY <2>2, SpanIs
      <3> QED
        BY <2>2, <3>1, MOOf
    <2> QED
      BY <2>1, <2>2
  <1>2. ToMO(Span(k).til, "POSITIVE_INFINITY") =
            IF k.til = POSITIVE_INFINITY THEN Null ELSE k.til
    <2>1. CASE k.til = POSITIVE_INFINITY
      <3>1. Span(k).til = Datetime(k.til, "POSITIVE_INFINITY")
        BY <2>1, SpanIs
      <3> QED
        BY <2>1, <3>1, MOOf
    <2>2. CASE k.til # POSITIVE_INFINITY
      <3>1. Span(k).til = Datetime(k.til, "other")
        BY <2>2, SpanIs
      <3> QED
        BY <2>2, <3>1, MOOf
    <2> QED
      BY <2>1, <2>2
  <1> QED
    BY <1>1, <1>2 DEF Input, Wanted, Stored

\* A class validity by value.
Plain(k) ==
    [facet |-> Facet, uuid |-> Uuid, user_key |-> k.noegle, name |-> k.titel,
     start |-> k.fra, end |-> k.til, parent |-> k.overordnet]

LEMMA ValidityIs ==
    ASSUME NEW f, NEW u, NEW n, NEW t, NEW a, NEW b, NEW p,
           NEW v \in [facet : {f}, uuid : {u}, user_key : {n}, name : {t},
                      start : {a}, end : {b}, parent : {p}]
    PROVE  v = [facet |-> f, uuid |-> u, user_key |-> n, name |-> t,
                start |-> a, end |-> b, parent |-> p]
  OBVIOUS

LEMMA ByValueIs ==
    ASSUME NEW f, NEW u, NEW n, NEW t, NEW a, NEW b, NEW p, NEW c, NEW d
    PROVE  ByValue([facet |-> f, uuid |-> u, user_key |-> n, name |-> t,
                    start |-> Datetime(a, c), end |-> Datetime(b, d), parent |-> p]) =
           [facet |-> f, uuid |-> u, user_key |-> n, name |-> t,
            start |-> a, end |-> b, parent |-> p]
  <1> DEFINE v == [facet |-> f, uuid |-> u, user_key |-> n, name |-> t,
                   start |-> Datetime(a, c), end |-> Datetime(b, d), parent |-> p]
             w == [v EXCEPT !.start = a, !.end = b]
  <1>1. v.start.at = a /\ v.end.at = b
    BY DEF Datetime
  <1>2. w \in
            [facet : {f}, uuid : {u}, user_key : {n}, name : {t},
             start : {a}, end : {b}, parent : {p}]
    OBVIOUS
  <1> HIDE DEF v, w
  <1>3. w = [facet |-> f, uuid |-> u, user_key |-> n, name |-> t,
             start |-> a, end |-> b, parent |-> p]
    BY <1>2, ValidityIs
  <1>4. ByValue(v) = w
    BY <1>1 DEF ByValue, w
  <1> QED
    BY <1>3, <1>4 DEF v

LEMMA ReadBack ==
    ASSUME NEW k \in Readable
    PROVE  ByValue(Wanted(k)) = Plain(k) /\ ByValue(ClassRead(Stored(k))) = Plain(k)
  <1>1. ByValue(Wanted(k)) = Plain(k)
    BY SpanIs, ByValueIs DEF Wanted, Plain
  <1>2. k.fra # Null /\ k.til # Null
    BY TimesOf, WireAssumption
  <1>3. PICK c : FromMO(IF k.fra = NEGATIVE_INFINITY THEN Null ELSE k.fra,
                        "NEGATIVE_INFINITY", NEGATIVE_INFINITY) = Datetime(k.fra, c)
    BY <1>2 DEF FromMO
  <1>4. PICK d : FromMO(IF k.til = POSITIVE_INFINITY THEN Null ELSE k.til,
                        "POSITIVE_INFINITY", POSITIVE_INFINITY) = Datetime(k.til, d)
    BY <1>2 DEF FromMO
  <1>5. ClassRead(Stored(k)) =
            [facet |-> Facet, uuid |-> Uuid, user_key |-> k.noegle, name |-> k.titel,
             start |-> Datetime(k.fra, c), end |-> Datetime(k.til, d),
             parent |-> k.overordnet]
    BY <1>3, <1>4 DEF ClassRead, Stored
  <1>6. ByValue(ClassRead(Stored(k))) = Plain(k)
    BY <1>5, ByValueIs DEF Plain
  <1> QED
    BY <1>1, <1>6

LEMMA PlainTells ==
    ASSUME NEW k \in Readable, NEW l \in Readable, Plain(k) = Plain(l)
    PROVE  Stored(k) = Stored(l)
  <1>1. /\ Plain(k).user_key = k.noegle /\ Plain(k).name = k.titel
        /\ Plain(k).start = k.fra /\ Plain(k).end = k.til /\ Plain(k).parent = k.overordnet
        /\ Plain(l).user_key = l.noegle /\ Plain(l).name = l.titel
        /\ Plain(l).start = l.fra /\ Plain(l).end = l.til /\ Plain(l).parent = l.overordnet
    BY DEF Plain
  <1> QED
    BY <1>1 DEF Stored

\* The comparison in sync() tells whether MO holds what is meant.
LEMMA Compared ==
    ASSUME NEW k \in Readable, NEW l \in Readable, k.publiceret # "none"
    PROVE  /\ SameValidities({ClassRead(c) : c \in Meant(l)}, Desired(Parsed(k)))
              <=> Meant(l) = Meant(k)
           /\ {Input(v) : v \in Desired(Parsed(k))} = Meant(k)
  <1>1. /\ Meant(l) = IF l.publiceret = "true" THEN {Stored(l)} ELSE {}
        /\ Meant(k) = IF k.publiceret = "true" THEN {Stored(k)} ELSE {}
    BY DEF Meant, Stored
  <1>2. {ByValue(v) : v \in {ClassRead(c) : c \in Meant(l)}} =
            IF l.publiceret = "true" THEN {Plain(l)} ELSE {}
    BY <1>1, ReadBack
  <1>3. {ByValue(v) : v \in Desired(Parsed(k))} =
            IF k.publiceret = "true" THEN {Plain(k)} ELSE {}
    BY DesiredIs, ReadBack
  <1>4. Plain(k) = Plain(l) <=> Stored(k) = Stored(l)
    <2>1. ASSUME Stored(k) = Stored(l) PROVE Plain(k) = Plain(l)
      BY <2>1, ReadBack
    <2> QED
      BY <2>1, PlainTells
  <1>5. SameValidities({ClassRead(c) : c \in Meant(l)}, Desired(Parsed(k)))
        <=> Meant(l) = Meant(k)
    BY <1>1, <1>2, <1>3, <1>4 DEF SameValidities
  <1>6. {Input(v) : v \in Desired(Parsed(k))} = Meant(k)
    BY <1>1, DesiredIs, InputIs
  <1> QED
    BY <1>5, <1>6

-----------------------------------------------------------------------------
(* The inductive invariant. *)

AsWritten(d, k) == d = Document(k, FALSE) \/ d = Document(k, TRUE)

\* The document is read as k.
Says(k) == k \in Said /\ ParseKlasse(document) = {Parsed(k)}

\* MO holds what the document says.
Matches == \E k \in Said : Says(k) /\ class = Meant(k)

\* Unless it is damaged, the document is as FKK writes it; otherwise it cannot
\* be parsed, or one text is blank.  MO holds what was meant for some Klasse,
\* and if it was written since the document changed, for the one it says.
WInv ==
    /\ klasse \in Klasser
    /\ damaged \in BOOLEAN
    /\ status \in {"none", "raised", "up_to_date", "written"}
    /\ writes \in 0..1
    /\ ~damaged => AsWritten(document, klasse)
    /\ damaged => ParseKlasse(document) = {} \/ \E k \in Said : Says(k)
    /\ class = {} \/ \E k \in Readable : class = Meant(k)
    /\ writes = 1 \/ status \in {"up_to_date", "written"} => Matches
    /\ status = "raised" => damaged \/ klasse.publiceret = "none"

LEMMA EmptyCompared ==
    ASSUME NEW k \in Readable, k.publiceret # "none"
    PROVE  SameValidities({ClassRead(c) : c \in {}}, Desired(Parsed(k)))
              <=> Meant(k) = {}
  <1>1. Meant(k) = {} <=> k.publiceret # "true"
    BY DEF Meant
  <1>2. Desired(Parsed(k)) = {} <=> k.publiceret # "true"
    BY DesiredIs
  <1> QED
    BY <1>1, <1>2 DEF SameValidities

LEMMA SaidIsReadable ==
    ASSUME NEW q \in Klasser, NEW k \in {q} \union Blanked(q)
    PROVE  k \in Readable /\ k.publiceret = q.publiceret
  BY BlankedIs DEF Readable

\* A step of sync(): it raises, or MO holds what the document says.
LEMMA SyncStep ==
    ASSUME WInv, Sync
    PROVE  \/ /\ status' = "raised" /\ UNCHANGED <<class, writes>>
              /\ damaged \/ klasse.publiceret = "none"
           \/ /\ status' = "up_to_date" /\ UNCHANGED <<class, writes>>
              /\ Matches'
           \/ status' = "written" /\ writes' = 1 /\ Matches'
  <1> /\ klasse' = klasse /\ document' = document /\ damaged' = damaged
      /\ Said' = Said
    BY DEF Sync, Said
  <1>1. CASE ParseKlasse(document) = {}
    <2>1. status' = "raised" /\ UNCHANGED <<class, writes>>
      BY <1>1 DEF Sync
    <2>2. damaged
      BY <1>1, DocumentRead DEF WInv, AsWritten
    <2> QED
      BY <2>1, <2>2
  <1>2. CASE ParseKlasse(document) # {}
    <2>1. PICK k \in Said : Says(k)
      BY <1>2, DocumentRead DEF WInv, AsWritten, Says, Said
    <2>2. /\ k \in Readable /\ k.publiceret = klasse.publiceret
          /\ ParseKlasse(document) = {Parsed(k)}
      BY <2>1, SaidIsReadable DEF WInv, Says, Said
    <2>3. Parsed(k).tilstand_publiceret = {} <=> k.publiceret = "none"
      BY DEF Parsed
    <2>4. CASE k.publiceret = "none"
      <3>1. status' = "raised" /\ UNCHANGED <<class, writes>>
        BY <2>2, <2>3, <2>4 DEF Sync
      <3> QED
        BY <2>2, <2>4, <3>1
    <2>5. CASE k.publiceret # "none"
      <3> DEFINE same == SameValidities({ClassRead(c) : c \in class}, Desired(Parsed(k)))
      <3>1. \/ same /\ status' = "up_to_date" /\ UNCHANGED <<class, writes>>
            \/ /\ ~same /\ status' = "written" /\ writes' = writes + 1
               /\ class' = {Input(v) : v \in Desired(Parsed(k))}
        BY <2>2, <2>3, <2>5 DEF Sync
      <3>2. same <=> class = Meant(k)
        <4>1. CASE class = {}
          BY <2>2, <2>5, <4>1, EmptyCompared
        <4>2. ASSUME NEW l \in Readable, class = Meant(l) PROVE same <=> class = Meant(k)
          BY <2>2, <2>5, <4>2, Compared
        <4> QED
          BY <4>1, <4>2 DEF WInv
      <3> HIDE DEF same
      <3>3. {Input(v) : v \in Desired(Parsed(k))} = Meant(k)
        BY <2>2, <2>5, Compared
      <3>4. ~same => writes = 0
        <4> SUFFICES ASSUME writes = 1 PROVE same
          BY DEF WInv
        <4>1. PICK l \in Said : Says(l) /\ class = Meant(l)
          BY DEF WInv, Matches
        <4>2. /\ l \in Readable /\ l.publiceret # "none" /\ Parsed(l) = Parsed(k)
          BY <2>2, <2>5, <4>1, SaidIsReadable DEF WInv, Says, Said
        <4>3. Meant(l) = Meant(k)
          BY <3>3, <4>2, Compared
        <4> QED
          BY <3>2, <4>1, <4>3
      <3>5. class' = Meant(k) => Matches'
        BY <2>1 DEF Matches, Says
      <3> QED
        BY <3>1, <3>2, <3>3, <3>4, <3>5
    <2> QED
      BY <2>4, <2>5
  <1> QED
    BY <1>1, <1>2

LEMMA WireInvariant == Spec => []WInv
  <1>1. Init => WInv
    <2> SUFFICES ASSUME Init PROVE WInv
      OBVIOUS
    <2>1. AsWritten(document, klasse)
      BY Zenon DEF Init, AsWritten
    <2>2. klasse \in Klasser /\ class = {} /\ status = "none" /\ writes = 0
      BY DEF Init
    <2>3. damaged \in BOOLEAN /\ ~damaged
      BY Zenon DEF Init
    <2> QED
      BY <2>1, <2>2, <2>3 DEF WInv
  <1>2. WInv /\ [Next]_vars => WInv'
    <2> SUFFICES ASSUME WInv, [Next]_vars PROVE WInv'
      OBVIOUS
    <2>1. ASSUME NEW k \in Klasser, Register(k) PROVE WInv'
      <3>1. AsWritten(document', klasse')
        BY <2>1, Zenon DEF Register, AsWritten
      <3>2. klasse' = k /\ class' = class /\ status' = "none" /\ writes' = 0
        BY <2>1 DEF Register
      <3>3. damaged' \in BOOLEAN /\ ~damaged'
        BY <2>1, Zenon DEF Register
      <3> QED
        BY <3>1, <3>2, <3>3 DEF WInv
    <2>2. CASE Pad
      <3>1. AsWritten(document', klasse')
        BY <2>2, Zenon DEF Pad, AsWritten
      <3>2. /\ ~damaged /\ status' = "none"
            /\ UNCHANGED <<klasse, damaged, class, writes>>
        BY <2>2 DEF Pad
      <3>3. klasse \in Klasser /\ damaged' \in BOOLEAN /\ ~damaged'
        BY <3>2 DEF WInv
      <3>4. writes' = 1 => Matches'
        <4> SUFFICES ASSUME writes = 1 PROVE Matches'
          BY <3>2
        <4>1. klasse \in Said' /\ class' = Meant(klasse)
          BY <3>2 DEF WInv, Matches, Said, Says
        <4>2. ParseKlasse(document') = {Parsed(klasse)}
          BY <3>1, <3>2, DocumentRead DEF AsWritten
        <4> QED
          BY <4>1, <4>2 DEF Matches, Says
      <3> QED
        BY <3>1, <3>2, <3>3, <3>4 DEF WInv
    <2>3. CASE Garble
      <3>1. /\ damaged' /\ klasse' = klasse /\ class' = class /\ status' = "none"
            /\ writes' = 0
        BY <2>3 DEF Garble
      <3>2. \/ ParseKlasse(document') = {}
            \/ \E k \in Blanked(klasse) : ParseKlasse(document') = {Parsed(k)}
        <4>1. PICK padded : document = Document(klasse, padded)
          BY <2>3 DEF Garble, WInv, AsWritten
        <4>2. document' \in BrokenDocument(Document(klasse, padded))
          BY <2>3, <4>1 DEF Garble
        <4> QED
          BY <4>2, BrokenRead
      <3>3. Said' = Blanked(klasse)
        BY <3>1 DEF Said
      <3>4. ParseKlasse(document') = {} \/ \E k \in Said' : Says(k)'
        BY <3>2, <3>3 DEF Says
      <3>5. damaged' \in BOOLEAN
        BY <2>3, Zenon DEF Garble
      <3>6. klasse' \in Klasser /\ (class' = {} \/ \E k \in Readable : class' = Meant(k))
        BY <3>1 DEF WInv
      <3> QED
        BY <3>1, <3>4, <3>5, <3>6 DEF WInv
    <2>4. CASE Sync
      <3>1. /\ klasse' = klasse /\ document' = document /\ damaged' = damaged
        BY <2>4 DEF Sync
      <3>2. /\ ~damaged' => AsWritten(document', klasse')
            /\ damaged' => ParseKlasse(document') = {} \/ \E k \in Said' : Says(k)'
            /\ klasse' \in Klasser /\ damaged' \in BOOLEAN
        BY <3>1 DEF WInv, Said, Says
      <3>3. CASE /\ status' = "raised" /\ UNCHANGED <<class, writes>>
                 /\ damaged \/ klasse.publiceret = "none"
        <4>1. writes' = 1 => Matches'
          BY <3>1, <3>3 DEF WInv, Matches, Says, Said
        <4> QED
          BY <3>1, <3>2, <3>3, <4>1 DEF WInv
      <3>4. CASE status' = "up_to_date" /\ UNCHANGED <<class, writes>> /\ Matches'
        BY <3>1, <3>2, <3>4 DEF WInv
      <3>5. CASE status' = "written" /\ writes' = 1 /\ Matches'
        <4>1. \E k \in Readable : class' = Meant(k)
          BY <3>1, <3>2, <3>5, SaidIsReadable DEF Matches, Said
        <4> QED
          BY <3>1, <3>2, <3>5, <4>1 DEF WInv
      <3> QED
        BY <2>4, <3>3, <3>4, <3>5, SyncStep
    <2>5. CASE UNCHANGED vars
      BY <2>5 DEF vars, WInv, Matches, Says, Said
    <2> QED
      BY <2>1, <2>2, <2>3, <2>4, <2>5 DEF Next
  <1> QED
    BY <1>1, <1>2, PTL DEF Spec

\* MO is never given an infinity that is not null (models.py:49-54), for any
\* Klasser.
THEOREM WireTypeCorrect == Spec => []TypeOK
  <1>1. ASSUME NEW k \in Readable, NEW c \in Meant(k)
        PROVE  /\ c.from = Null \/ c.from \in Int \ Infinities
               /\ c.to = Null \/ c.to \in Int \ Infinities
    <2>1. /\ k.fra \in Int /\ k.fra # POSITIVE_INFINITY
          /\ k.til \in Int /\ k.til # NEGATIVE_INFINITY
      BY TimesOf
    <2>2. /\ c.from = IF k.fra = NEGATIVE_INFINITY THEN Null ELSE k.fra
          /\ c.to = IF k.til = POSITIVE_INFINITY THEN Null ELSE k.til
      BY DEF Meant
    <2> QED
      BY <2>1, <2>2 DEF Infinities
  <1>2. WInv => TypeOK
    BY <1>1 DEF WInv, TypeOK
  <1> QED
    BY <1>2, WireInvariant, PTL

\* Whatever part of a document is missing, empty or not as expected: MO is not
\* written, and a class is not deleted, on account of it, save that a blank user
\* key or title is an empty one (klassifikation/models.py:22-27, 68-138).
THEOREM NothingMisread == Spec => []NeverMisread
  <1>1. WInv => NeverMisread
    BY DEF WInv, NeverMisread, Matches
  <1> QED
    BY <1>1, WireInvariant, PTL

\* A document as FKK writes it is parsed, with and without whitespace around the
\* texts (klassifikation/models.py:22-27).
THEOREM DamageAloneRaises == Spec => []RaisesOnDamageOnly
  <1>1. WInv => RaisesOnDamageOnly
    BY DEF WInv, RaisesOnDamageOnly
  <1> QED
    BY <1>1, WireInvariant, PTL

\* What to_mo() makes of a validity is what from_mo() makes it of again, by the
\* comparison of sync(): one write per Klasse (models.py:41-54, 157-181).
THEOREM OneWrite == Spec => []WrittenOnce
  <1>1. WInv => WrittenOnce
    BY DEF WInv, WrittenOnce
  <1> QED
    BY <1>1, WireInvariant, PTL

=============================================================================
