--------------------------- MODULE AnswersProofs ----------------------------
(***************************************************************************)
(* Answers implements Remote, for any Klasser and objects.  The invariant: *)
(* an answer on its way is one that the service may give to something it   *)
(* held since it was asked.                                                *)
(***************************************************************************)
EXTENDS Answers, FiniteSetTheorems, TLAPS

\* The calls to come are calls of the job.
Pending ==
    /\ todo \in Seq(Services)
    /\ job = "none" => todo = <<>>
    /\ job # "none" =>
          /\ Len(todo) <= Len(Calls[job])
          /\ \A i \in DOMAIN todo : todo[i] \in CallsOf(job)

\* What the service has held is something it may hold, and its answer is about it.
Witnessed ==
    stage # "idle" =>
        /\ todo # <<>>
        /\ store[Head(todo)] \in seen
        /\ \A x \in seen : x \in Contents(Head(todo))
        /\ stage = "answered" => \E x \in seen : answer \in Arriving(Head(todo), x)

Shape ==
    /\ store = [s \in Services |-> store[s]]
    /\ got = [s \in Services |-> got[s]]
    /\ stage = "idle" => seen = {}
    /\ got["klasse"] = Malformed => todo = <<>>

AnswersInv == TypeOK /\ Pending /\ Witnessed /\ Shape

\* The calls of a job are services, and GET raw makes one.
LEMMA CallsAreServices ==
    ASSUME NEW j \in Jobs
    PROVE  /\ Calls[j] \in Seq(Services)
           /\ CallsOf(j) \subseteq Services
           /\ \A i \in DOMAIN Calls[j] : Calls[j][i] \in CallsOf(j)
           /\ j = "raw" => Len(Calls[j]) = 1
<1>1. CASE j = "raw" \/ j = "parsed"
    <2>1. Calls[j] = <<"klasse">>
        BY <1>1 DEF Calls
    <2> QED BY <2>1 DEF CallsOf, Services
<1>2. CASE j = "mo"
    <2>1. Calls[j] = <<"klasse", "facet">>
        BY <1>2 DEF Calls
    <2> QED BY <2>1, <1>2 DEF CallsOf, Services
<1>3. CASE j = "sync"
    <2>1. Calls[j] = <<"klasse", "class", "facet">>
        BY <1>3 DEF Calls
    <2> QED BY <2>1, <1>3 DEF CallsOf, Services
<1>4. CASE j = "poll"
    <2>1. Calls[j] = <<"search">>
        BY <1>4 DEF Calls
    <2> QED BY <2>1, <1>4 DEF CallsOf, Services
<1> QED BY <1>1, <1>2, <1>3, <1>4 DEF Jobs, Calls

\* The first of the calls to come is one of the job, and the others remain so.
LEMMA FirstCall ==
    ASSUME Pending, job \in Jobs, todo # <<>>
    PROVE  /\ Head(todo) \in CallsOf(job) /\ Head(todo) \in Services
           /\ Tail(todo) \in Seq(Services)
           /\ Len(Tail(todo)) = Len(todo) - 1
           /\ \A i \in DOMAIN Tail(todo) : Tail(todo)[i] \in CallsOf(job)
<1>1. "none" \notin Jobs
    BY DEF Jobs, Calls
<1>2. todo \in Seq(Services) /\ \A i \in DOMAIN todo : todo[i] \in CallsOf(job)
    BY <1>1 DEF Pending
<1>3. 1 \in DOMAIN todo /\ Head(todo) = todo[1]
    BY <1>2
<1>4. \A i \in DOMAIN Tail(todo) : i + 1 \in DOMAIN todo /\ Tail(todo)[i] = todo[i + 1]
    BY <1>2
<1> QED BY <1>2, <1>3, <1>4

\* A sole element is one of the set, and what the set means.
LEMMA SoleIsMeant ==
    ASSUME NEW s \in {"class", "facet"}, NEW x \in SUBSET Objects, NEW empty,
           s = "class" => empty = Value(Absent),
           s = "facet" => empty.raised # "no",
           Sole(x, empty).raised = "no"
    PROVE  /\ Sole(x, empty).value = Means(s, x)
           /\ Means(s, x) \in Objects \union {Absent}
<1>1. CASE x = {}
    <2>1. Cardinality({}) = 0
        BY FS_EmptySet
    <2>2. Sole(x, empty) = empty
        BY <1>1, <2>1 DEF Sole
    <2>3. s = "class"
        BY <2>2
    <2>4. Means(s, x) = Absent
        BY <1>1, <2>1, <2>3 DEF Means
    <2> QED BY <2>2, <2>3, <2>4 DEF Value
<1>2. CASE x # {} /\ Cardinality(x) = 1
    <2>1. Sole(x, empty) = Value(CHOOSE y \in x : TRUE)
        BY <1>2 DEF Sole
    <2>2. Means(s, x) = (CHOOSE y \in x : TRUE)
        BY <1>2 DEF Means
    <2>3. (CHOOSE y \in x : TRUE) \in Objects
        BY <1>2
    <2> QED BY <2>1, <2>2, <2>3 DEF Value
<1>3. CASE x # {} /\ Cardinality(x) # 1
    BY <1>3 DEF Sole, Raised
<1> QED BY <1>1, <1>2, <1>3

\* A read of FKK that does not raise.
LEMMA KlasseIsMeant ==
    ASSUME NEW x \in Contents("klasse"), NEW a \in Arriving("klasse", x),
           ReadRaw(a).raised = "no"
    PROVE  /\ ReadRaw(a).value \in {x, Malformed}
           /\ Means("klasse", x) = x
<1>1. Means("klasse", x) = x
    BY DEF Means
<1>2. /\ a.status \in {FKKAnswer("klasse", x).status, Other, Missing}
      /\ a.content \in {x, Malformed}
    BY DEF Arriving, FKKBroken, FKKAnswer
<1>3. a.status = "44" => x = Absent
    BY <1>2 DEF FKKAnswer, Other, Missing
<1>4. \/ a.status = "44" /\ ReadRaw(a).value = Absent
      \/ ReadRaw(a).value = a.content
    BY DEF ReadRaw, ByStatus, Value, Raised, Transport
<1> QED BY <1>1, <1>2, <1>3, <1>4

LEMMA SearchIsMeant ==
    ASSUME NEW x \in Contents("search"), NEW a \in Arriving("search", x),
           Search(a).raised = "no"
    PROVE  Search(a).value = x /\ Means("search", x) = x
<1>1. Means("search", x) = x
    BY DEF Means
<1>2. /\ a.status \in {FKKAnswer("search", x).status, Other, Missing}
      /\ a.content = x
    BY DEF Arriving, FKKBroken, FKKAnswer
<1>3. a.status = "44" => x = {}
    BY <1>2 DEF FKKAnswer, Other, Missing
<1>4. \/ a.status = "44" /\ Search(a).value = {}
      \/ Search(a).value = a.content
    BY DEF Search, ByStatus, Value, Raised, Transport
<1> QED BY <1>1, <1>2, <1>3, <1>4

\* A query of MO that does not raise.
LEMMA ObjectsAreMeant ==
    ASSUME NEW s \in {"class", "facet"}, NEW x \in Contents(s), NEW a \in Arriving(s, x),
           NEW empty, s = "class" => empty = Value(Absent),
           s = "facet" => empty.raised # "no",
           ReadMO(a, empty).raised = "no"
    PROVE  /\ ReadMO(a, empty).value = Means(s, x)
           /\ Means(s, x) \in Objects \union {Absent}
<1>1. x \in SUBSET Objects
    BY DEF Contents
<1>2. a.content \in {x, Malformed}
    BY DEF Arriving, MOBroken, MOAnswer
<1>3. GetData(a).raised = "no" => GetData(a).value = a.content
    BY DEF GetData, Value, Raised
<1>4. GetData(a).raised = "no" /\ GetData(a).value # Malformed
    BY DEF ReadMO, Raised
<1>5. ReadMO(a, empty) = Sole(x, empty)
    BY <1>2, <1>3, <1>4 DEF ReadMO
<1> QED BY <1>1, <1>5, SoleIsMeant

\* What a decoded answer says: what the service held, or, to GET raw, that the
\* document is damaged.
LEMMA DecodedIsMeant ==
    ASSUME NEW s \in Services, NEW x \in Contents(s), NEW a \in Arriving(s, x),
           Decoded(s, a).raised = "no"
    PROVE  LET value == Decoded(s, a).value IN
           /\ \/ value = Means(s, x)
              \/ s = "klasse" /\ job = "raw" /\ value = Malformed
           /\ s = "klasse" => value \in Contents(s) \union {Malformed}
           /\ s = "search" => value \in Contents(s)
           /\ s \in {"class", "facet"} => value \in Objects \union {Absent}
           /\ s = "klasse" /\ value \in {OddKlasse, Malformed} => job = "raw"
<1>1. CASE s = "klasse" /\ job = "raw"
    BY <1>1, KlasseIsMeant DEF Decoded
<1>2. CASE s = "klasse" /\ job # "raw"
    <2>1. Decoded(s, a) = Read(a)
        BY <1>2 DEF Decoded
    <2>2. ReadRaw(a).value \notin {OddKlasse, Malformed} /\ Read(a) = ReadRaw(a)
        BY <2>1 DEF Read, Raised
    <2> QED BY <1>2, <2>1, <2>2, KlasseIsMeant
<1>3. CASE s = "search"
    BY <1>3, SearchIsMeant DEF Decoded
<1>4. CASE s = "class"
    <2>1. Decoded(s, a) = ReadMO(a, Value(Absent))
        BY <1>4 DEF Decoded
    <2> QED BY <1>4, <2>1, ObjectsAreMeant
<1>5. CASE s = "facet"
    <2>1. Decoded(s, a) = ReadMO(a, Raised("ValueError"))
        BY <1>5 DEF Decoded
    <2>2. Raised("ValueError").raised # "no"
        BY DEF Raised
    <2> QED BY <1>5, <2>1, <2>2, ObjectsAreMeant
<1> QED BY <1>1, <1>2, <1>3, <1>4, <1>5 DEF Services

-----------------------------------------------------------------------------
(* The invariant, and each step of Answers as one of Remote. *)

LEMMA NothingIsNoResult == Nothing # Malformed /\ Nothing # OddKlasse
  BY AnswersAssumption

LEMMA InitAnswers == Init => AnswersInv
<1> SUFFICES ASSUME Init PROVE AnswersInv
    OBVIOUS
<1>1. \A s \in Services : got[s] = Nothing
    BY DEF Init, NoResults
<1>2. TypeOK
    BY <1>1, NothingIsNoResult DEF Init, TypeOK, Services
<1>3. Pending /\ Witnessed
    BY DEF Init, Pending, Witnessed
<1>4. Shape
    BY <1>1, NothingIsNoResult DEF Init, Shape, NoResults, Services
<1> QED BY <1>2, <1>3, <1>4 DEF AnswersInv

\* The end of a job forgets all there was.
LEMMA EndForgets ==
    ASSUME AnswersInv, End
    PROVE  AnswersInv' /\ Promise!Forget
<1>1. Asked' = NoService /\ Told' = NoResults
    BY DEF End, Asked, Told, NoResults, Services
<1>2. \A s \in Services : got'[s] = Nothing
    BY DEF End, NoResults
<1>3. TypeOK'
    BY <1>2, NothingIsNoResult DEF End, AnswersInv, TypeOK, Services
<1>4. Pending' /\ Witnessed'
    BY DEF End, Pending, Witnessed
<1>5. Shape'
    BY <1>2, NothingIsNoResult DEF End, AnswersInv, Shape, NoResults, Services
<1> QED BY <1>1, <1>3, <1>4, <1>5 DEF AnswersInv, End, Promise!Forget, NoResults

LEMMA BeginStutters ==
    ASSUME AnswersInv, NEW j \in Jobs, Begin(j)
    PROVE  AnswersInv' /\ UNCHANGED Promise!vars
<1>1. "none" \notin Jobs
    BY DEF Jobs, Calls
<1>2. stage = "idle"
    BY DEF Begin, AnswersInv, TypeOK, Pending
<1>3. \A s \in Services : got[s] = Nothing
    BY DEF Begin, AnswersInv, TypeOK
<1>4. TypeOK'
    BY <1>1, <1>2, <1>3 DEF Begin, AnswersInv, TypeOK, Services
<1>5. Pending'
    BY <1>1, CallsAreServices DEF Begin, AnswersInv, Pending
<1>6. Witnessed' /\ Shape'
    BY <1>2, <1>3, NothingIsNoResult DEF Begin, AnswersInv, Witnessed, Shape, Services
<1>7. UNCHANGED Promise!vars
    BY <1>2 DEF Begin, Promise!vars, Asked, Told
<1> QED BY <1>4, <1>5, <1>6, <1>7 DEF AnswersInv

LEMMA AskAsks ==
    ASSUME AnswersInv, Ask
    PROVE  AnswersInv' /\ \E s \in Services : Promise!Ask(s)
<1>1. Head(todo) \in Services
    BY FirstCall DEF Ask, AnswersInv, TypeOK
<1>2. TypeOK' /\ Pending' /\ Shape'
    BY DEF Ask, AnswersInv, TypeOK, Pending, Shape
<1>3. Witnessed'
    BY <1>1 DEF Ask, AnswersInv, TypeOK, Witnessed
<1>4. Promise!Ask(Head(todo))
    BY DEF Ask, Promise!Ask, Asked, Told
<1> QED BY <1>1, <1>2, <1>3, <1>4 DEF AnswersInv

LEMMA ServeStutters ==
    ASSUME AnswersInv, Serve
    PROVE  AnswersInv' /\ UNCHANGED Promise!vars
<1>1. TypeOK' /\ Pending' /\ Shape'
    BY DEF Serve, AnswersInv, TypeOK, Pending, Shape
<1>2. Witnessed'
    BY DEF Serve, AnswersInv, Witnessed
<1>3. UNCHANGED Promise!vars
    BY DEF Serve, Promise!vars, Asked, Told
<1> QED BY <1>1, <1>2, <1>3 DEF AnswersInv

LEMMA ChangeChanges ==
    ASSUME AnswersInv, NEW s \in Services, NEW x \in Contents(s), Change(s, x)
    PROVE  AnswersInv' /\ Promise!Change(s, x)
<1>1. \A r \in Services : store'[r] = IF r = s THEN x ELSE store[r]
    BY DEF Change, AnswersInv, Shape
<1>2. TypeOK' /\ Pending'
    BY <1>1 DEF Change, AnswersInv, TypeOK, Pending
<1>3. store' = [r \in Services |-> store'[r]]
    BY DEF Change, AnswersInv, Shape
<1>4. Shape'
    BY <1>3 DEF Change, AnswersInv, Shape
<1>5. CASE stage = "idle"
    <2>1. Witnessed'
        BY <1>5 DEF Change, Witnessed
    <2>2. Promise!Change(s, x)
        BY <1>5 DEF Change, Promise!Change, Asked, Told, Services, NoService
    <2> QED BY <1>2, <1>4, <2>1, <2>2 DEF AnswersInv
<1>6. CASE stage # "idle"
    <2>1. Head(todo) \in Services
        BY <1>6, FirstCall DEF AnswersInv, TypeOK, Pending
    <2>2. Witnessed'
        BY <1>1, <1>6, <2>1 DEF Change, AnswersInv, Witnessed
    <2>3. Promise!Change(s, x)
        BY <1>6 DEF Change, Promise!Change, Asked, Told
    <2> QED BY <1>2, <1>4, <2>2, <2>3 DEF AnswersInv
<1> QED BY <1>5, <1>6

\* An answer that does not raise.
LEMMA KeepTells ==
    ASSUME AnswersInv, stage = "answered",
           Decoded(Head(todo), answer).raised = "no",
           Keep(Head(todo), Decoded(Head(todo), answer).value)
    PROVE  /\ AnswersInv'
           /\ Promise!Forget \/ \E s \in Services : Promise!Answer(s)
<1> DEFINE s == Head(todo)
           value == Decoded(s, answer).value
<1>1. todo # <<>> /\ job \in Jobs
    BY DEF AnswersInv, Witnessed, Pending, TypeOK
<1>2. s \in CallsOf(job) /\ s \in Services /\ Tail(todo) \in Seq(Services)
    BY <1>1, FirstCall DEF AnswersInv
<1>3. PICK x \in seen : x \in Contents(s) /\ answer \in Arriving(s, x)
    BY DEF AnswersInv, Witnessed
<1>4. /\ \/ value = Means(s, x)
         \/ s = "klasse" /\ job = "raw" /\ value = Malformed
      /\ s = "klasse" => value \in Contents(s) \union {Malformed}
      /\ s = "search" => value \in Contents(s)
      /\ s \in {"class", "facet"} => value \in Objects \union {Absent}
      /\ s = "klasse" /\ value \in {OddKlasse, Malformed} => job = "raw"
    BY <1>2, <1>3, DecodedIsMeant
<1>5. \A r \in Services : got'[r] = IF r = s THEN value ELSE got[r]
    BY DEF Keep, AnswersInv, Shape
<1>6. TypeOK'
    <2>1. /\ \A r \in Services : store'[r] \in Contents(r)
          /\ job' \in Jobs \union {"none"} /\ stage' = "idle"
        BY DEF Keep, AnswersInv, TypeOK
    <2>2. ASSUME NEW r \in Services, got'[r] # Nothing
          PROVE  /\ job' # "none" /\ r \in CallsOf(job')
                 /\ got'[r] \in [klasse |-> Contents("klasse") \union {Malformed},
                                  search |-> Contents("search"),
                                  class |-> Objects \union {Absent},
                                  facet |-> Objects \union {Absent}][r]
        <3>1. CASE r = s
            <4>1. got'[r] = value /\ job' = job /\ job # "none"
                BY <1>1, <1>5, <3>1 DEF Keep, Jobs, Calls
            <4> QED BY <1>2, <1>4, <3>1, <4>1 DEF Services
        <3>2. CASE r # s
            <4>1. got'[r] = got[r] /\ job' = job
                BY <1>5, <3>2 DEF Keep
            <4> QED BY <2>2, <4>1 DEF AnswersInv, TypeOK
        <3> QED BY <3>1, <3>2
    <2>3. got'["klasse"] \in {OddKlasse, Malformed} => job' = "raw"
        <3>1. got'["klasse"] = IF s = "klasse" THEN value ELSE got["klasse"]
            BY <1>5 DEF Services
        <3> QED BY <1>4, <3>1 DEF Keep, AnswersInv, TypeOK
    <2> QED BY <2>1, <2>2, <2>3 DEF TypeOK
<1>7. Pending'
    BY <1>1, <1>2, FirstCall DEF Keep, AnswersInv, Pending
<1>8. got["klasse"] # Malformed
    BY <1>1 DEF AnswersInv, Shape
<1>9. got'["klasse"] = Malformed => s = "klasse" /\ job = "raw" /\ todo' = <<>>
    <2>1. SUFFICES ASSUME got'["klasse"] = Malformed
                   PROVE  s = "klasse" /\ job = "raw" /\ todo' = <<>>
        OBVIOUS
    <2>2. s = "klasse" /\ value = Malformed
        BY <1>5, <1>8, <2>1 DEF Services
    <2>3. job = "raw"
        BY <1>4, <2>2
    <2>4. Len(todo) <= 1
        BY <1>1, <2>3, CallsAreServices DEF AnswersInv, Pending, Jobs, Calls
    <2>5. Tail(todo) = <<>>
        BY <1>1, <1>2, <2>4, FirstCall DEF AnswersInv, Pending
    <2> QED BY <2>2, <2>3, <2>5 DEF Keep
<1>10. got' = [r \in Services |-> got'[r]]
    BY DEF Keep, AnswersInv, Shape
<1>11. Shape' /\ Witnessed'
    BY <1>9, <1>10 DEF Keep, AnswersInv, Shape, Witnessed
<1>12. AnswersInv'
    BY <1>6, <1>7, <1>11 DEF AnswersInv
<1>13. Asked = s /\ Asked' = NoService
    BY DEF Keep, Asked
<1>14. CASE got'["klasse"] = Malformed
    <2>1. Told' = NoResults
        BY <1>14 DEF Told, NoResults
    <2>2. Promise!Forget
        BY <1>13, <2>1 DEF Keep, Promise!Forget, NoResults
    <2> QED BY <1>12, <2>2
<1>15. CASE got'["klasse"] # Malformed
    <2>1. Told = got /\ Told' = got'
        BY <1>8, <1>15 DEF Told
    <2>2. value = Means(s, x)
        BY <1>2, <1>4, <1>5, <1>15
    <2>3. Promise!Answer(s)
        BY <1>3, <1>13, <2>1, <2>2 DEF Keep, Promise!Answer
    <2> QED BY <1>2, <1>12, <2>3
<1> QED BY <1>14, <1>15

LEMMA StepKeepsPromise ==
    ASSUME AnswersInv, [Next]_vars
    PROVE  AnswersInv' /\ [Promise!Next]_Promise!vars
<1>1. ASSUME NEW j \in Jobs, Begin(j)
      PROVE  AnswersInv' /\ [Promise!Next]_Promise!vars
    BY <1>1, BeginStutters
<1>2. ASSUME Ask
      PROVE  AnswersInv' /\ [Promise!Next]_Promise!vars
    BY <1>2, AskAsks DEF Promise!Next
<1>3. ASSUME Serve
      PROVE  AnswersInv' /\ [Promise!Next]_Promise!vars
    BY <1>3, ServeStutters
<1>4. ASSUME End
      PROVE  AnswersInv' /\ [Promise!Next]_Promise!vars
    BY <1>4, EndForgets DEF Promise!Next
<1>5. ASSUME Receive
      PROVE  AnswersInv' /\ [Promise!Next]_Promise!vars
    BY <1>4, <1>5, KeepTells DEF Receive, Promise!Next
<1>6. ASSUME NEW s \in Services, NEW x \in Contents(s), Change(s, x)
      PROVE  AnswersInv' /\ [Promise!Next]_Promise!vars
    BY <1>6, ChangeChanges DEF Promise!Next
<1>7. CASE UNCHANGED vars
    <2>1. AnswersInv'
        BY <1>7 DEF vars, AnswersInv, TypeOK, Pending, Witnessed, Shape
    <2>2. UNCHANGED Promise!vars
        BY <1>7 DEF vars, Promise!vars, Asked, Told
    <2> QED BY <2>1, <2>2
<1> QED BY <1>1, <1>2, <1>3, <1>4, <1>5, <1>6, <1>7 DEF Next, Break, Finish

LEMMA InvariantHolds == Spec => []AnswersInv
<1>1. AnswersInv /\ [Next]_vars => AnswersInv'
    BY StepKeepsPromise
<1> QED BY InitAnswers, <1>1, PTL DEF Spec

\* The variables have their types, only what a job asked for is kept for it, and
\* only GET raw gets hold of what parse_klasse() does not understand, whatever
\* Klasser and objects there are.
THEOREM AnswersTypeCorrect == Spec => []TypeOK
<1>1. AnswersInv => TypeOK
    BY DEF AnswersInv
<1> QED BY InvariantHolds, <1>1, PTL

\* Every job, whatever is broken about the answers it gets and whatever changes
\* meanwhile, is told what the service asked held since it was asked, or raises.
THEOREM TellsTheTruth == Spec => TruthOrError
<1>1. Init => Promise!Init
    <2>1. ASSUME Init PROVE Asked = NoService /\ Told = NoResults
        BY <2>1 DEF Init, Asked, Told, NoResults, Services
    <2>2. ASSUME Init PROVE store = [s \in Services |-> store[s]]
        BY <2>2 DEF Init, Services
    <2>3. ASSUME Init PROVE \A s \in Services : store[s] \in Contents(s)
        BY <2>3 DEF Init, Services
    <2> QED BY <2>1, <2>2, <2>3 DEF Promise!Init, NoResults, Init
<1>2. AnswersInv /\ [Next]_vars => [Promise!Next]_Promise!vars
    BY StepKeepsPromise
<1> QED BY InvariantHolds, <1>1, <1>2, PTL DEF Spec, TruthOrError, Promise!Spec
=============================================================================
