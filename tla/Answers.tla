------------------------------- MODULE Answers ------------------------------
(***************************************************************************)
(* From an answer on the wire to a decision: the layers that an answer of  *)
(* FKK or MO passes (HTTP, XML or JSON, status codes and errors, parsing,  *)
(* only() and one()) until an endpoint of api.py or sync() acts on it.     *)
(*                                                                         *)
(* Any layer of any answer may be broken.  What must not happen is that a  *)
(* broken answer is taken for one that says something else, above all that *)
(* a Klasse does not exist, for sync() deletes the class then, or that no  *)
(* Klasser have changed, for the event generator then forgets about them.  *)
(*                                                                         *)
(* UUIDs, names and validities are abstracted to a Klasse, a class and a   *)
(* facet each; ClassValidities says what is made of them.                  *)
(***************************************************************************)
EXTENDS Sequences, FiniteSets

CONSTANTS
    Klasser,      \* Klasser FKK may hold
    OddKlasse,    \* one whose XML parse_klasse() does not understand
    Objects,      \* objects MO may hold
    Absent,       \* None
    Malformed,    \* a document without what is looked for in it
    Nothing       \* no answer so far

ASSUME AnswersAssumption ==
    /\ OddKlasse \in Klasser
    /\ {Absent, Malformed, Nothing} \intersect (Klasser \union Objects) = {}
    /\ Absent # Malformed /\ Absent # Nothing /\ Malformed # Nothing
    /\ IsFiniteSet(Objects)

Services == {"klasse", "search", "class", "facet"}
NoService == "none"

\* FKK holds at most one Klasse for a UUID, and lists those that changed; MO
\* answers with a list.
Contents(s) ==
    [klasse |-> Klasser \union {Absent}, search |-> {{}, Klasser},
     class |-> SUBSET Objects, facet |-> SUBSET Objects][s]

\* The calls of each job, in the order in which they are awaited.
Calls == [raw    |-> <<"klasse">>,
          parsed |-> <<"klasse">>,
          mo     |-> <<"klasse", "facet">>,
          sync   |-> <<"klasse", "class", "facet">>,
          poll   |-> <<"search">>]
Jobs == DOMAIN Calls
CallsOf(j) == {Calls[j][i] : i \in DOMAIN Calls[j]}

VARIABLES
    store,     \* what the services hold
    job, todo, \* what is being done, and its calls to come
    stage,     \* of the first of these calls
    answer,    \* on the wire
    got,       \* results of the calls that are over
    seen       \* history: what the service asked has held since

vars == <<store, job, todo, stage, answer, got, seen>>

-----------------------------------------------------------------------------
(* Answers on the wire, and what may be wrong with them. *)

Other == "other"  \* a status code that is neither 20 nor 44
Missing == "missing"

\* What FKK's Laes and Soeg answer when it holds x.
FKKAnswer(s, x) ==
    [success |-> TRUE, document |-> TRUE,
     status |-> IF x = (IF s = "search" THEN {} ELSE Absent) THEN "44" ELSE "20",
     content |-> x]

\* A list of UUIDs is never damaged: _search() would take it for an empty one.
FKKBroken(s, x) ==
    [success : BOOLEAN, document : BOOLEAN,
     status : {FKKAnswer(s, x).status, Other, Missing},
     content : IF s = "search" THEN {x} ELSE {x, Malformed}]

\* What MO's GraphQL API answers when it holds the objects x.
MOAnswer(x) ==
    [success |-> TRUE, document |-> TRUE, status |-> "data", content |-> x]

\* The status of an answer of MO says whether it has data and errors.
MOBroken(x) ==
    [success : BOOLEAN, document : BOOLEAN,
     status : {"data", "errors", Missing}, content : {x, Malformed}]

\* The answers that may arrive when s holds x.
Arriving(s, x) ==
    IF s \in {"klasse", "search"} THEN FKKBroken(s, x) \union {FKKAnswer(s, x)}
                                  ELSE MOBroken(x) \union {MOAnswer(x)}

-----------------------------------------------------------------------------
(* Reading an answer: a value, or the exception it raises. *)

Value(x) == [raised |-> "no", value |-> x]
Raised(e) == [raised |-> e, value |-> Nothing]

\* raise_for_status() and etree.fromstring(), is_success and json().
Transport(a) ==
    IF ~a.success THEN "http status"
    ELSE IF ~a.document THEN "syntax" ELSE "no"

\* What a status says: 20 that the content is there, 44 that there is none.
ByStatus(a, none, error) ==
    IF Transport(a) # "no" THEN Raised(Transport(a))
    ELSE IF a.status = "44" THEN Value(none)
    ELSE IF a.status = "20" THEN Value(a.content) ELSE Raised(error)

\* Mutant: every status but success is taken for a Klasse that is not there.
ReadRaw_AnyStatus(a) ==
    IF Transport(a) # "no" THEN Raised(Transport(a))
    ELSE Value(IF a.status = "20" THEN a.content ELSE Absent)

\* read_raw().  The text of an error is looked for under SoegOutput, which an
\* answer of Laes does not have, so that the assertion in _find() fails.
ReadRaw(a) == ByStatus(a, Absent, "AssertionError")

\* _search().
Search(a) ==
    ByStatus(a, {}, IF a.status = Other THEN "LookupError" ELSE "AssertionError")

\* Mutant: what cannot be parsed is left out.
Read_Lenient(a) == ReadRaw(a)

\* read(): parse_klasse() understands all of a Klasse or raises.
Read(a) ==
    IF ReadRaw(a).value \in {OddKlasse, Malformed} THEN Raised("parse_klasse")
                                                   ELSE ReadRaw(a)

\* get_data(): errors raise even next to data.
GetData(a) ==
    IF ~a.success THEN Raised("GraphQLClientHttpError")
    ELSE IF ~a.document \/ a.status = Missing THEN Raised("GraphQlClientInvalidResponseError")
    ELSE IF a.status = "errors" THEN Raised("GraphQLClientGraphQLMultiError")
    ELSE Value(a.content)

\* only() and one() of what a list has; the value of an empty list differs.
Sole(x, empty) ==
    IF x = {} THEN empty
    ELSE IF Cardinality(x) = 1 THEN Value(CHOOSE y \in x : TRUE) ELSE Raised("ValueError")

\* GetClass.parse_obj() and only(), GetFacet.parse_obj() and one().
ReadMO(a, empty) ==
    IF GetData(a).raised # "no" THEN GetData(a)
    ELSE IF GetData(a).value = Malformed THEN Raised("ValidationError")
    ELSE Sole(GetData(a).value, empty)

Decoded(s, a) ==
    IF s = "klasse" THEN IF job = "raw" THEN ReadRaw(a) ELSE Read(a)
    ELSE IF s = "search" THEN Search(a)
    ELSE ReadMO(a, IF s = "class" THEN Value(Absent) ELSE Raised("ValueError"))

-----------------------------------------------------------------------------
(* Jobs. *)

NoResults == [s \in Services |-> Nothing]

Init ==
    /\ store \in [klasse : Contents("klasse"), search : Contents("search"),
                  class : Contents("class"), facet : Contents("facet")]
    /\ job = "none" /\ todo = <<>> /\ stage = "idle"
    /\ answer = Nothing
    /\ got = NoResults
    /\ seen = {}

Begin(j) ==
    /\ job = "none"
    /\ job' = j
    /\ todo' = Calls[j]
    /\ UNCHANGED <<store, stage, answer, got, seen>>

Ask ==
    /\ job # "none" /\ todo # <<>> /\ stage = "idle"
    /\ stage' = "asked"
    /\ seen' = {store[Head(todo)]}
    /\ UNCHANGED <<store, job, todo, answer, got>>

\* The service looks at what it holds; anything may happen to its answer.
Serve ==
    /\ stage = "asked"
    /\ stage' = "answered"
    /\ answer' \in Arriving(Head(todo), store[Head(todo)])
    /\ UNCHANGED <<store, job, todo, got, seen>>

\* The job is over: with a response or a status, or with an exception, which
\* is a response of 500, a message to be delivered again or a failed poll.
End ==
    /\ job' = "none" /\ todo' = <<>> /\ stage' = "idle"
    /\ answer' = Nothing
    /\ got' = NoResults
    /\ seen' = {}
    /\ UNCHANGED store

\* The job goes on with what it was told.  read_mo() does not ask for the facet
\* when there is no Klasse.
Keep(s, x) ==
    /\ got' = [got EXCEPT ![s] = x]
    /\ todo' = IF job = "mo" /\ x = Absent THEN <<>> ELSE Tail(todo)
    /\ stage' = "idle"
    /\ answer' = Nothing
    /\ seen' = {}
    /\ UNCHANGED <<store, job>>

Receive ==
    /\ stage = "answered"
    /\ LET result == Decoded(Head(todo), answer) IN
       \/ result.raised = "no" /\ Keep(Head(todo), result.value)
       \/ result.raised # "no" /\ End

\* The connection breaks, or times out.
Break == stage # "idle" /\ End

Finish == job # "none" /\ todo = <<>> /\ End

Change(s, x) ==
    /\ x # store[s]
    /\ store' = [store EXCEPT ![s] = x]
    /\ seen' = IF stage # "idle" /\ Head(todo) = s THEN seen \union {x} ELSE seen
    /\ UNCHANGED <<job, todo, stage, answer, got>>

Next ==
    \/ \E j \in Jobs : Begin(j)
    \/ Ask \/ Serve \/ Receive \/ Break \/ Finish
    \/ \E s \in Services : \E x \in Contents(s) : Change(s, x)

Spec == Init /\ [][Next]_vars

-----------------------------------------------------------------------------
(* Properties. *)

\* Types, that only what a job asked for is kept for it, and that nothing but
\* GET raw gets hold of what parse_klasse() does not understand.
TypeOK ==
    /\ \A s \in Services : store[s] \in Contents(s)
    /\ job \in Jobs \union {"none"}
    /\ stage \in {"idle", "asked", "answered"}
    /\ stage # "idle" => todo # <<>>
    /\ \A s \in Services : got[s] # Nothing =>
          /\ job # "none" /\ s \in CallsOf(job)
          /\ got[s] \in [klasse |-> Contents("klasse") \union {Malformed},
                        search |-> Contents("search"),
                        class |-> Objects \union {Absent},
                        facet |-> Objects \union {Absent}][s]
    /\ got["klasse"] \in {OddKlasse, Malformed} => job = "raw"

\* What the content x of a service means to the program.
Means(s, x) ==
    IF s \in {"klasse", "search"} THEN x
    ELSE IF Cardinality(x) = 1 THEN CHOOSE y \in x : TRUE
    ELSE IF s = "class" /\ x = {} THEN Absent ELSE Nothing

Asked == IF stage = "idle" THEN NoService ELSE Head(todo)

\* GET raw passes a damaged document on and says nothing about the Klasse.
Told == IF got["klasse"] = Malformed THEN NoResults ELSE got

Promise == INSTANCE Remote WITH asked <- Asked, got <- Told

\* Whatever is broken about an answer, the program either raises or is told what
\* the service held while it was asked: that a Klasse is absent, which has its
\* class deleted, or that none have changed, which ends a poll, only if it was
\* so (klassifikation/api.py:369-389, 439-460, async_base_client.py:102-124).
TruthOrError == Promise!Spec

=============================================================================
