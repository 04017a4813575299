-------------------------------- MODULE Sync --------------------------------
(***************************************************************************)
(* Concurrent executions of events.sync() against FKK and MO.              *)
(*                                                                         *)
(* Two AMQP handlers and any number of HTTP requests run sync() for a      *)
(* UUID.  Each execution awaits three reads and then a chain of MO         *)
(* mutations; one action below is what happens between two awaits, so      *)
(* every interleaving of the asyncio tasks is a behaviour.  FKK changes,   *)
(* MO users, failed calls, answers that are lost while MO still applies    *)
(* the mutation, and restarts of the integration happen in between.        *)
(*                                                                         *)
(* A Klasse is represented by the set of class validities it converts to   *)
(* (module ClassValidities says which); the empty set stands for a UUID    *)
(* that FKK does not know or no longer publishes.  What raises when it is  *)
(* converted, or is not read back as it was written, is a constant here,   *)
(* for ClassValidities says which Klasser those are.                       *)
(***************************************************************************)
EXTENDS Integers

CONSTANTS
    Uuids,        \* UUIDs of FKK Klasser and MO classes
    Requests,     \* HTTP requests POST /sync/{uuid}, each made at most once
    Facets, Kle,  \* MO facets, and the one with user key kle_number
    Attributes,   \* what a validity says: user_key, name and parent
    Klasser,      \* what FKK may hold for a UUID
    Faulty,       \* Klasser it may hold as well, whose conversion raises
    Stored(_),    \* what MO returns for a validity that is written to it
    Unreadable,   \* validities of MO whose conversion raises
    Edited,       \* what MO users may make of a class
    NoUuid,       \* uuid of a worker that is not running sync()
    NoValidity,   \* validity of a mutation that carries none
    MaxChanges, MaxEdits, MaxFaults  \* bounds on the environment

Handlers == {"mo_handler", "fkk_handler"}
Workers == Handlers \union Requests
Validities == [facet : Facets, start : Int, end : Int, attributes : Attributes]
Classes == [exists : BOOLEAN, validities : SUBSET Validities]
NoClass == [exists |-> FALSE, validities |-> {}]
Statuses == {"create_or_update", "delete", "up_to_date", "wont_delete"}
MutationOps == {"delete", "create", "truncate", "update"}
Mutations ==
    [op : {"create", "update"}, uuid : Uuids, validity : UNION Klasser]
    \union [op : {"delete", "truncate"}, uuid : Uuids, validity : {NoValidity}]

Overlap(v, w) == v.start < w.end /\ w.start < v.end
FacetsOf(class) == {v.facet : v \in class.validities}

ASSUME SyncAssumption ==
    /\ Kle \in Facets
    /\ Requests \intersect Handlers = {}
    /\ NoUuid \notin Uuids
    /\ {} \in Klasser /\ Klasser \subseteq SUBSET Validities
    /\ Faulty \intersect Klasser = {}
    /\ \A K \in Klasser : \A v \in K :
          /\ v.facet = Kle /\ Stored(v) \in Validities /\ Stored(v).facet = Kle
          /\ \A w \in K : v = w \/ ~Overlap(Stored(v), Stored(w))
    /\ Edited \subseteq Classes
    /\ MaxChanges \in Nat /\ MaxEdits \in Nat /\ MaxFaults \in Nat

VARIABLES
    fkk,          \* what FKK holds for each UUID
    unpublished,  \* UUIDs FKK changed and the event generator has not published
    mo,           \* MO's classes
    queue,        \* UUIDs waiting in each handler's AMQP queue
    late,         \* mutations whose caller gave up but MO may still apply
    pc,           \* the call each worker makes next
    uuid,         \* argument of the worker's sync()
    klasse,       \* fkk_klasse, as its class validities
    moClass,      \* mo_class
    desired,      \* validities left to write
    response,     \* answer of each request
    raced,        \* history: requests whose class somebody else wrote meanwhile
    related,      \* history: UUIDs ever in FKK or ever wholly under facet Kle
    changes, edits, faults

environment == <<fkk, unpublished, changes, edits, faults, related>>
locals == <<uuid, klasse, moClass, desired>>
vars == <<environment, mo, queue, late, pc, locals, response, raced>>

Init ==
    /\ fkk \in [Uuids -> Klasser \union Faulty]
    /\ unpublished = {u \in Uuids : fkk[u] # {}}
    /\ mo = [u \in Uuids |-> NoClass]
    /\ queue = [h \in Handlers |-> {}]
    /\ late = {}
    /\ pc = [w \in Workers |-> "idle"]
    /\ uuid = [w \in Workers |-> NoUuid]
    /\ klasse = [w \in Workers |-> {}]
    /\ moClass = [w \in Workers |-> NoClass]
    /\ desired = [w \in Workers |-> {}]
    /\ response = [r \in Requests |-> "none"]
    /\ raced = {}
    /\ related = {u \in Uuids : fkk[u] # {}}
    /\ changes = 0 /\ edits = 0 /\ faults = 0

-----------------------------------------------------------------------------
(* MO's GraphQL API, as sync() uses it. *)

\* What a write of w leaves of a validity v.
Remainders(v, w) ==
    IF Overlap(v, w)
    THEN {x \in {[v EXCEPT !.end = w.start], [v EXCEPT !.start = w.end]} :
             x.start < x.end}
    ELSE {v}

Written(validities, w) ==
    {w} \union (UNION {Remainders(v, w) : v \in validities})

\* class_update, class_terminate and class_delete need the class to be there.
Accepts(m, class) == m.op = "create" \/ class.exists

Effect(m, class) ==
    CASE m.op = "delete"   -> NoClass
      [] m.op = "truncate" -> [class EXCEPT !.validities = {}]
      [] OTHER             -> [exists |-> TRUE,
                               validities |-> Written(class.validities, Stored(m.validity))]

\* Every mutation makes MO publish the UUID on its exchange.  The writer is {}
\* for a user or a late mutation.
Store(u, class, writer) ==
    /\ mo' = [mo EXCEPT ![u] = class]
    /\ queue' = [queue EXCEPT !["mo_handler"] = @ \union {u}]
    /\ raced' = raced \union {r \in Requests \ writer : uuid[r] = u}

-----------------------------------------------------------------------------
(* Entering and leaving sync(). *)

Working(w) == uuid[w] # NoUuid

Enter(w, u) ==
    /\ pc[w] = "idle"
    /\ pc' = [pc EXCEPT ![w] = "read_fkk"]
    /\ uuid' = [uuid EXCEPT ![w] = u]
    /\ UNCHANGED <<environment, mo, late, klasse, moClass, desired, response, raced>>

\* A message is delivered; each queue has prefetch_count 1.
Take(h, u) ==
    /\ u \in queue[h]
    /\ queue' = [queue EXCEPT ![h] = @ \ {u}]
    /\ Enter(h, u)

PostSync(r, u) == Enter(r, u) /\ UNCHANGED queue

\* The workers W leave sync() with the given answer to those that are requests.
Leave(W, answer) ==
    /\ pc' = [w \in Workers |-> IF w \notin W THEN pc[w]
                                ELSE IF w \in Handlers THEN "idle" ELSE "done"]
    /\ uuid' = [w \in Workers |-> IF w \in W THEN NoUuid ELSE uuid[w]]
    /\ klasse' = [w \in Workers |-> IF w \in W THEN {} ELSE klasse[w]]
    /\ moClass' = [w \in Workers |-> IF w \in W THEN NoClass ELSE moClass[w]]
    /\ desired' = [w \in Workers |-> IF w \in W THEN {} ELSE desired[w]]
    /\ response' = [r \in Requests |-> IF r \in W THEN answer ELSE response[r]]

\* Mutant: the message of a failed sync() is acknowledged.
Raise_Acknowledged(W) == Leave(W, "error") /\ UNCHANGED <<queue, mo, raced>>

\* An exception out of sync(): the broker gets the handlers' messages back.
Raise(W) ==
    /\ Leave(W, "error")
    /\ queue' = [h \in Handlers |->
                    queue[h] \union {uuid[w] : w \in W \intersect {h}}]
    /\ UNCHANGED <<mo, raced>>

-----------------------------------------------------------------------------
(* sync(), one action per await. *)

ReadFKK(w) ==
    /\ pc[w] = "read_fkk"
    /\ klasse' = [klasse EXCEPT ![w] = fkk[uuid[w]]]
    /\ pc' = [pc EXCEPT ![w] = "read_mo"]
    /\ UNCHANGED <<environment, mo, queue, late, uuid, moClass, desired, response, raced>>

ReadMO(w) ==
    /\ pc[w] = "read_mo"
    /\ moClass' = [moClass EXCEPT ![w] = mo[uuid[w]]]
    /\ pc' = [pc EXCEPT ![w] = "decide"]
    /\ UNCHANGED <<environment, mo, queue, late, uuid, klasse, desired, response, raced>>

\* Mutant: a class missing from FKK is deleted whatever its facet.
Foreign_Ignored(class) == FALSE

\* mo_class_facets != {kle_number_facet}
Foreign(class) == FacetsOf(class) # {Kle}

\* Mutant: an existing class is updated without being truncated first.
NextCall_NoTruncate(class, wanted) ==
    IF wanted = {} THEN "delete"
    ELSE IF class.validities = {} THEN "create" ELSE "update"

NextCall(class, wanted) ==
    IF wanted = {} THEN "delete"
    ELSE IF class.validities = {} THEN "create" ELSE "truncate"

\* one() and only() in the conversion of a Klasse, and the assertion on the end
\* of a validity from MO.
Raises(K, class) == K \in Faulty \/ class.validities \intersect Unreadable # {}

\* The answer of get_facet arrives, and sync() decides without awaiting.
Decide(w) ==
    LET actual == moClass[w].validities
        answer == IF actual = klasse[w] THEN "up_to_date" ELSE "wont_delete"
    IN  /\ pc[w] = "decide" /\ ~Raises(klasse[w], moClass[w])
        /\ \/ /\ actual = klasse[w] \/ (klasse[w] = {} /\ Foreign(moClass[w]))
              /\ Leave({w}, answer)
           \/ /\ actual # klasse[w]
              /\ klasse[w] = {} => ~Foreign(moClass[w])
              /\ pc' = [pc EXCEPT ![w] = NextCall(moClass[w], klasse[w])]
              /\ moClass' = [moClass EXCEPT ![w] = NoClass]  \* not used again
              /\ desired' = [desired EXCEPT ![w] = klasse[w]]
              /\ UNCHANGED <<uuid, klasse, response>>
        /\ UNCHANGED <<environment, mo, queue, late, raced>>

\* It cannot, for one of the two conversions raises.
Unconverted(w) ==
    /\ pc[w] = "decide" /\ Raises(klasse[w], moClass[w])
    /\ Raise({w})
    /\ UNCHANGED <<environment, late>>

\* The mutations w may be about to request: desired is a Python set, so which
\* validity is written next is arbitrary.
Calls(w) ==
    IF pc[w] \in MutationOps
    THEN [op : {pc[w]}, uuid : {uuid[w]},
          validity : IF pc[w] \in {"create", "update"} THEN desired[w] ELSE {NoValidity}]
    ELSE {}

\* MO answers mutation m of worker w.
Applied(w, m) ==
    /\ Accepts(m, mo[m.uuid])
    /\ Store(m.uuid, Effect(m, mo[m.uuid]), {w})
    /\ UNCHANGED <<environment, late>>

\* Mutant: the loop runs once more than there are validities.
Continue_OnceMore(w, rest) ==
    /\ pc' = [pc EXCEPT ![w] = "update"]
    /\ desired' = [desired EXCEPT ![w] = rest]
    /\ UNCHANGED <<uuid, klasse, moClass, response>>

\* Mutant: the last validity is not written.
Continue_StopsEarly(w, rest) ==
    IF \A v, x \in rest : v = x THEN Leave({w}, "create_or_update")
    ELSE /\ pc' = [pc EXCEPT ![w] = "update"]
         /\ desired' = [desired EXCEPT ![w] = rest]
         /\ UNCHANGED <<uuid, klasse, moClass, response>>

\* The loop over the validities still to be written, or its end.
Continue(w, rest) ==
    IF rest = {} THEN Leave({w}, "create_or_update")
    ELSE /\ pc' = [pc EXCEPT ![w] = "update"]
         /\ desired' = [desired EXCEPT ![w] = rest]
         /\ UNCHANGED <<uuid, klasse, moClass, response>>

DeleteClass(w) ==
    /\ pc[w] = "delete"
    /\ \E m \in Calls(w) : Applied(w, m)
    /\ Leave({w}, "delete")

CreateClass(w) ==
    /\ pc[w] = "create"
    /\ \E m \in Calls(w) : Applied(w, m) /\ Continue(w, desired[w] \ {m.validity})

TruncateClass(w) ==
    /\ pc[w] = "truncate"
    /\ \E m \in Calls(w) : Applied(w, m)
    /\ Continue(w, desired[w])

UpdateClass(w) ==
    /\ pc[w] = "update"
    /\ \E m \in Calls(w) : Applied(w, m) /\ Continue(w, desired[w] \ {m.validity})

\* MO answers with errors, which the GraphQL client raises.
Refused(w) ==
    /\ \E m \in Calls(w) : ~Accepts(m, mo[m.uuid])
    /\ Raise({w})
    /\ UNCHANGED <<environment, late>>

Step(w) ==
    \/ ReadFKK(w) \/ ReadMO(w) \/ Decide(w) \/ Unconverted(w)
    \/ DeleteClass(w) \/ CreateClass(w) \/ TruncateClass(w) \/ UpdateClass(w)
    \/ Refused(w)

-----------------------------------------------------------------------------
(* Failures. *)

\* A call times out or its connection breaks; a mutation may be in MO's hands.
Fail(w) ==
    /\ faults < MaxFaults
    /\ Working(w)
    /\ late' \in {late} \union {late \union {m} : m \in Calls(w)}
    /\ Raise({w})
    /\ faults' = faults + 1
    /\ UNCHANGED <<fkk, unpublished, changes, edits, related>>

\* The integration restarts: every execution of sync() is lost.
Crash ==
    /\ faults < MaxFaults
    /\ \E sent \in SUBSET UNION {{w} \X Calls(w) : w \in Workers} :
          /\ \A x, y \in sent : x[1] = y[1] => x = y
          /\ late' = late \union {x[2] : x \in sent}
    /\ Raise({w \in Workers : Working(w)})
    /\ faults' = faults + 1
    /\ UNCHANGED <<fkk, unpublished, changes, edits, related>>

ApplyLate(m) ==
    /\ m \in late
    /\ late' = late \ {m}
    /\ \/ Accepts(m, mo[m.uuid]) /\ Store(m.uuid, Effect(m, mo[m.uuid]), {})
       \/ ~Accepts(m, mo[m.uuid]) /\ UNCHANGED <<mo, queue, raced>>
    /\ UNCHANGED <<environment, pc, locals, response>>

-----------------------------------------------------------------------------
(* FKK, the event generator, and users of MO. *)

FKKChange(u, K) ==
    /\ changes < MaxChanges
    /\ K # fkk[u]
    /\ fkk' = [fkk EXCEPT ![u] = K]
    /\ unpublished' = unpublished \union {u}
    /\ related' = related \union {u}
    /\ changes' = changes + 1
    /\ UNCHANGED <<mo, queue, late, pc, locals, response, raced, edits, faults>>

Publish(u) ==
    /\ u \in unpublished
    /\ unpublished' = unpublished \ {u}
    /\ queue' = [queue EXCEPT !["fkk_handler"] = @ \union {u}]
    /\ UNCHANGED <<mo, late, pc, locals, response, raced, fkk, changes, edits, faults, related>>

\* A run of the event generator that fails after publishing publishes again,
\* and the broker may deliver a message twice.
Duplicate(h, u) ==
    /\ faults < MaxFaults
    /\ u \notin queue[h]
    /\ queue' = [queue EXCEPT ![h] = @ \union {u}]
    /\ faults' = faults + 1
    /\ UNCHANGED <<mo, late, pc, locals, response, raced, fkk, unpublished, changes, edits, related>>

UserEdit(u, class) ==
    /\ edits < MaxEdits
    /\ class # mo[u]
    /\ Store(u, class, {})
    /\ related' = related \union {x \in {u} : FacetsOf(class) = {Kle}}
    /\ edits' = edits + 1
    /\ UNCHANGED <<late, pc, locals, response, fkk, unpublished, changes, faults>>

Next ==
    \/ \E h \in Handlers, u \in Uuids : Take(h, u)
    \/ \E r \in Requests, u \in Uuids : PostSync(r, u)
    \/ \E w \in Workers : Step(w)
    \/ \E w \in Workers : Fail(w)
    \/ Crash
    \/ \E m \in late : ApplyLate(m)
    \/ \E u \in Uuids : Publish(u)
    \/ \E h \in Handlers, u \in Uuids : Duplicate(h, u)
    \/ \E u \in Uuids, K \in Klasser \union Faulty : FKKChange(u, K)
    \/ \E u \in Uuids, class \in Edited : UserEdit(u, class)

Spec == Init /\ [][Next]_vars

\* The event loop runs every task whose answer has arrived, the broker delivers
\* while a handler is free, and the event generator keeps polling.  Nothing
\* makes users, FKK, failures or requests happen.
FairSpec ==
    /\ Spec
    /\ WF_vars(\E u \in Uuids : Publish(u))
    /\ \A h \in Handlers : WF_vars(\E u \in Uuids : Take(h, u))
    /\ \A w \in Workers : WF_vars(Step(w))

-----------------------------------------------------------------------------
(* Properties. *)

StoresOK ==
    /\ fkk \in [Uuids -> Klasser \union Faulty]
    /\ unpublished \subseteq Uuids
    /\ mo \in [Uuids -> Classes]
    /\ queue \in [Handlers -> SUBSET Uuids]
    /\ late \subseteq Mutations
    /\ raced \subseteq Requests
    /\ related \subseteq Uuids
    /\ changes \in 0..MaxChanges /\ edits \in 0..MaxEdits /\ faults \in 0..MaxFaults

LocalsOK ==
    /\ pc \in [Workers -> {"idle", "read_fkk", "read_mo", "decide", "done"}
                            \union MutationOps]
    /\ uuid \in [Workers -> Uuids \union {NoUuid}]
    /\ klasse \in [Workers -> Klasser \union Faulty]
    /\ moClass \in [Workers -> Classes]
    /\ desired \in [Workers -> SUBSET Validities]
    /\ response \in [Requests -> Statuses \union {"none", "error"}]
    /\ \A w \in Workers :
          /\ Working(w) <=> pc[w] \notin {"idle", "done"}
          /\ pc[w] \in {"create", "truncate", "update"} =>
                /\ klasse[w] \in Klasser
                /\ desired[w] # {} /\ desired[w] \subseteq klasse[w]

\* Types, and what the control state says of the locals: a worker has a UUID
\* exactly while it runs sync(), and is about to create or update a class only
\* while a validity of a Klasse that converts is left to write (events.py:121-139).
TypeOK == StoresOK /\ LocalsOK

\* MO has what FKK has, or FKK has nothing and the class is not wholly under
\* facet kle_number, which the integration leaves alone.
Agrees(K, class) ==
    K \notin Faulty /\ (class.validities = K \/ (K = {} /\ Foreign(class)))

Synced(u) == Agrees(fkk[u], mo[u])

\* Somebody still has to look at u.
Pending(u) == u \in unpublished \/ \E h \in Handlers : u \in queue[h]

\* Handler h has not yet relied on a state of u that is out of date, or is
\* going to write u and so to cause an event for it.
Attending(h, u) ==
    /\ uuid[h] = u
    /\ pc[h] \in {"read_mo", "decide"} => klasse[h] = fkk[u]
    /\ pc[h] = "decide" => moClass[h] = mo[u]

\* No UUID is forgotten: wherever the systems differ, an event is on its way
\* or a handler is at work whose snapshot is not stale (events.py:51-141 with
\* the event generator and MO's events).
NothingForgotten ==
    \A u \in Uuids : Synced(u) \/ Pending(u) \/ \E h \in Handlers : Attending(h, u)

\* What MO returns once validities are written.
Kept(validities) == {Stored(v) : v \in validities}

\* A request whose class nobody else wrote while it ran, and which reports
\* success, leaves in MO exactly the validities of the Klasse it read, as MO
\* keeps them: the truncation and the updates rebuild the whole class
\* (events.py:121-141).
TruthfulAnswer ==
    [][\A r \in Requests :
          (response'[r] \in Statuses \ {"wont_delete"} /\ response[r] = "none"
             /\ r \notin raced)
          => mo'[uuid[r]].validities =
                IF response'[r] = "create_or_update"
                THEN Kept(klasse[r]) ELSE klasse[r]]_vars

\* A class that FKK never had, and that was never wholly under the facet
\* kle_number, is changed by MO's users only (test_unrelated_untouched).
UnrelatedUntouched ==
    [][\A u \in Uuids \ related : edits' = edits => mo'[u] = mo[u]]_vars

\* sync() and the event flow implement the promise of module Mirror: a UUID is
\* to be looked at while it is pending or a handler attends to it.
Promise == INSTANCE Mirror WITH
    Agree <- Agrees,
    dirty <- {u \in Uuids : Pending(u) \/ \E h \in Handlers : Attending(h, u)}

KeepsPromise == Promise!Spec

Quiescent ==
    /\ \A u \in Uuids : ~Pending(u)
    /\ \A h \in Handlers : ~Working(h)

\* What FKK and MO hold for u is converted without an exception, and MO returns
\* what is written as it was written.
Settles(u) ==
    /\ ~Raises(fkk[u], mo[u])
    /\ \A v \in fkk[u] : Stored(v) = v

\* Once FKK, users and failures are quiet and every Klasse settles, the
\* integration comes to rest with MO mirroring FKK: nothing that happened before,
\* be it to Klasser that did not, and no event its own writes cause, keeps it
\* busy (events.py:51-141 with MO's events, test_sync.py).
Converges ==
    <>[](\A u \in Uuids : Settles(u)) => <>[](Quiescent /\ \A u \in Uuids : Synced(u))

\* sync() deletes a class only while nothing of it is under another facet than
\* kle_number: "err on the side of caution and abort if the MO class is not under
\* the kle_number facet" (events.py:106-107).
DeletesOnlyKle ==
    [][\A w \in Workers : DeleteClass(w) => FacetsOf(mo[uuid[w]]) \subseteq {Kle}]_vars

=============================================================================
