-------------------------- MODULE SyncActionProofs ---------------------------
(***************************************************************************)
(* Proofs of the action properties of Sync: what the integration leaves    *)
(* alone, what a successful answer means, and the promise of module        *)
(* Mirror: what the integration knows it has to look at is what is pending *)
(* or attended to.                                                         *)
(***************************************************************************)
EXTENDS SyncProofs

-----------------------------------------------------------------------------
(* Unrelated classes. *)

\* An execution of sync() for a UUID that is not related has found nothing in
\* FKK and a class that is not wholly under the facet kle_number, and so will
\* not get as far as a mutation.
Harmless(w) ==
    /\ pc[w] \in {"read_fkk", "read_mo", "decide"}
    /\ pc[w] \in {"read_mo", "decide"} => klasse[w] = {}
    /\ pc[w] = "decide" => Foreign(moClass[w])

UnrelatedInv ==
    /\ \A u \in Uuids \ related : fkk[u] = {} /\ Foreign(mo[u])
    /\ \A w \in Workers : Working(w) /\ uuid[w] \notin related => Harmless(w)
    /\ \A m \in late : m.uuid \in related

\* A class that has just been deleted is not wholly under any facet.
LEMMA NoClassForeign == Foreign(NoClass)
  BY DEF Foreign, FacetsOf, NoClass

\* A worker that calls a mutation works on a related UUID.
LEMMA CallsRelated ==
    ASSUME TypeOK, UnrelatedInv, NEW w \in Workers, NEW m \in Calls(w)
    PROVE  m.uuid \in related
  <1>1. m.uuid = uuid[w] /\ pc[w] \in MutationOps /\ Working(w)
    BY CallsType DEF TypeOK, LocalsOK, Calls, MutationOps
  <1> QED
    BY <1>1 DEF UnrelatedInv, Harmless, MutationOps

\* Workers that leave sync() are no concern, and the others stay as they are.
LEMMA LeaveUnrelated ==
    ASSUME TypeOK, UnrelatedInv, NEW W \in SUBSET Workers, NEW answer,
           Leave(W, answer), related' = related
    PROVE  \A w \in Workers : (Working(w) /\ uuid[w] \notin related => Harmless(w))'
  <1> SUFFICES ASSUME NEW w \in Workers, Working(w)', uuid'[w] \notin related
               PROVE  Harmless(w)'
    OBVIOUS
  <1>1. w \notin W
    BY DEF Leave, Working
  <1>2. pc'[w] = pc[w] /\ uuid'[w] = uuid[w] /\ klasse'[w] = klasse[w] /\ moClass'[w] = moClass[w]
    BY <1>1 DEF Leave
  <1> QED
    BY <1>2 DEF UnrelatedInv, Working, Harmless

\* A mutation of a related UUID, or none at all, keeps the stores unrelated.
LEMMA StoreUnrelated ==
    ASSUME TypeOK, UnrelatedInv, NEW u \in related, NEW class, NEW writer,
           Store(u, class, writer), UNCHANGED <<fkk, related>>
    PROVE  \A x \in Uuids \ related : mo'[x] = mo[x] /\ fkk'[x] = {} /\ Foreign(mo'[x])
  BY DEF TypeOK, StoresOK, Store, UnrelatedInv

LEMMA UnrelatedStep ==
    ASSUME TypeOK, UnrelatedInv, [Next]_vars
    PROVE  /\ UnrelatedInv'
           /\ \A u \in Uuids \ related : edits' = edits => mo'[u] = mo[u]
  <1> USE SyncAssumption
  <1> DEFINE Same(w) == /\ pc'[w] = pc[w] /\ uuid'[w] = uuid[w]
                        /\ klasse'[w] = klasse[w] /\ moClass'[w] = moClass[w]
  <1>0. ASSUME NEW w \in Workers, Same(w), related \subseteq related'
        PROVE  (Working(w) /\ uuid[w] \notin related => Harmless(w))'
    BY <1>0 DEF UnrelatedInv, Working, Harmless
  <1>1. ASSUME NEW h \in Workers, NEW x \in Uuids, Take(h, x) \/ PostSync(h, x)
        PROVE  UnrelatedInv' /\ mo' = mo
    <2>1. Enter(h, x)
      BY <1>1 DEF Take, PostSync
    <2>2. \A w \in Workers \ {h} : Same(w)
      BY <2>1 DEF Enter, TypeOK, LocalsOK
    <2>3. Harmless(h)'
      BY <2>1 DEF Enter, Harmless, TypeOK, LocalsOK
    <2> QED
      BY <1>0, <2>1, <2>2, <2>3 DEF Enter, environment, UnrelatedInv
  <1>2. ASSUME NEW w \in Workers, ReadFKK(w)
        PROVE  UnrelatedInv' /\ mo' = mo
    <2>1. \A v \in Workers \ {w} : Same(v)
      BY <1>2 DEF ReadFKK, TypeOK, LocalsOK
    <2>2. uuid[w] \in Uuids
      BY <1>2 DEF ReadFKK, TypeOK, LocalsOK, Working
    <2>3. uuid[w] \notin related => Harmless(w)'
      BY <1>2, <2>2 DEF ReadFKK, Harmless, UnrelatedInv, TypeOK, LocalsOK
    <2> QED
      BY <1>0, <1>2, <2>1, <2>3 DEF ReadFKK, environment, UnrelatedInv
  <1>3. ASSUME NEW w \in Workers, ReadMO(w)
        PROVE  UnrelatedInv' /\ mo' = mo
    <2>1. \A v \in Workers \ {w} : Same(v)
      BY <1>3 DEF ReadMO, TypeOK, LocalsOK
    <2>2. uuid[w] \in Uuids /\ Working(w)
      BY <1>3 DEF ReadMO, TypeOK, LocalsOK, Working
    <2>3. moClass'[w] = mo[uuid[w]] /\ pc'[w] = "decide" /\ klasse'[w] = klasse[w]
      BY <1>3 DEF ReadMO, TypeOK, LocalsOK
    <2>4. uuid[w] \notin related => Foreign(mo[uuid[w]]) /\ klasse[w] = {}
      BY <1>3, <2>2 DEF ReadMO, Harmless, UnrelatedInv
    <2>5. uuid[w] \notin related => Harmless(w)'
      BY <2>3, <2>4 DEF Harmless, Foreign, FacetsOf
    <2> QED
      BY <1>0, <1>3, <2>1, <2>5 DEF ReadMO, environment, UnrelatedInv
  <1>4. ASSUME NEW w \in Workers, Decide(w)
        PROVE  UnrelatedInv' /\ mo' = mo
    <2>1. /\ UNCHANGED <<fkk, mo, related, late>>
          /\ pc[w] = "decide" /\ Working(w)
      BY <1>4 DEF Decide, environment, TypeOK, LocalsOK
    <2>2. ASSUME NEW answer, Leave({w}, answer)
          PROVE  UnrelatedInv'
      BY <2>1, <2>2, LeaveUnrelated DEF UnrelatedInv
    <2>3. CASE /\ moClass[w].validities # klasse[w]
               /\ klasse[w] = {} => ~Foreign(moClass[w])
               /\ uuid' = uuid
      <3>1. uuid'[w] \in related
        BY <2>1, <2>3 DEF UnrelatedInv, Harmless
      <3>2. \A v \in Workers \ {w} : Same(v)
        BY <1>4, <2>3 DEF Decide, Leave, TypeOK, LocalsOK
      <3> QED
        BY <1>0, <2>1, <3>1, <3>2 DEF UnrelatedInv
    <2> QED
      BY <1>4, <2>1, <2>2, <2>3 DEF Decide
  <1>5. ASSUME NEW w \in Workers,
               \/ DeleteClass(w) \/ CreateClass(w)
               \/ TruncateClass(w) \/ UpdateClass(w)
        PROVE  UnrelatedInv' /\ \A u \in Uuids \ related : mo'[u] = mo[u]
    <2>1. PICK m \in Calls(w) : Applied(w, m)
      BY <1>5 DEF DeleteClass, CreateClass, TruncateClass, UpdateClass
    <2>2. m.uuid \in related /\ m.uuid = uuid[w] /\ Working(w)
      BY <2>1, CallsRelated, CallsType DEF TypeOK, LocalsOK, Calls, MutationOps
    <2>3. UNCHANGED <<fkk, related, late>>
      BY <2>1 DEF Applied, environment
    <2>4. \A u \in Uuids \ related : mo'[u] = mo[u] /\ fkk'[u] = {} /\ Foreign(mo'[u])
      BY <2>1, <2>2, <2>3, StoreUnrelated DEF Applied
    <2>5. \/ \E answer : Leave({w}, answer)
          \/ \E rest : Continue(w, rest)
      BY <1>5 DEF DeleteClass, CreateClass, TruncateClass, UpdateClass
    <2>6. \A v \in Workers \ {w} : Same(v)
      BY <2>5 DEF Continue, Leave, TypeOK, LocalsOK
    <2>7. uuid'[w] \in {uuid[w], NoUuid}
      BY <2>5 DEF Continue, Leave, TypeOK, LocalsOK
    <2>8. \A u \in Uuids \ related : Foreign(mo[u])'
      BY <2>4 DEF Foreign, FacetsOf
    <2> QED
      BY <1>0, <2>2, <2>3, <2>4, <2>6, <2>7, <2>8 DEF UnrelatedInv, Working
  <1>6. ASSUME NEW w \in Workers, Refused(w) \/ Unconverted(w) \/ Fail(w)
        PROVE  UnrelatedInv' /\ mo' = mo
    <2>1. Raise({w}) /\ UNCHANGED <<fkk, related>>
      BY <1>6 DEF Refused, Unconverted, Fail, environment
    <2>2. \A m \in late' : m.uuid \in related
      BY <1>6, CallsRelated DEF Refused, Unconverted, Fail, UnrelatedInv
    <2>3. \A v \in Workers : (Working(v) /\ uuid[v] \notin related => Harmless(v))'
      BY <2>1, LeaveUnrelated DEF Raise
    <2> QED
      BY <2>1, <2>2, <2>3 DEF Raise, UnrelatedInv, Foreign, FacetsOf
  <1>7. ASSUME Crash
        PROVE  UnrelatedInv' /\ mo' = mo
    <2>1. PICK sent \in SUBSET UNION {{w} \X Calls(w) : w \in Workers} :
              late' = late \union {x[2] : x \in sent}
      BY <1>7 DEF Crash
    <2>2. \A x \in sent : x[2].uuid \in related
      BY CallsRelated
    <2>3. \A m \in late' : m.uuid \in related
      BY <2>1, <2>2 DEF UnrelatedInv
    <2>4. /\ Raise({w \in Workers : Working(w)}) /\ UNCHANGED <<fkk, related>>
          /\ {w \in Workers : Working(w)} \in SUBSET Workers
      BY <1>7 DEF Crash
    <2>5. \A v \in Workers : (Working(v) /\ uuid[v] \notin related => Harmless(v))'
      BY <2>4, LeaveUnrelated DEF Raise
    <2> QED
      BY <2>3, <2>4, <2>5 DEF Raise, UnrelatedInv, Foreign, FacetsOf
  <1>8. ASSUME NEW m \in late, ApplyLate(m)
        PROVE  UnrelatedInv' /\ \A u \in Uuids \ related : mo'[u] = mo[u]
    <2>1. m.uuid \in related /\ late' \subseteq late /\ UNCHANGED <<fkk, related>>
      BY <1>8 DEF UnrelatedInv, ApplyLate, environment
    <2>2. \A w \in Workers : Same(w)
      BY <1>8 DEF ApplyLate, locals
    <2>3. \A u \in Uuids \ related : mo'[u] = mo[u] /\ fkk'[u] = {} /\ Foreign(mo'[u])
      BY <1>8, <2>1, StoreUnrelated DEF ApplyLate, UnrelatedInv
    <2>4. \A u \in Uuids \ related : Foreign(mo[u])'
      BY <2>3 DEF Foreign, FacetsOf
    <2> QED
      BY <1>0, <2>1, <2>2, <2>3, <2>4 DEF UnrelatedInv
  <1>9. ASSUME NEW x \in Uuids, NEW h \in Handlers, Publish(x) \/ Duplicate(h, x)
        PROVE  UnrelatedInv' /\ mo' = mo
    <2>1. UNCHANGED <<fkk, mo, related, late>> /\ \A w \in Workers : Same(w)
      BY <1>9 DEF Publish, Duplicate, locals
    <2> QED
      BY <1>0, <2>1 DEF UnrelatedInv, Foreign, FacetsOf
  <1>10. ASSUME NEW x \in Uuids, NEW K \in Klasser \union Faulty, FKKChange(x, K)
         PROVE  UnrelatedInv' /\ mo' = mo
    <2>1. /\ \A w \in Workers : Same(w)
          /\ mo' = mo /\ late' = late
          /\ related' = related \union {x}
      BY <1>10 DEF FKKChange, locals
    <2>2. \A u \in Uuids \ related' : fkk'[u] = {}
      BY <1>10, <2>1 DEF FKKChange, UnrelatedInv, TypeOK, StoresOK
    <2>3. \A u \in Uuids \ related' : Foreign(mo[u])'
      BY <2>1 DEF UnrelatedInv, Foreign, FacetsOf
    <2> QED
      BY <1>0, <2>1, <2>2, <2>3 DEF UnrelatedInv
  <1>11. ASSUME NEW x \in Uuids, NEW class \in Edited, UserEdit(x, class)
         PROVE  UnrelatedInv' /\ edits' # edits
    <2>1. /\ \A w \in Workers : Same(w)
          /\ fkk' = fkk /\ late' = late
          /\ related' = related \union {y \in {x} : FacetsOf(class) = {Kle}}
          /\ mo' = [mo EXCEPT ![x] = class]
      BY <1>11 DEF UserEdit, Store, locals
    <2>2. \A u \in Uuids \ related' : Foreign(mo[u])'
      BY <2>1 DEF UnrelatedInv, Foreign, FacetsOf, TypeOK, StoresOK
    <2>3. edits' # edits
      BY <1>11 DEF UserEdit, TypeOK, StoresOK
    <2> QED
      BY <1>0, <2>1, <2>2, <2>3 DEF UnrelatedInv
  <1>12. ASSUME UNCHANGED vars
         PROVE  UnrelatedInv' /\ mo' = mo
    <2>1. UNCHANGED <<fkk, mo, related, late>> /\ \A w \in Workers : Same(w)
      BY <1>12 DEF vars, environment, locals
    <2> QED
      BY <1>0, <2>1 DEF UnrelatedInv, Foreign, FacetsOf
  <1>13. Handlers \subseteq Workers /\ Requests \subseteq Workers
         /\ "mo_handler" \in Handlers
    BY DEF Workers, Handlers
  <1> QED
    BY <1>1, <1>2, <1>3, <1>4, <1>5, <1>6, <1>7, <1>8, <1>9, <1>10, <1>11,
       <1>12, <1>13 DEF Next, Step

\* A class that FKK never had, and that was never wholly under the facet
\* kle_number, is changed by MO's users only.
THEOREM UnrelatedIsUntouched == Spec => UnrelatedUntouched
  <1>1. Init => UnrelatedInv
    BY NoClassForeign DEF Init, UnrelatedInv, Working
  <1>2. TypeOK /\ UnrelatedInv /\ [Next]_vars =>
            /\ UnrelatedInv'
            /\ [\A u \in Uuids \ related : edits' = edits => mo'[u] = mo[u]]_vars
    BY UnrelatedStep
  <1> QED
    BY <1>1, <1>2, TypeCorrect, PTL DEF Spec, UnrelatedUntouched

-----------------------------------------------------------------------------
(* Truthful answers. *)

\* As long as nobody else has written the class of request r, what r is about
\* to do completes what MO holds to the Klasse r has read.
OnCourse(r) ==
    LET stored == mo[uuid[r]].validities
    IN  /\ pc[r] = "decide" => moClass[r].validities = stored
        /\ pc[r] = "delete" => klasse[r] = {}
        /\ pc[r] = "create" => stored = {}
        /\ pc[r] \in {"create", "truncate"} => desired[r] = klasse[r]
        /\ pc[r] = "update" => stored = Kept(klasse[r] \ desired[r])

Undisturbed(r) == Working(r) /\ r \notin raced => OnCourse(r)

\* The action of TruthfulAnswer for one request.
Truthful(r) ==
    response'[r] \in Statuses \ {"wont_delete"} /\ response[r] = "none" /\ r \notin raced
        => mo'[uuid[r]].validities =
               IF response'[r] = "create_or_update" THEN Kept(klasse[r]) ELSE klasse[r]

\* Writing one more validity of a Klasse adds it and changes none of those
\* written before, since they do not overlap.
LEMMA WrittenAdds ==
    ASSUME NEW K \in Klasser, NEW rest \in SUBSET K, NEW v \in rest
    PROVE  Written(Kept(K \ rest), Stored(v)) = Kept(K \ (rest \ {v}))
  <1>1. \A x \in K \ rest : ~Overlap(Stored(x), Stored(v))
    BY SyncAssumption
  <1>2. \A y \in Kept(K \ rest) : Remainders(y, Stored(v)) = {y}
    BY <1>1 DEF Remainders, Kept
  <1>3. (UNION {Remainders(y, Stored(v)) : y \in Kept(K \ rest)}) = Kept(K \ rest)
    BY <1>2
  <1>4. {Stored(v)} \union Kept(K \ rest) = Kept(K \ (rest \ {v}))
    BY DEF Kept
  <1> QED
    BY <1>3, <1>4 DEF Written

\* A step in which r does not move: either its class stays as it is, or r is
\* recorded as raced.
LEMMA RequestStill ==
    ASSUME TypeOK, NEW r \in Requests, Undisturbed(r),
           pc'[r] = pc[r], uuid'[r] = uuid[r], klasse'[r] = klasse[r],
           moClass'[r] = moClass[r], desired'[r] = desired[r],
           response'[r] = response[r],
           \/ mo' = mo /\ raced' = raced
           \/ \E u \in Uuids, writer \in SUBSET (Workers \ {r}) :
                  \E class \in Classes : Store(u, class, writer)
    PROVE  Undisturbed(r)' /\ Truthful(r)
  <1>1. Truthful(r)
    BY DEF Truthful, Statuses
  <1>2. ASSUME mo'[uuid[r]] = mo[uuid[r]], raced \subseteq raced'
        PROVE  Undisturbed(r)'
    BY <1>2 DEF Undisturbed, Working, OnCourse
  <1>3. CASE mo' = mo /\ raced' = raced
    BY <1>1, <1>2, <1>3
  <1>4. ASSUME NEW u \in Uuids, NEW writer \in SUBSET (Workers \ {r}),
               NEW class \in Classes, Store(u, class, writer)
        PROVE  Undisturbed(r)'
    <2>1. CASE uuid[r] = u
      BY <1>4, <2>1 DEF Store, Undisturbed
    <2>2. CASE uuid[r] # u
      BY <1>2, <1>4, <2>2 DEF Store, TypeOK, StoresOK
    <2> QED
      BY <2>1, <2>2
  <1> QED
    BY <1>1, <1>3, <1>4

\* The loop of r over the validities left, after a mutation that left rest.
LEMMA ContinueOnCourse ==
    ASSUME TypeOK, NEW r \in Requests, Working(r), NEW rest \in SUBSET klasse[r],
           Continue(r, rest),
           r \in raced \/ mo'[uuid[r]].validities = Kept(klasse[r] \ rest),
           raced \subseteq raced'
    PROVE  Undisturbed(r)' /\ Truthful(r)
  <1>0. r \in Workers
    BY DEF Workers
  <1>1. CASE rest = {}
    <2>1. ~Working(r)'
      BY <1>0, <1>1 DEF Continue, Leave, Working
    <2>2. response'[r] = "create_or_update" /\ klasse[r] \ rest = klasse[r]
      BY <1>0, <1>1 DEF Continue, Leave
    <2> QED
      BY <2>1, <2>2 DEF Undisturbed, Truthful
  <1>2. CASE rest # {}
    <2>1. /\ pc'[r] = "update" /\ desired'[r] = rest
          /\ UNCHANGED <<uuid, klasse, moClass, response>>
      BY <1>0, <1>2 DEF Continue, TypeOK, LocalsOK
    <2>2. Truthful(r)
      BY <2>1 DEF Truthful, Statuses
    <2>3. Undisturbed(r)'
      BY <2>1 DEF Undisturbed, OnCourse, Working
    <2> QED
      BY <2>2, <2>3
  <1> QED
    BY <1>1, <1>2

\* A worker other than r leaves r where it is.
LEMMA LeaveStill ==
    ASSUME TypeOK, NEW r \in Requests, NEW W \in SUBSET Workers, r \notin W,
           NEW answer, Leave(W, answer)
    PROVE  /\ pc'[r] = pc[r] /\ uuid'[r] = uuid[r] /\ klasse'[r] = klasse[r]
           /\ moClass'[r] = moClass[r] /\ desired'[r] = desired[r]
           /\ response'[r] = response[r]
  BY DEF Leave, Workers

\* A request that gives up with an error owes nothing.
LEMMA RaiseOnCourse ==
    ASSUME TypeOK, NEW r \in Requests, Undisturbed(r),
           NEW W \in SUBSET Workers, Raise(W)
    PROVE  Undisturbed(r)' /\ Truthful(r)
  <1>1. CASE r \in W
    <2>1. ~Working(r)' /\ response'[r] = "error"
      BY <1>1 DEF Raise, Leave, Working
    <2> QED
      BY <2>1 DEF Undisturbed, Truthful, Statuses
  <1>2. CASE r \notin W
    <2>1. /\ pc'[r] = pc[r] /\ uuid'[r] = uuid[r] /\ klasse'[r] = klasse[r]
          /\ moClass'[r] = moClass[r] /\ desired'[r] = desired[r]
          /\ response'[r] = response[r]
      BY <1>2, LeaveStill DEF Raise
    <2> QED
      BY <2>1, RequestStill DEF Raise
  <1> QED
    BY <1>1, <1>2

\* A mutation of another worker.
LEMMA OtherMutates ==
    ASSUME TypeOK, NEW r \in Requests, Undisturbed(r), NEW w \in Workers \ {r},
           \/ DeleteClass(w) \/ CreateClass(w)
           \/ TruncateClass(w) \/ UpdateClass(w)
    PROVE  Undisturbed(r)' /\ Truthful(r)
  <1>1. PICK m \in Calls(w) : Applied(w, m)
    BY DEF DeleteClass, CreateClass, TruncateClass, UpdateClass
  <1>2. m \in Mutations /\ m.uuid \in Uuids
    BY CallsType DEF TypeOK
  <1>3. Effect(m, mo[m.uuid]) \in Classes
    BY <1>2, EffectType DEF TypeOK, StoresOK
  <1>4. \/ \E answer : Leave({w}, answer)
        \/ \E rest : Continue(w, rest)
    BY DEF DeleteClass, CreateClass, TruncateClass, UpdateClass
  <1>5. /\ pc'[r] = pc[r] /\ uuid'[r] = uuid[r] /\ klasse'[r] = klasse[r]
        /\ moClass'[r] = moClass[r] /\ desired'[r] = desired[r]
        /\ response'[r] = response[r]
    <2>1. ASSUME NEW rest, Continue(w, rest), rest # {}
          PROVE  /\ pc'[r] = pc[r] /\ desired'[r] = desired[r]
                 /\ UNCHANGED <<uuid, klasse, moClass, response>>
      BY <2>1 DEF Continue, TypeOK, LocalsOK, Workers
    <2>2. CASE \E answer : Leave({w}, answer)
      BY <2>2, LeaveStill
    <2> QED
      BY <1>4, <2>1, <2>2 DEF Continue
  <1>6. Store(m.uuid, Effect(m, mo[m.uuid]), {w}) /\ {w} \in SUBSET (Workers \ {r})
    BY <1>1 DEF Applied
  <1> QED
    BY <1>2, <1>3, <1>5, <1>6, RequestStill

\* A mutation of r itself.
LEMMA RequestMutates ==
    ASSUME TypeOK, NEW r \in Requests, Undisturbed(r),
           \/ DeleteClass(r) \/ CreateClass(r)
           \/ TruncateClass(r) \/ UpdateClass(r)
    PROVE  Undisturbed(r)' /\ Truthful(r)
  <1>0. r \in Workers
    BY DEF Workers
  <1>1. PICK m \in Calls(r) : Applied(r, m)
             /\ \/ pc[r] = "delete" /\ Leave({r}, "delete")
                \/ pc[r] = "truncate" /\ Continue(r, desired[r])
                \/ pc[r] \in {"create", "update"} /\ Continue(r, desired[r] \ {m.validity})
    BY DEF DeleteClass, CreateClass, TruncateClass, UpdateClass
  <1>2. /\ m.op = pc[r] /\ m.uuid = uuid[r] /\ uuid[r] \in Uuids
        /\ m.op \in {"create", "update"} => m.validity \in desired[r]
    BY <1>0, CallsType DEF TypeOK
  <1>3. Working(r) /\ raced \subseteq raced'
    BY <1>0, <1>1 DEF Applied, Store, TypeOK, LocalsOK
  <1>4. mo'[uuid[r]] = Effect(m, mo[uuid[r]])
    BY <1>1, <1>2 DEF Applied, Store, TypeOK, StoresOK
  <1>5. pc[r] \in {"create", "update"} => klasse[r] \in Klasser
    BY <1>0 DEF TypeOK, LocalsOK
  <1>6. mo[uuid[r]] \in Classes
    BY <1>2 DEF TypeOK, StoresOK
  <1>7. CASE pc[r] = "delete"
    <2>1. Leave({r}, "delete")
      BY <1>1, <1>7
    <2>2. ~Working(r)'
      BY <1>0, <2>1 DEF Leave, Working
    <2>3. mo'[uuid[r]].validities = {}
      BY <1>2, <1>4, <1>7 DEF Effect, NoClass
    <2>4. r \notin raced => klasse[r] = {}
      BY <1>3, <1>7 DEF Undisturbed, OnCourse
    <2>5. response'[r] = "delete"
      BY <2>1 DEF Leave
    <2> QED
      BY <2>2, <2>3, <2>4, <2>5 DEF Undisturbed, Truthful
  <1>8. CASE pc[r] = "truncate"
    <2>1. Continue(r, desired[r]) /\ desired[r] \subseteq klasse[r]
      BY <1>0, <1>1, <1>8 DEF TypeOK, LocalsOK
    <2>2. mo'[uuid[r]].validities = {}
      BY <1>2, <1>4, <1>6, <1>8 DEF Effect, Classes
    <2>3. r \notin raced => desired[r] = klasse[r]
      BY <1>3, <1>8 DEF Undisturbed, OnCourse
    <2>4. r \in raced \/ mo'[uuid[r]].validities = Kept(klasse[r] \ desired[r])
      BY <2>2, <2>3 DEF Kept
    <2> QED
      BY <1>3, <2>1, <2>4, ContinueOnCourse
  <1>9. CASE pc[r] \in {"create", "update"}
    <2>1. /\ Continue(r, desired[r] \ {m.validity})
          /\ desired[r] \subseteq klasse[r] /\ m.validity \in desired[r]
      BY <1>0, <1>1, <1>2, <1>9 DEF TypeOK, LocalsOK
    <2>2. mo'[uuid[r]].validities = Written(mo[uuid[r]].validities, Stored(m.validity))
      BY <1>2, <1>4, <1>9 DEF Effect
    <2>3. r \notin raced => mo[uuid[r]].validities = Kept(klasse[r] \ desired[r])
      <3>1. pc[r] = "create" => Kept(klasse[r] \ klasse[r]) = {}
        BY DEF Kept
      <3> QED
        BY <1>3, <1>9, <3>1 DEF Undisturbed, OnCourse
    <2>4. r \in raced \/ mo'[uuid[r]].validities = Kept(klasse[r] \ (desired[r] \ {m.validity}))
      BY <1>5, <1>9, <2>1, <2>2, <2>3, WrittenAdds
    <2> QED
      BY <1>3, <2>1, <2>4, ContinueOnCourse
  <1> QED
    BY <1>1, <1>7, <1>8, <1>9

LEMMA TruthStep ==
    ASSUME TypeOK, [Next]_vars, NEW r \in Requests, Undisturbed(r)
    PROVE  Undisturbed(r)' /\ Truthful(r)
  <1> USE SyncAssumption
  <1>0. r \in Workers /\ r \notin Handlers
    BY DEF Workers
  <1> DEFINE Still == /\ pc'[r] = pc[r] /\ uuid'[r] = uuid[r]
                      /\ klasse'[r] = klasse[r] /\ moClass'[r] = moClass[r]
                      /\ desired'[r] = desired[r] /\ response'[r] = response[r]
  <1>1. ASSUME NEW h \in Workers, NEW x \in Uuids, Take(h, x) \/ PostSync(h, x)
        PROVE  Undisturbed(r)' /\ Truthful(r)
    <2>1. Enter(h, x)
      BY <1>1 DEF Take, PostSync
    <2>2. CASE h = r
      BY <1>0, <2>1, <2>2
         DEF Enter, Undisturbed, OnCourse, Truthful, Statuses, TypeOK, LocalsOK
    <2>3. CASE h # r
      BY <1>0, <2>1, <2>3, RequestStill DEF Enter, TypeOK, LocalsOK
    <2> QED
      BY <2>2, <2>3
  <1>2. ASSUME NEW w \in Workers, ReadFKK(w)
        PROVE  Undisturbed(r)' /\ Truthful(r)
    <2>1. CASE w = r
      BY <1>0, <1>2, <2>1
         DEF ReadFKK, Undisturbed, OnCourse, Truthful, Statuses, TypeOK, LocalsOK
    <2>2. CASE w # r
      BY <1>0, <1>2, <2>2, RequestStill DEF ReadFKK, TypeOK, LocalsOK
    <2> QED
      BY <2>1, <2>2
  <1>3. ASSUME NEW w \in Workers, ReadMO(w)
        PROVE  Undisturbed(r)' /\ Truthful(r)
    <2>1. CASE w = r
      BY <1>0, <1>3, <2>1
         DEF ReadMO, Undisturbed, OnCourse, Truthful, Statuses, TypeOK, LocalsOK
    <2>2. CASE w # r
      BY <1>0, <1>3, <2>2, RequestStill DEF ReadMO, TypeOK, LocalsOK
    <2> QED
      BY <2>1, <2>2
  <1>4. ASSUME NEW w \in Workers, Decide(w)
        PROVE  Undisturbed(r)' /\ Truthful(r)
    <2>1. UNCHANGED <<mo, raced>> /\ pc[w] = "decide" /\ Working(w)
      BY <1>4 DEF Decide, TypeOK, LocalsOK
    <2>2. CASE w = r /\ Leave({r}, IF moClass[r].validities = klasse[r]
                                   THEN "up_to_date" ELSE "wont_delete")
      <3>1. ~Working(r)'
        BY <1>0, <2>2 DEF Leave, Working
      <3>2. response'[r] = "up_to_date" => moClass[r].validities = klasse[r]
        BY <2>2 DEF Leave
      <3>3. response'[r] \in {"up_to_date", "wont_delete"}
        BY <2>2 DEF Leave
      <3>4. r \notin raced => mo'[uuid[r]].validities = moClass[r].validities
        BY <2>1, <2>2 DEF Undisturbed, OnCourse
      <3> QED
        BY <3>1, <3>2, <3>3, <3>4 DEF Undisturbed, Truthful
    <2>3. CASE /\ w = r
               /\ pc' = [pc EXCEPT ![w] = NextCall(moClass[w], klasse[w])]
               /\ desired' = [desired EXCEPT ![w] = klasse[w]]
               /\ UNCHANGED <<uuid, klasse, response>>
      <3>1. pc'[r] = NextCall(moClass[r], klasse[r]) /\ desired'[r] = klasse[r]
        BY <1>0, <2>3 DEF TypeOK, LocalsOK
      <3>2. /\ pc'[r] \in {"delete", "create", "truncate"}
            /\ pc'[r] = "delete" => klasse[r] = {}
            /\ pc'[r] = "create" => moClass[r].validities = {}
        BY <3>1 DEF NextCall
      <3>3. Truthful(r)
        BY <2>3 DEF Truthful, Statuses
      <3>4. Undisturbed(r)'
        BY <2>1, <2>3, <3>1, <3>2 DEF Undisturbed, OnCourse, Working
      <3> QED
        BY <3>3, <3>4
    <2>4. CASE w # r
      <3>1. CASE \E answer : Leave({w}, answer)
        BY <2>1, <2>4, <3>1, LeaveStill, RequestStill
      <3>2. CASE UNCHANGED <<uuid, klasse, response>>
        BY <1>0, <1>4, <2>1, <2>4, <3>2, RequestStill DEF Decide, Leave, TypeOK, LocalsOK
      <3> QED
        BY <1>4, <3>1, <3>2 DEF Decide
    <2> QED
      BY <1>4, <2>2, <2>3, <2>4 DEF Decide
  <1>5. ASSUME NEW w \in Workers,
               \/ DeleteClass(w) \/ CreateClass(w)
               \/ TruncateClass(w) \/ UpdateClass(w)
        PROVE  Undisturbed(r)' /\ Truthful(r)
    BY <1>5, OtherMutates, RequestMutates
  <1>6. ASSUME NEW w \in Workers, Refused(w) \/ Unconverted(w) \/ Fail(w)
        PROVE  Undisturbed(r)' /\ Truthful(r)
    BY <1>6, RaiseOnCourse DEF Refused, Unconverted, Fail
  <1>7. ASSUME Crash
        PROVE  Undisturbed(r)' /\ Truthful(r)
    <2>1. {w \in Workers : Working(w)} \in SUBSET Workers
      OBVIOUS
    <2> QED
      BY <1>7, <2>1, RaiseOnCourse DEF Crash
  <1>8. ASSUME NEW m \in late, ApplyLate(m)
        PROVE  Undisturbed(r)' /\ Truthful(r)
    <2>1. m \in Mutations /\ m.uuid \in Uuids
      BY DEF TypeOK, StoresOK, Mutations
    <2>2. Effect(m, mo[m.uuid]) \in Classes
      BY <2>1, EffectType DEF TypeOK, StoresOK
    <2>3. Still
      BY <1>8 DEF ApplyLate, locals
    <2> QED
      BY <1>8, <2>1, <2>2, <2>3, RequestStill DEF ApplyLate
  <1>9. ASSUME NEW x \in Uuids, NEW class \in Edited, UserEdit(x, class)
        PROVE  Undisturbed(r)' /\ Truthful(r)
    <2>1. Still /\ Store(x, class, {})
      BY <1>9 DEF UserEdit, locals
    <2> QED
      BY <2>1, RequestStill
  <1>10. ASSUME UNCHANGED <<pc, locals, response, mo, raced>>
         PROVE  Undisturbed(r)' /\ Truthful(r)
    BY <1>10, RequestStill DEF locals
  <1>11. ASSUME NEW x \in Uuids, NEW h \in Handlers, NEW K \in Klasser \union Faulty,
                Publish(x) \/ Duplicate(h, x) \/ FKKChange(x, K)
         PROVE  UNCHANGED <<pc, locals, response, mo, raced>>
    BY <1>11 DEF Publish, Duplicate, FKKChange
  <1>12. UNCHANGED vars => UNCHANGED <<pc, locals, response, mo, raced>>
    BY DEF vars
  <1>13. Handlers \subseteq Workers /\ Requests \subseteq Workers
         /\ "mo_handler" \in Handlers /\ {} \in Klasser
    BY DEF Workers, Handlers
  <1> QED
    BY <1>1, <1>2, <1>3, <1>4, <1>5, <1>6, <1>7, <1>8, <1>9, <1>10, <1>11,
       <1>12, <1>13 DEF Next, Step

\* A request whose class nobody else wrote while it ran, and which reports
\* success, leaves in MO exactly the validities of the Klasse it read, as MO
\* keeps them.
THEOREM AnswersAreTruthful == Spec => TruthfulAnswer
  <1> DEFINE Inv == \A r \in Requests : Undisturbed(r)
             Act == \A r \in Requests : Truthful(r)
  <1>1. Init => Inv
    BY DEF Init, Undisturbed, Working, Workers
  <1>2. TypeOK /\ Inv /\ [Next]_vars => Inv' /\ [Act]_vars
    BY TruthStep
  <1>3. [Act]_vars => [\A r \in Requests :
              (response'[r] \in Statuses \ {"wont_delete"} /\ response[r] = "none"
                 /\ r \notin raced)
              => mo'[uuid[r]].validities =
                     IF response'[r] = "create_or_update"
                     THEN Kept(klasse[r]) ELSE klasse[r]]_vars
    BY DEF Truthful
  <1> HIDE DEF Inv, Act
  <1> QED
    BY <1>1, <1>2, <1>3, TypeCorrect, PTL DEF Spec, TruthfulAnswer

-----------------------------------------------------------------------------
(* The promise of module Mirror. *)

Dirty(u) == Pending(u) \/ \E h \in Handlers : Attending(h, u)

\* A step of Sync as Mirror sees it.
DisturbsOne(u) ==
    /\ \A x \in Uuids \ {u} : /\ fkk'[x] = fkk[x] /\ mo'[x] = mo[x]
                              /\ Dirty(x)' <=> Dirty(x)
    /\ Dirty(u)'

NoticesSome ==
    /\ UNCHANGED <<fkk, mo>>
    /\ \A x \in Uuids : Dirty(x) => Dirty(x)'

SettlesOne(u) ==
    /\ UNCHANGED <<fkk, mo>>
    /\ Synced(u) /\ ~Dirty(u)'
    /\ \A x \in Uuids \ {u} : Dirty(x)' <=> Dirty(x)

MirrorStep ==
    \/ NoticesSome
    \/ \E u \in Uuids : DisturbsOne(u) \/ SettlesOne(u)

\* Each of these is a step of Mirror.
LEMMA MirrorStepIsPromised ==
    ASSUME MirrorStep
    PROVE  Promise!Next
  <1> DEFINE D == {u \in Uuids : Pending(u) \/ \E h \in Handlers : Attending(h, u)}
  <1>0. \A x \in Uuids : (x \in D <=> Dirty(x)) /\ (x \in D' <=> Dirty(x)')
    BY DEF Dirty
  <1>1. CASE NoticesSome
    <2>1. D' = D \union D' /\ D' \in SUBSET Uuids
      BY <1>0, <1>1 DEF NoticesSome
    <2>2. Promise!Notice(D')
      BY <1>1, <2>1 DEF NoticesSome, Promise!Notice
    <2> QED
      BY <2>1, <2>2 DEF Promise!Next
  <1>2. ASSUME NEW u \in Uuids, DisturbsOne(u)
        PROVE  Promise!Next
    <2>1. D' = D \union {u}
      BY <1>0, <1>2 DEF DisturbsOne
    <2>2. Promise!Disturb(u)
      BY <1>2, <2>1 DEF DisturbsOne, Promise!Disturb
    <2> QED
      BY <2>2 DEF Promise!Next
  <1>3. ASSUME NEW u \in Uuids, SettlesOne(u)
        PROVE  Promise!Next
    <2>1. D' = D \ {u}
      BY <1>0, <1>3 DEF SettlesOne
    <2>2. Promise!Settle(u)
      BY <1>3, <2>1 DEF SettlesOne, Promise!Settle, Synced
    <2> QED
      BY <2>2 DEF Promise!Next
  <1> QED
    BY <1>1, <1>2, <1>3 DEF MirrorStep

-----------------------------------------------------------------------------
(* Every step of Sync is a MirrorStep. *)

\* The locals of handler h on which its attention depends.
Same(h) == /\ pc'[h] = pc[h] /\ uuid'[h] = uuid[h]
           /\ klasse'[h] = klasse[h] /\ moClass'[h] = moClass[h]

\* Nothing that decides whether x is dirty has changed.
LEMMA DirtyStays ==
    ASSUME NEW x, fkk'[x] = fkk[x], mo'[x] = mo[x], Pending(x)' <=> Pending(x),
           \A h \in Handlers : Same(h) \/ (~Attending(h, x) /\ ~Attending(h, x)')
    PROVE  Dirty(x)' <=> Dirty(x)
  BY DEF Same, Dirty, Attending

\* A write of the class of u disturbs u and no other UUID.
LEMMA StoreDisturbs ==
    ASSUME TypeOK, NEW u \in Uuids, NEW class, NEW writer, Store(u, class, writer),
           UNCHANGED <<fkk, unpublished>>,
           \A h \in Handlers : Same(h) \/ (uuid[h] = u /\ uuid'[h] \in {u, NoUuid})
    PROVE  DisturbsOne(u)
  <1>1. Dirty(u)'
    BY StoreRemembers DEF Dirty
  <1>2. ASSUME NEW x \in Uuids \ {u}
        PROVE  fkk'[x] = fkk[x] /\ mo'[x] = mo[x] /\ (Dirty(x)' <=> Dirty(x))
    <2>1. mo'[x] = mo[x] /\ (Pending(x)' <=> Pending(x))
      BY DEF Store, Pending, TypeOK, StoresOK, Handlers
    <2>2. \A h \in Handlers : Same(h) \/ (~Attending(h, x) /\ ~Attending(h, x)')
      BY SyncAssumption DEF Attending
    <2> QED
      BY <2>1, <2>2, DirtyStays
  <1> QED
    BY <1>1, <1>2 DEF DisturbsOne

\* Messages given back keep their UUIDs dirty, whatever their handlers had read.
LEMMA RaiseNotices ==
    ASSUME TypeOK, NEW W \in SUBSET Workers, Raise(W), UNCHANGED <<fkk, unpublished>>
    PROVE  NoticesSome
  <1>1. SUFFICES ASSUME NEW x \in Uuids, Dirty(x)
                 PROVE  Dirty(x)'
    BY DEF NoticesSome, Raise
  <1>2. Pending(x) => Pending(x)'
    BY DEF Raise, Pending
  <1>3. ASSUME NEW h \in Handlers, Attending(h, x)
        PROVE  Dirty(x)'
    <2>1. CASE h \in W
      BY <1>3, <2>1 DEF Raise, Attending, Pending, Dirty
    <2>2. CASE h \notin W
      <3>1. Same(h)
        BY <2>2 DEF Raise, Leave, Same, Workers
      <3> QED
        BY <1>3, <3>1 DEF Same, Attending, Raise, Dirty
    <2> QED
      BY <2>1, <2>2
  <1> QED
    BY <1>1, <1>2, <1>3 DEF Dirty

LEMMA StepIsMirrorStep ==
    ASSUME TypeOK, Next
    PROVE  MirrorStep
  <1> USE SyncAssumption
  <1>1. ASSUME NEW h \in Handlers, NEW x \in Uuids, Take(h, x)
        PROVE  NoticesSome
    <2>1. UNCHANGED <<fkk, mo, unpublished>> /\ uuid[h] = NoUuid
      BY <1>1 DEF Take, Enter, environment, TypeOK, LocalsOK, Working, Workers
    <2>2. Attending(h, x)'
      BY <1>1 DEF Take, Enter, Attending, TypeOK, LocalsOK, Workers
    <2>3. \A g \in Handlers \ {h} : Same(g)
      BY <1>1 DEF Take, Enter, Same, TypeOK, LocalsOK, Workers
    <2>4. \A u \in Uuids \ {x} : Pending(u) => Pending(u)'
      BY <1>1, <2>1 DEF Take, Pending, TypeOK, StoresOK
    <2>5. \A u \in Uuids, g \in Handlers : Attending(g, u) => Attending(g, u)'
      BY <2>1, <2>3 DEF Attending, Same
    <2> QED
      BY <2>1, <2>2, <2>4, <2>5 DEF NoticesSome, Dirty
  <1>2. ASSUME NEW w \in Workers, ReadFKK(w) \/ ReadMO(w)
        PROVE  NoticesSome
    <2>1. UNCHANGED <<fkk, mo, unpublished, queue>>
      BY <1>2 DEF ReadFKK, ReadMO, environment
    <2>2. \A g \in Handlers \ {w} : Same(g)
      BY <1>2 DEF ReadFKK, ReadMO, Same, TypeOK, LocalsOK, Workers
    <2>3. ASSUME NEW u \in Uuids, Attending(w, u)
          PROVE  Attending(w, u)'
      BY <1>2, <2>3 DEF ReadFKK, ReadMO, environment, Attending, TypeOK, LocalsOK
    <2>4. \A u \in Uuids, g \in Handlers : Attending(g, u) => Attending(g, u)'
      BY <2>1, <2>2, <2>3 DEF Attending, Same
    <2> QED
      BY <2>1, <2>4 DEF NoticesSome, Dirty, Pending
  <1>3. ASSUME NEW w \in Workers, Decide(w)
        PROVE  MirrorStep
    <2>1. UNCHANGED <<fkk, mo, unpublished, queue>> /\ pc[w] = "decide"
      BY <1>3 DEF Decide, environment
    <2>2. \A g \in Handlers \ {w} : Same(g)
      BY <1>3 DEF Decide, Leave, Same, TypeOK, LocalsOK, Workers
    <2>3. PICK x \in Uuids : x = uuid[w]
      BY <2>1 DEF TypeOK, LocalsOK, Working
    <2>4. \A u \in Uuids : (Pending(u)' <=> Pending(u)) /\ (Synced(u)' <=> Synced(u))
      BY <2>1 DEF Pending, Synced, Agrees, Foreign, FacetsOf
    <2>5. \A u \in Uuids, g \in Handlers \ {w} : Attending(g, u)' <=> Attending(g, u)
      BY <2>1, <2>2 DEF Attending, Same
    <2>6. CASE /\ pc' = [pc EXCEPT ![w] = NextCall(moClass[w], klasse[w])]
               /\ UNCHANGED uuid
      <3>1. pc'[w] \in MutationOps /\ uuid'[w] = uuid[w]
        BY <2>6 DEF NextCall, MutationOps, TypeOK, LocalsOK
      <3>2. \A u \in Uuids : Attending(w, u) => Attending(w, u)'
        BY <3>1 DEF Attending, MutationOps
      <3>3. NoticesSome
        BY <2>1, <2>4, <2>5, <3>2 DEF NoticesSome, Dirty
      <3> QED
        BY <3>3 DEF MirrorStep
    <2>7. CASE /\ \/ moClass[w].validities = klasse[w]
                  \/ klasse[w] = {} /\ Foreign(moClass[w])
               /\ \E answer : Leave({w}, answer)
      <3>1. uuid'[w] = NoUuid
        BY <2>7 DEF Leave
      <3>2. \A u \in Uuids : ~Attending(w, u)'
        BY <3>1 DEF Attending
      <3>3. \A u \in Uuids \ {x} : ~Attending(w, u)
        BY <2>3 DEF Attending
      <3>4. \A u \in Uuids \ {x} : Dirty(u)' <=> Dirty(u)
        BY <2>4, <2>5, <3>2, <3>3 DEF Dirty
      <3>5. CASE Dirty(x)' \/ ~Dirty(x)
        <4>1. NoticesSome
          BY <2>1, <3>4, <3>5 DEF NoticesSome
        <4> QED
          BY <4>1 DEF MirrorStep
      <3>6. CASE ~Dirty(x)' /\ Dirty(x)
        <4>1. Attending(w, x) /\ w \in Handlers
          BY <2>3, <2>4, <2>5, <3>6 DEF Dirty
        <4>2. klasse[w] = fkk[x] /\ moClass[w] = mo[x]
          BY <2>1, <4>1 DEF Attending
        <4>3. Synced(x)
          BY <1>3, <2>7, <4>2 DEF Synced, Agrees, Decide, Raises
        <4>4. SettlesOne(x)
          BY <2>1, <3>4, <3>6, <4>3 DEF SettlesOne
        <4> QED
          BY <2>3, <4>4 DEF MirrorStep
      <3> QED
        BY <3>5, <3>6
    <2> QED
      BY <1>3, <2>6, <2>7 DEF Decide
  <1>4. ASSUME NEW w \in Workers,
               \/ DeleteClass(w) \/ CreateClass(w)
               \/ TruncateClass(w) \/ UpdateClass(w)
        PROVE  MirrorStep
    <2>1. PICK m \in Calls(w) : Applied(w, m)
      BY <1>4 DEF DeleteClass, CreateClass, TruncateClass, UpdateClass
    <2>2. PICK x \in Uuids : x = m.uuid /\ x = uuid[w]
      BY CallsType DEF TypeOK
    <2>3. \/ \E answer : Leave({w}, answer)
          \/ \E rest : Continue(w, rest)
      BY <1>4 DEF DeleteClass, CreateClass, TruncateClass, UpdateClass
    <2>4. /\ \A g \in Handlers \ {w} : Same(g)
          /\ uuid'[w] \in {uuid[w], NoUuid}
      BY <2>3 DEF Continue, Leave, Same, TypeOK, LocalsOK, Workers
    <2>5. DisturbsOne(x)
      BY <2>1, <2>2, <2>4, StoreDisturbs DEF Applied, environment
    <2> QED
      BY <2>2, <2>5 DEF MirrorStep
  <1>5. ASSUME NEW w \in Workers, Refused(w) \/ Unconverted(w) \/ Fail(w)
        PROVE  NoticesSome
    BY <1>5, RaiseNotices DEF Refused, Unconverted, Fail, environment
  <1>6. ASSUME Crash
        PROVE  NoticesSome
    <2>1. {w \in Workers : Working(w)} \in SUBSET Workers
      OBVIOUS
    <2> QED
      BY <1>6, <2>1, RaiseNotices DEF Crash
  <1>7. ASSUME UNCHANGED <<fkk, mo, unpublished, pc, uuid, klasse, moClass>>,
               \A h \in Handlers : queue[h] \subseteq queue'[h]
        PROVE  NoticesSome
    <2>1. \A u \in Uuids, h \in Handlers : Attending(h, u) => Attending(h, u)'
      BY <1>7 DEF Attending
    <2> QED
      BY <1>7, <2>1 DEF NoticesSome, Dirty, Pending
  <1>8. ASSUME NEW m \in late, ApplyLate(m)
        PROVE  MirrorStep
    <2>1. m.uuid \in Uuids
      BY DEF TypeOK, StoresOK, Mutations
    <2>2. UNCHANGED <<fkk, unpublished, pc, uuid, klasse, moClass>>
      BY <1>8 DEF ApplyLate, environment, locals
    <2>3. CASE Store(m.uuid, Effect(m, mo[m.uuid]), {})
      <3>1. \A h \in Handlers : Same(h)
        BY <2>2 DEF Same
      <3>2. DisturbsOne(m.uuid)
        BY <2>1, <2>2, <2>3, <3>1, StoreDisturbs
      <3> QED
        BY <2>1, <3>2 DEF MirrorStep
    <2>4. CASE UNCHANGED <<mo, queue, raced>>
      BY <1>7, <2>2, <2>4 DEF MirrorStep
    <2> QED
      BY <1>8, <2>3, <2>4 DEF ApplyLate
  <1>9. ASSUME NEW x \in Uuids, Publish(x)
        PROVE  NoticesSome
    <2>1. UNCHANGED <<fkk, mo, pc, uuid, klasse, moClass>>
      BY <1>9 DEF Publish, locals
    <2>2. \A u \in Uuids : Pending(u) => Pending(u)'
      BY <1>9 DEF Publish, Pending, TypeOK, StoresOK, Handlers
    <2>3. \A u \in Uuids, h \in Handlers : Attending(h, u) => Attending(h, u)'
      BY <2>1 DEF Attending
    <2> QED
      BY <2>1, <2>2, <2>3 DEF NoticesSome, Dirty
  <1>10. ASSUME NEW x \in Uuids, NEW K \in Klasser \union Faulty, FKKChange(x, K)
         PROVE  DisturbsOne(x)
    <2>1. Dirty(x)'
      BY <1>10 DEF FKKChange, Dirty, Pending
    <2>2. ASSUME NEW u \in Uuids \ {x}
          PROVE  fkk'[u] = fkk[u] /\ mo'[u] = mo[u] /\ (Dirty(u)' <=> Dirty(u))
      <3>1. fkk'[u] = fkk[u] /\ mo'[u] = mo[u] /\ (Pending(u)' <=> Pending(u))
        BY <1>10 DEF FKKChange, Pending, TypeOK, StoresOK
      <3>2. \A h \in Handlers : Same(h)
        BY <1>10 DEF FKKChange, locals, Same
      <3> QED
        BY <3>1, <3>2, DirtyStays
    <2> QED
      BY <2>1, <2>2 DEF DisturbsOne
  <1>11. ASSUME NEW x \in Uuids, NEW class \in Edited, UserEdit(x, class)
         PROVE  DisturbsOne(x)
    <2>1. \A h \in Handlers : Same(h)
      BY <1>11 DEF UserEdit, locals, Same
    <2> QED
      BY <1>11, <2>1, StoreDisturbs DEF UserEdit
  <1>12. ASSUME NEW h \in Handlers, NEW x \in Uuids, Duplicate(h, x)
         PROVE  NoticesSome
    BY <1>7, <1>12 DEF Duplicate, locals, TypeOK, StoresOK
  <1>13. ASSUME NEW r \in Requests, NEW x \in Uuids, PostSync(r, x)
         PROVE  NoticesSome
    <2>1. \A h \in Handlers : Same(h)
      BY <1>13 DEF PostSync, Enter, Same, TypeOK, LocalsOK, Workers
    <2>2. UNCHANGED <<fkk, mo, unpublished, queue>>
      BY <1>13 DEF PostSync, Enter, environment
    <2>3. \A u \in Uuids : Dirty(u)' <=> Dirty(u)
      BY <2>1, <2>2, DirtyStays DEF Pending
    <2> QED
      BY <2>2, <2>3 DEF NoticesSome
  <1> QED
    BY <1>1, <1>2, <1>3, <1>4, <1>5, <1>6, <1>8, <1>9, <1>10, <1>11, <1>12,
       <1>13 DEF Next, Step, MirrorStep

\* sync() and the event flow implement the promise of module Mirror: a UUID on
\* which FKK and MO disagree is still to be looked at, and is struck off only
\* in a step in which they agree on it.
THEOREM ImplementsMirror == Spec => KeepsPromise
  <1>1. Init => Promise!Init
    <2> SUFFICES ASSUME Init, NEW u \in Uuids
                 PROVE  Agrees(fkk[u], mo[u]) \/ Pending(u)
      BY DEF Promise!Init
    <2>1. CASE fkk[u] = {}
      BY <2>1, SyncAssumption DEF Init, Agrees, NoClass
    <2>2. CASE fkk[u] # {}
      BY <2>2 DEF Init, Pending
    <2> QED
      BY <2>1, <2>2
  <1>2. TypeOK /\ [Next]_vars => [Promise!Next]_(Promise!vars)
    <2>1. CASE Next
      BY <2>1, StepIsMirrorStep, MirrorStepIsPromised
    <2>2. CASE UNCHANGED vars
      BY <2>2 DEF vars, environment, locals, Promise!vars, Pending, Attending
    <2> QED
      BY <2>1, <2>2
  <1> QED
    BY <1>1, <1>2, TypeCorrect, PTL DEF Spec, KeepsPromise, Promise!Spec

\* What the promise is worth: where the systems disagree, somebody will look.
THEOREM PromiseIsEnough == Promise!Spec => []Promise!CleanAgrees
  <1>1. Promise!Init => Promise!CleanAgrees
    BY DEF Promise!Init, Promise!CleanAgrees
  <1>2. Promise!CleanAgrees /\ [Promise!Next]_(Promise!vars) => Promise!CleanAgrees'
    BY DEF Promise!CleanAgrees, Promise!Next, Promise!Disturb, Promise!Settle,
           Promise!Notice, Promise!vars
  <1> QED
    BY <1>1, <1>2, PTL DEF Promise!Spec

=============================================================================
