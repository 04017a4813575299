----------------------------- MODULE SyncProofs -----------------------------
(***************************************************************************)
(* Proofs about Sync, for any UUIDs, requests, Klasser, edits and bounds.  *)
(***************************************************************************)
EXTENDS Sync, TLAPS

-----------------------------------------------------------------------------
(* Types. *)

\* What MO stores after a mutation is a class.
LEMMA EffectType ==
    ASSUME NEW m \in Mutations, NEW class \in Classes
    PROVE  Effect(m, class) \in Classes
  <1>0. m.op \notin {"delete", "truncate"} => Stored(m.validity) \in Validities
    BY SyncAssumption DEF Mutations
  <1>1. CASE m.op = "delete"
    BY <1>1 DEF Effect, NoClass, Classes
  <1>2. CASE m.op = "truncate"
    BY <1>2 DEF Effect, Classes
  <1>3. CASE m.op \notin {"delete", "truncate"}
    <2>1. Stored(m.validity) \in Validities
      BY <1>0, <1>3
    <2>2. \A v \in Validities : Remainders(v, Stored(m.validity)) \subseteq Validities
      BY <2>1 DEF Remainders, Validities
    <2>3. Written(class.validities, Stored(m.validity)) \subseteq Validities
      BY <2>1, <2>2 DEF Written, Classes
    <2> QED
      BY <1>3, <2>3 DEF Effect, Classes
  <1> QED
    BY <1>1, <1>2, <1>3

\* A worker only requests well-formed mutations, of its own UUID.
LEMMA CallsType ==
    ASSUME LocalsOK, NEW w \in Workers, NEW m \in Calls(w)
    PROVE  /\ m \in Mutations
           /\ m.op = pc[w] /\ m.uuid = uuid[w] /\ uuid[w] \in Uuids
           /\ m.op \in {"create", "update"} => m.validity \in desired[w]
  <1>1. pc[w] \in MutationOps /\ m.op = pc[w] /\ m.uuid = uuid[w]
    BY DEF Calls
  <1>2. uuid[w] \in Uuids
    BY <1>1 DEF LocalsOK, Working, MutationOps
  <1>3. CASE pc[w] \in {"create", "update"}
    <2>1. m.validity \in desired[w] /\ m = [op |-> pc[w], uuid |-> uuid[w], validity |-> m.validity]
      BY <1>1, <1>3 DEF Calls
    <2>2. m.validity \in UNION Klasser
      BY <1>3, <2>1 DEF LocalsOK
    <2> QED
      BY <1>1, <1>2, <1>3, <2>1, <2>2 DEF Mutations
  <1>4. CASE pc[w] \notin {"create", "update"}
    <2>1. m.validity = NoValidity /\ m = [op |-> pc[w], uuid |-> uuid[w], validity |-> NoValidity]
      BY <1>1, <1>4 DEF Calls
    <2> QED
      BY <1>1, <1>2, <1>4, <2>1 DEF Mutations, MutationOps
  <1> QED
    BY <1>3, <1>4

LEMMA LeaveLocals ==
    ASSUME LocalsOK, NEW W \in SUBSET Workers,
           NEW answer \in Statuses \union {"error"}, Leave(W, answer)
    PROVE  LocalsOK'
  BY SyncAssumption DEF LocalsOK, Leave, Working, NoClass, Classes, MutationOps

LEMMA StoreStores ==
    ASSUME StoresOK, NEW u \in Uuids, NEW class \in Classes, NEW writer,
           Store(u, class, writer)
    PROVE  /\ mo' \in [Uuids -> Classes]
           /\ queue' \in [Handlers -> SUBSET Uuids]
           /\ raced' \subseteq Requests
  BY DEF StoresOK, Store, Handlers

LEMMA RaiseTypes ==
    ASSUME TypeOK, NEW W \in SUBSET Workers, Raise(W), \A w \in W : Working(w)
    PROVE  /\ LocalsOK'
           /\ mo' \in [Uuids -> Classes]
           /\ queue' \in [Handlers -> SUBSET Uuids]
           /\ raced' \subseteq Requests
  <1>1. LocalsOK'
    BY LeaveLocals DEF Raise, TypeOK
  <1>2. \A w \in W : uuid[w] \in Uuids
    BY DEF TypeOK, LocalsOK, Working
  <1> QED
    BY <1>1, <1>2 DEF Raise, TypeOK, StoresOK

LEMMA ContinueLocals ==
    ASSUME LocalsOK, NEW w \in Workers, pc[w] \in {"create", "truncate", "update"},
           NEW rest \in SUBSET desired[w], Continue(w, rest)
    PROVE  LocalsOK'
  <1>1. CASE rest = {}
    BY <1>1, LeaveLocals DEF Continue, Statuses
  <1>2. CASE rest # {}
    BY <1>2 DEF Continue, LocalsOK, Working, MutationOps
  <1> QED
    BY <1>1, <1>2

\* A mutation keeps the types of the stores.
LEMMA AppliedStores ==
    ASSUME TypeOK, NEW w \in Workers, NEW m \in Calls(w), Applied(w, m)
    PROVE  StoresOK'
  <1>1. m \in Mutations /\ m.uuid \in Uuids
    BY CallsType DEF TypeOK
  <1>2. Effect(m, mo[m.uuid]) \in Classes
    BY <1>1, EffectType DEF TypeOK, StoresOK
  <1>3. StoresOK /\ Store(m.uuid, Effect(m, mo[m.uuid]), {w}) /\ UNCHANGED <<environment, late>>
    BY DEF Applied, TypeOK
  <1>4. /\ mo' \in [Uuids -> Classes]
        /\ queue' \in [Handlers -> SUBSET Uuids]
        /\ raced' \subseteq Requests
    BY <1>1, <1>2, <1>3, StoreStores
  <1> QED
    BY <1>3, <1>4 DEF StoresOK, environment

\* What every mutation step of a worker does to the types.
LEMMA MutationTypes ==
    ASSUME TypeOK, NEW w \in Workers, NEW m \in Calls(w), Applied(w, m), LocalsOK'
    PROVE  TypeOK'
  BY AppliedStores DEF TypeOK

\* Every step keeps the types.
LEMMA TypeStep ==
    ASSUME TypeOK, [Next]_vars
    PROVE  TypeOK'
  <1> USE SyncAssumption
  <1> USE DEF TypeOK
  <1>1. ASSUME NEW h \in Handlers, NEW u \in Uuids, Take(h, u)
        PROVE  TypeOK'
    <2>1. h \in Workers
      BY DEF Workers
    <2>2. StoresOK'
      BY <1>1 DEF Take, Enter, StoresOK, environment
    <2>3. LocalsOK'
      BY <1>1, <2>1 DEF Take, Enter, LocalsOK, Working, MutationOps
    <2> QED
      BY <2>2, <2>3
  <1>2. ASSUME NEW r \in Requests, NEW u \in Uuids, PostSync(r, u)
        PROVE  TypeOK'
    <2>1. r \in Workers
      BY DEF Workers
    <2>2. StoresOK'
      BY <1>2 DEF PostSync, Enter, StoresOK, environment
    <2>3. LocalsOK'
      BY <1>2, <2>1 DEF PostSync, Enter, LocalsOK, Working, MutationOps
    <2> QED
      BY <2>2, <2>3
  <1>3. ASSUME NEW w \in Workers, ReadFKK(w)
        PROVE  TypeOK'
    <2>1. StoresOK'
      BY <1>3 DEF ReadFKK, StoresOK, environment
    <2>2. uuid[w] \in Uuids
      BY <1>3 DEF ReadFKK, LocalsOK, Working
    <2> QED
      BY <1>3, <2>1, <2>2 DEF ReadFKK, StoresOK, LocalsOK, Working, MutationOps
  <1>4. ASSUME NEW w \in Workers, ReadMO(w)
        PROVE  TypeOK'
    <2>1. StoresOK'
      BY <1>4 DEF ReadMO, StoresOK, environment
    <2>2. uuid[w] \in Uuids
      BY <1>4 DEF ReadMO, LocalsOK, Working
    <2> QED
      BY <1>4, <2>1, <2>2 DEF ReadMO, StoresOK, LocalsOK, Working, MutationOps
  <1>5. ASSUME NEW w \in Workers, Decide(w)
        PROVE  TypeOK'
    <2>1. StoresOK'
      BY <1>5 DEF Decide, StoresOK, environment
    <2>2. ASSUME NEW answer \in Statuses, Leave({w}, answer)
          PROVE  LocalsOK'
      BY <2>2, LeaveLocals
    <2>3. ASSUME pc' = [pc EXCEPT ![w] = NextCall(moClass[w], klasse[w])],
                 moClass' = [moClass EXCEPT ![w] = NoClass],
                 desired' = [desired EXCEPT ![w] = klasse[w]],
                 UNCHANGED <<uuid, klasse, response>>
          PROVE  LocalsOK'
      <3>1. /\ NextCall(moClass[w], klasse[w]) \in {"delete", "create", "truncate"}
            /\ klasse[w] = {} => NextCall(moClass[w], klasse[w]) = "delete"
        BY DEF NextCall
      <3>2. klasse[w] \in SUBSET Validities /\ NoClass \in Classes
        BY <1>5 DEF Decide, Raises, LocalsOK, NoClass, Classes
      <3>3. pc[w] = "decide" /\ Working(w)
        BY <1>5 DEF Decide, LocalsOK
      <3>4. klasse[w] \in Klasser
        BY <1>5 DEF Decide, Raises, LocalsOK
      <3> QED
        BY <2>3, <3>1, <3>2, <3>3, <3>4 DEF LocalsOK, Working, MutationOps
    <2>4. "up_to_date" \in Statuses /\ "wont_delete" \in Statuses
      BY DEF Statuses
    <2> QED
      BY <1>5, <2>1, <2>2, <2>3, <2>4 DEF Decide
  <1>6. ASSUME NEW w \in Workers, DeleteClass(w)
        PROVE  TypeOK'
    <2>1. LocalsOK'
      BY <1>6, LeaveLocals DEF DeleteClass, Statuses
    <2> QED
      BY <1>6, <2>1, MutationTypes DEF DeleteClass
  <1>7. ASSUME NEW w \in Workers,
               CreateClass(w) \/ TruncateClass(w) \/ UpdateClass(w)
        PROVE  TypeOK'
    <2>1. PICK m \in Calls(w) : Applied(w, m)
      BY <1>7 DEF CreateClass, TruncateClass, UpdateClass
    <2>2. PICK rest \in SUBSET desired[w] : Continue(w, rest)
      BY <1>7 DEF CreateClass, TruncateClass, UpdateClass
    <2>3. pc[w] \in {"create", "truncate", "update"}
      BY <1>7 DEF CreateClass, TruncateClass, UpdateClass
    <2>4. LocalsOK'
      BY <2>2, <2>3, ContinueLocals
    <2> QED
      BY <2>1, <2>4, MutationTypes
  <1>8. ASSUME NEW w \in Workers, Refused(w) \/ Unconverted(w)
        PROVE  TypeOK'
    <2>1. Working(w)
      BY <1>8 DEF Refused, Unconverted, Calls, LocalsOK, MutationOps
    <2>2. Raise({w}) /\ UNCHANGED <<environment, late>>
      BY <1>8 DEF Refused, Unconverted
    <2> QED
      BY <2>1, <2>2, RaiseTypes DEF StoresOK, environment
  <1>9. ASSUME NEW w \in Workers, Fail(w)
        PROVE  TypeOK'
    <2>1. late' \subseteq Mutations
      BY <1>9, CallsType DEF Fail, StoresOK
    <2>2. faults' \in 0..MaxFaults
      BY <1>9 DEF Fail, StoresOK
    <2> QED
      BY <1>9, <2>1, <2>2, RaiseTypes DEF Fail, StoresOK
  <1>10. ASSUME Crash
         PROVE  TypeOK'
    <2>1. PICK sent \in SUBSET UNION {{w} \X Calls(w) : w \in Workers} :
              late' = late \union {x[2] : x \in sent}
      BY <1>10 DEF Crash
    <2>2. \A x \in sent : x[2] \in Mutations
      BY CallsType
    <2>3. late' \subseteq Mutations
      BY <2>1, <2>2 DEF StoresOK
    <2>4. faults' \in 0..MaxFaults
      BY <1>10 DEF Crash, StoresOK
    <2>5. {w \in Workers : Working(w)} \in SUBSET Workers
      OBVIOUS
    <2>6. Raise({w \in Workers : Working(w)}) /\ UNCHANGED <<fkk, unpublished, changes, edits, related>>
      BY <1>10 DEF Crash
    <2>7. /\ LocalsOK'
          /\ mo' \in [Uuids -> Classes]
          /\ queue' \in [Handlers -> SUBSET Uuids]
          /\ raced' \subseteq Requests
      BY <2>5, <2>6, RaiseTypes
    <2> QED
      BY <2>3, <2>4, <2>6, <2>7 DEF StoresOK
  <1>11. ASSUME NEW m \in late, ApplyLate(m)
         PROVE  TypeOK'
    <2>1. LocalsOK'
      BY <1>11 DEF ApplyLate, LocalsOK, locals, Working
    <2>2. m \in Mutations /\ m.uuid \in Uuids
      BY DEF StoresOK, Mutations
    <2>3. Effect(m, mo[m.uuid]) \in Classes
      BY <2>2, EffectType DEF StoresOK
    <2>4. /\ mo' \in [Uuids -> Classes]
          /\ queue' \in [Handlers -> SUBSET Uuids]
          /\ raced' \subseteq Requests
      BY <1>11, <2>2, <2>3, StoreStores DEF ApplyLate, StoresOK
    <2> QED
      BY <1>11, <2>1, <2>4 DEF ApplyLate, StoresOK, environment
  <1>12. ASSUME NEW u \in Uuids, Publish(u)
         PROVE  TypeOK'
    BY <1>12 DEF Publish, StoresOK, LocalsOK, locals, Working, Handlers
  <1>13. ASSUME NEW u \in Uuids, NEW K \in Klasser \union Faulty, FKKChange(u, K)
         PROVE  TypeOK'
    <2>1. LocalsOK'
      BY <1>13 DEF FKKChange, LocalsOK, locals, Working
    <2> QED
      BY <1>13, <2>1 DEF FKKChange, StoresOK
  <1>14. ASSUME NEW u \in Uuids, NEW class \in Edited, UserEdit(u, class)
         PROVE  TypeOK'
    <2>1. LocalsOK'
      BY <1>14 DEF UserEdit, LocalsOK, locals, Working
    <2>2. class \in Classes
      OBVIOUS
    <2>3. /\ mo' \in [Uuids -> Classes]
          /\ queue' \in [Handlers -> SUBSET Uuids]
          /\ raced' \subseteq Requests
      BY <1>14, <2>2, StoreStores DEF UserEdit
    <2> QED
      BY <1>14, <2>1, <2>3 DEF UserEdit, StoresOK
  <1>15. ASSUME NEW h \in Handlers, NEW u \in Uuids, Duplicate(h, u)
         PROVE  TypeOK'
    <2>1. LocalsOK'
      BY <1>15 DEF Duplicate, LocalsOK, locals, Working
    <2> QED
      BY <1>15, <2>1 DEF Duplicate, StoresOK
  <1>16. CASE UNCHANGED vars
    <2>1. StoresOK'
      BY <1>16 DEF vars, environment, StoresOK
    <2>2. LocalsOK'
      BY <1>16 DEF vars, locals, LocalsOK, Working
    <2> QED
      BY <2>1, <2>2
  <1> QED
    BY <1>1, <1>2, <1>3, <1>4, <1>5, <1>6, <1>7, <1>8, <1>9, <1>10, <1>11,
       <1>12, <1>13, <1>14, <1>15, <1>16 DEF Next, Step

\* TypeOK holds initially: every worker is idle, every queue empty.
LEMMA TypeInit ==
    ASSUME Init
    PROVE  TypeOK
  BY SyncAssumption
     DEF Init, TypeOK, StoresOK, LocalsOK, Working, NoClass, Classes

\* The variables of Sync have their types, and the locals of every worker fit
\* its control state, in every reachable state.
THEOREM TypeCorrect == Spec => []TypeOK
  <1>1. Init => TypeOK
    BY TypeInit
  <1>2. TypeOK /\ [Next]_vars => TypeOK'
    BY TypeStep
  <1> QED
    BY <1>1, <1>2, PTL DEF Spec

-----------------------------------------------------------------------------
(* No UUID is forgotten. *)

\* u is accounted for: see NothingForgotten.
Remembered(u) == Synced(u) \/ Pending(u) \/ \E h \in Handlers : Attending(h, u)

\* A step that leaves u alone in both systems and in the queues, and only moves
\* worker w, can disturb nothing but the attention of w.
LEMMA OthersAttend ==
    ASSUME NEW u \in Uuids, NEW w \in Workers,
           fkk'[u] = fkk[u], mo'[u] = mo[u],
           unpublished \subseteq unpublished',
           \A h \in Handlers : queue[h] \subseteq queue'[h],
           \A h \in Handlers \ {w} : /\ pc'[h] = pc[h] /\ uuid'[h] = uuid[h]
                                     /\ klasse'[h] = klasse[h]
                                     /\ moClass'[h] = moClass[h],
           Attending(w, u) => Synced(u) \/ Attending(w, u)',
           Remembered(u)
    PROVE  Remembered(u)'
  <1>1. Synced(u) => Synced(u)'
    BY DEF Synced, Agrees, Foreign, FacetsOf
  <1>2. Pending(u) => Pending(u)'
    BY DEF Pending
  <1>3. \A h \in Handlers : Attending(h, u) => Synced(u) \/ Attending(h, u)'
    BY DEF Attending
  <1> QED
    BY <1>1, <1>2, <1>3 DEF Remembered

\* The same when no handler moves.
LEMMA HandlersStill ==
    ASSUME NEW u \in Uuids,
           fkk'[u] = fkk[u], mo'[u] = mo[u],
           unpublished \subseteq unpublished',
           \A h \in Handlers : queue[h] \subseteq queue'[h],
           \A h \in Handlers : /\ pc'[h] = pc[h] /\ uuid'[h] = uuid[h]
                               /\ klasse'[h] = klasse[h]
                               /\ moClass'[h] = moClass[h],
           Remembered(u)
    PROVE  Remembered(u)'
  <1>1. \A h \in Handlers : Attending(h, u) => Attending(h, u)'
    BY DEF Attending
  <1>2. Synced(u) => Synced(u)'
    BY DEF Synced, Agrees, Foreign, FacetsOf
  <1>3. Pending(u) => Pending(u)'
    BY DEF Pending
  <1> QED
    BY <1>1, <1>2, <1>3 DEF Remembered

\* Whoever writes the class of u leaves an event for it in MO's queue.
LEMMA StoreRemembers ==
    ASSUME TypeOK, NEW u \in Uuids, NEW class, NEW writer, Store(u, class, writer)
    PROVE  Pending(u)'
  BY DEF TypeOK, StoresOK, Store, Pending, Handlers

\* A message whose handler raises is redelivered.
LEMMA RaiseRemembers ==
    ASSUME TypeOK, NEW u \in Uuids, NEW W \in SUBSET Workers, Raise(W),
           unpublished' = unpublished, fkk' = fkk, Remembered(u)
    PROVE  Remembered(u)'
  <1>1. \A h \in Handlers \intersect W : Attending(h, u) => Pending(u)'
    BY DEF Raise, Attending, Pending
  <1>2. \A h \in Handlers \ W : /\ pc'[h] = pc[h] /\ uuid'[h] = uuid[h]
                                /\ klasse'[h] = klasse[h]
                                /\ moClass'[h] = moClass[h]
    BY DEF Raise, Leave, Workers
  <1>3. \A h \in Handlers : Attending(h, u) => Pending(u)' \/ Attending(h, u)'
    BY <1>1, <1>2 DEF Attending, Raise
  <1>4. (Synced(u) => Synced(u)') /\ (Pending(u) => Pending(u)')
    BY DEF Raise, Synced, Agrees, Foreign, FacetsOf, Pending
  <1> QED
    BY <1>3, <1>4 DEF Remembered

\* A mutation of worker w remembers its UUID, and forgets no other.
LEMMA AppliedRemembers ==
    ASSUME TypeOK, NEW u \in Uuids, NEW w \in Workers, NEW m \in Calls(w),
           Applied(w, m), Remembered(u),
           \A h \in Handlers \ {w} : /\ pc'[h] = pc[h] /\ uuid'[h] = uuid[h]
                                     /\ klasse'[h] = klasse[h]
                                     /\ moClass'[h] = moClass[h]
    PROVE  Remembered(u)'
  <1>1. m.uuid = uuid[w] /\ uuid[w] \in Uuids
    BY CallsType DEF TypeOK
  <1>2. CASE u = uuid[w]
    <2>1. Pending(u)'
      BY <1>1, <1>2, StoreRemembers DEF Applied
    <2> QED
      BY <2>1 DEF Remembered
  <1>3. CASE u # uuid[w]
    <2>1. /\ fkk' = fkk /\ unpublished' = unpublished /\ mo'[u] = mo[u]
          /\ \A h \in Handlers : queue[h] \subseteq queue'[h]
      BY <1>1, <1>3 DEF Applied, Store, environment, TypeOK, StoresOK, Handlers
    <2>2. ~Attending(w, u)
      BY <1>3 DEF Attending
    <2> QED
      BY <2>1, <2>2, OthersAttend
  <1> QED
    BY <1>2, <1>3

LEMMA RememberStep ==
    ASSUME TypeOK, [Next]_vars, NEW u \in Uuids, Remembered(u)
    PROVE  Remembered(u)'
  <1> USE SyncAssumption
  <1> DEFINE Same(h) == /\ pc'[h] = pc[h] /\ uuid'[h] = uuid[h]
                        /\ klasse'[h] = klasse[h] /\ moClass'[h] = moClass[h]
  <1>1. ASSUME NEW h \in Handlers, NEW x \in Uuids, Take(h, x)
        PROVE  Remembered(u)'
    <2>1. h \in Workers /\ uuid[h] = NoUuid
      BY <1>1 DEF Take, Enter, Workers, TypeOK, LocalsOK, Working
    <2>2. pc'[h] = "read_fkk" /\ uuid'[h] = x
      BY <1>1, <2>1 DEF Take, Enter, TypeOK, LocalsOK
    <2>3. CASE u = x
      <3>1. Attending(h, u)'
        BY <2>2, <2>3 DEF Attending
      <3> QED
        BY <3>1 DEF Remembered
    <2>4. CASE u # x
      <3>1. Synced(u) => Synced(u)'
        BY <1>1 DEF Take, Enter, environment, Synced, Agrees, Foreign, FacetsOf
      <3>2. Pending(u) => Pending(u)'
        BY <1>1, <2>4 DEF Take, Enter, environment, Pending, TypeOK, StoresOK
      <3>3. \A g \in Handlers \ {h} : Same(g)
        BY <1>1 DEF Take, Enter, TypeOK, LocalsOK, Workers
      <3>4. \A g \in Handlers : Attending(g, u) => g # h
        BY <2>1 DEF Attending
      <3>5. \A g \in Handlers : Attending(g, u) => Attending(g, u)'
        BY <1>1, <3>3, <3>4 DEF Attending, Take, Enter, environment
      <3> QED
        BY <3>1, <3>2, <3>5 DEF Remembered
    <2> QED
      BY <2>3, <2>4
  <1>2. ASSUME NEW r \in Requests, NEW x \in Uuids, PostSync(r, x)
        PROVE  Remembered(u)'
    <2>1. \A h \in Handlers : Same(h)
      <3>1. r \notin Handlers
        OBVIOUS
      <3> QED
        BY <1>2, <3>1 DEF PostSync, Enter, TypeOK, LocalsOK, Workers
    <2>2. UNCHANGED <<fkk, unpublished, mo, queue>>
      BY <1>2 DEF PostSync, Enter, environment
    <2> QED
      BY <2>1, <2>2, HandlersStill
  <1>3. ASSUME NEW w \in Workers, ReadFKK(w)
        PROVE  Remembered(u)'
    <2>1. \A h \in Handlers \ {w} : Same(h)
      BY <1>3 DEF ReadFKK, TypeOK, LocalsOK, Workers
    <2>2. UNCHANGED <<fkk, unpublished, mo, queue>>
      BY <1>3 DEF ReadFKK, environment
    <2>3. Attending(w, u) => Attending(w, u)'
      BY <1>3 DEF ReadFKK, environment, Attending, TypeOK, LocalsOK
    <2> QED
      BY <2>1, <2>2, <2>3, OthersAttend
  <1>4. ASSUME NEW w \in Workers, ReadMO(w)
        PROVE  Remembered(u)'
    <2>1. \A h \in Handlers \ {w} : Same(h)
      BY <1>4 DEF ReadMO, TypeOK, LocalsOK, Workers
    <2>2. UNCHANGED <<fkk, unpublished, mo, queue>>
      BY <1>4 DEF ReadMO, environment
    <2>3. Attending(w, u) => Attending(w, u)'
      BY <1>4 DEF ReadMO, environment, Attending, TypeOK, LocalsOK
    <2> QED
      BY <2>1, <2>2, <2>3, OthersAttend
  <1>5. ASSUME NEW w \in Workers, Decide(w)
        PROVE  Remembered(u)'
    <2>1. \A h \in Handlers \ {w} : Same(h)
      BY <1>5 DEF Decide, Leave, TypeOK, LocalsOK, Workers
    <2>2. UNCHANGED <<fkk, unpublished, mo, queue>>
      BY <1>5 DEF Decide, environment
    <2>3. ASSUME Attending(w, u)
          PROVE  Synced(u) \/ Attending(w, u)'
      <3>1. klasse[w] = fkk[u] /\ moClass[w] = mo[u] /\ uuid[w] = u
        BY <1>5, <2>3 DEF Decide, Attending
      <3>2. CASE \/ moClass[w].validities = klasse[w]
                 \/ klasse[w] = {} /\ Foreign(moClass[w])
        BY <1>5, <3>1, <3>2 DEF Synced, Agrees, Decide, Raises
      <3>3. CASE /\ pc' = [pc EXCEPT ![w] = NextCall(moClass[w], klasse[w])]
                 /\ UNCHANGED uuid
        <4>1. pc'[w] \in {"delete", "create", "truncate"} /\ uuid'[w] = u
          BY <3>1, <3>3 DEF NextCall, TypeOK, LocalsOK
        <4> QED
          BY <4>1 DEF Attending
      <3> QED
        BY <1>5, <3>2, <3>3 DEF Decide
    <2> QED
      BY <2>1, <2>2, <2>3, OthersAttend
  <1>6. ASSUME NEW w \in Workers,
               \/ DeleteClass(w) \/ CreateClass(w)
               \/ TruncateClass(w) \/ UpdateClass(w)
        PROVE  Remembered(u)'
    <2>1. PICK m \in Calls(w) : Applied(w, m)
      BY <1>6 DEF DeleteClass, CreateClass, TruncateClass, UpdateClass
    <2>2. \/ \E answer : Leave({w}, answer)
          \/ \E rest : Continue(w, rest)
      BY <1>6 DEF DeleteClass, CreateClass, TruncateClass, UpdateClass
    <2>3. \A h \in Handlers \ {w} : Same(h)
      BY <2>2 DEF Continue, Leave, TypeOK, LocalsOK, Workers
    <2> QED
      BY <2>1, <2>3, AppliedRemembers
  <1>7. ASSUME NEW w \in Workers, Refused(w) \/ Unconverted(w) \/ Fail(w)
        PROVE  Remembered(u)'
    <2>1. Raise({w}) /\ unpublished' = unpublished /\ fkk' = fkk
      BY <1>7 DEF Refused, Unconverted, Fail, environment
    <2> QED
      BY <2>1, RaiseRemembers
  <1>8. CASE Crash
    <2>1. /\ Raise({w \in Workers : Working(w)})
          /\ unpublished' = unpublished /\ fkk' = fkk
      BY <1>8 DEF Crash
    <2>2. {w \in Workers : Working(w)} \in SUBSET Workers
      OBVIOUS
    <2> QED
      BY <2>1, <2>2, RaiseRemembers
  <1>9. ASSUME NEW m \in late, ApplyLate(m)
        PROVE  Remembered(u)'
    <2>1. m.uuid \in Uuids
      BY DEF TypeOK, StoresOK, Mutations
    <2>2. UNCHANGED <<fkk, unpublished, pc, uuid, klasse, moClass>>
      BY <1>9 DEF ApplyLate, environment, locals
    <2>3. CASE m.uuid = u /\ Store(m.uuid, Effect(m, mo[m.uuid]), {})
      BY <2>1, <2>3, StoreRemembers DEF Remembered
    <2>4. CASE m.uuid # u /\ Store(m.uuid, Effect(m, mo[m.uuid]), {})
      <3>1. mo'[u] = mo[u] /\ \A h \in Handlers : queue[h] \subseteq queue'[h]
        BY <2>4 DEF Store, TypeOK, StoresOK, Handlers
      <3> QED
        BY <2>2, <3>1, HandlersStill
    <2>5. CASE UNCHANGED <<mo, queue, raced>>
      BY <2>2, <2>5, HandlersStill
    <2> QED
      BY <1>9, <2>3, <2>4, <2>5 DEF ApplyLate
  <1>10. ASSUME NEW x \in Uuids, Publish(x)
         PROVE  Remembered(u)'
    <2>1. UNCHANGED <<fkk, mo, pc, uuid, klasse, moClass>>
      BY <1>10 DEF Publish, locals
    <2>2. Pending(u) => Pending(u)'
      BY <1>10 DEF Publish, Pending, TypeOK, StoresOK, Handlers
    <2>3. Synced(u) => Synced(u)'
      BY <2>1 DEF Synced, Agrees, Foreign, FacetsOf
    <2>4. \A h \in Handlers : Attending(h, u) => Attending(h, u)'
      BY <2>1 DEF Attending
    <2> QED
      BY <2>2, <2>3, <2>4 DEF Remembered
  <1>11. ASSUME NEW x \in Uuids, NEW K \in Klasser \union Faulty, FKKChange(x, K)
         PROVE  Remembered(u)'
    <2>1. CASE u = x
      BY <1>11, <2>1 DEF FKKChange, Remembered, Pending
    <2>2. CASE u # x
      <3>1. /\ fkk'[u] = fkk[u] /\ unpublished \subseteq unpublished'
            /\ UNCHANGED <<mo, queue, pc, uuid, klasse, moClass>>
        BY <1>11, <2>2 DEF FKKChange, locals, TypeOK, StoresOK
      <3> QED
        BY <3>1, HandlersStill
    <2> QED
      BY <2>1, <2>2
  <1>12. ASSUME NEW x \in Uuids, NEW class \in Edited, UserEdit(x, class)
         PROVE  Remembered(u)'
    <2>1. CASE u = x
      BY <1>12, <2>1, StoreRemembers DEF UserEdit, Remembered
    <2>2. CASE u # x
      <3>1. /\ fkk'[u] = fkk[u] /\ mo'[u] = mo[u]
            /\ \A h \in Handlers : queue[h] \subseteq queue'[h]
            /\ UNCHANGED <<unpublished, pc, uuid, klasse, moClass>>
        BY <1>12, <2>2 DEF UserEdit, Store, locals, TypeOK, StoresOK, Handlers
      <3> QED
        BY <3>1, HandlersStill
    <2> QED
      BY <2>1, <2>2
  <1>13. ASSUME NEW g \in Handlers, NEW x \in Uuids, Duplicate(g, x)
         PROVE  Remembered(u)'
    <2>1. /\ \A h \in Handlers : queue[h] \subseteq queue'[h]
          /\ UNCHANGED <<fkk, mo, unpublished, pc, uuid, klasse, moClass>>
      BY <1>13 DEF Duplicate, locals, TypeOK, StoresOK
    <2> QED
      BY <2>1, HandlersStill
  <1>14. CASE UNCHANGED vars
    BY <1>14, HandlersStill DEF vars, environment, locals
  <1> QED
    BY <1>1, <1>2, <1>3, <1>4, <1>5, <1>6, <1>7, <1>8, <1>9, <1>10, <1>11,
       <1>12, <1>13, <1>14 DEF Next, Step

\* In every reachable state, MO agrees with FKK on a UUID, or an event for it
\* is on its way, or a handler attends to it with a snapshot that is not stale.
THEOREM NothingIsForgotten == Spec => []NothingForgotten
  <1>1. Init => NothingForgotten
    <2> SUFFICES ASSUME Init, NEW u \in Uuids
                 PROVE  Synced(u) \/ Pending(u)
      BY DEF NothingForgotten
    <2>1. CASE fkk[u] = {}
      BY <2>1, SyncAssumption DEF Init, Synced, Agrees, NoClass
    <2>2. CASE fkk[u] # {}
      BY <2>2 DEF Init, Pending
    <2> QED
      BY <2>1, <2>2
  <1>2. TypeOK /\ NothingForgotten /\ [Next]_vars => NothingForgotten'
    <2> SUFFICES ASSUME TypeOK, NothingForgotten, [Next]_vars, NEW u \in Uuids
                 PROVE  Remembered(u)'
      BY DEF NothingForgotten, Remembered
    <2>1. Remembered(u)
      BY DEF NothingForgotten, Remembered
    <2> QED
      BY <2>1, RememberStep
  <1> QED
    BY <1>1, <1>2, TypeCorrect, PTL DEF Spec

=============================================================================
