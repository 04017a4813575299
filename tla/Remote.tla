------------------------------- MODULE Remote -------------------------------
(***************************************************************************)
(* What a read of FKK or MO promises: a value that the service held at     *)
(* some moment between the question and the answer, or an exception.       *)
(***************************************************************************)
CONSTANTS Services, Contents(_), Means(_, _), Nothing, NoService

VARIABLES store, asked, seen, got

vars == <<store, asked, seen, got>>

Init ==
    /\ store = [s \in Services |-> store[s]]
    /\ \A s \in Services : store[s] \in Contents(s)
    /\ asked = NoService
    /\ seen = {}
    /\ got = [s \in Services |-> Nothing]

Change(s, x) ==
    /\ store' = [store EXCEPT ![s] = x]
    /\ seen' = IF asked = s THEN seen \union {x} ELSE seen
    /\ UNCHANGED <<asked, got>>

Ask(s) ==
    /\ asked = NoService
    /\ asked' = s
    /\ seen' = {store[s]}
    /\ UNCHANGED <<store, got>>

\* The answer tells what the service held, and is kept.
Answer(s) ==
    /\ asked = s
    /\ \E x \in seen : got' = [got EXCEPT ![s] = Means(s, x)]
    /\ asked' = NoService
    /\ seen' = {}
    /\ UNCHANGED store

\* An exception, or the end of the job: what was read is not used.
Forget ==
    /\ asked' = NoService
    /\ seen' = {}
    /\ got' = [s \in Services |-> Nothing]
    /\ UNCHANGED store

Next ==
    \/ \E s \in Services : (\E x \in Contents(s) : Change(s, x)) \/ Ask(s) \/ Answer(s)
    \/ Forget

Spec == Init /\ [][Next]_vars
=============================================================================
