------------------------------- MODULE Mirror -------------------------------
(***************************************************************************)
(* What the integration promises: FKK and MO may disagree only on UUIDs    *)
(* that it knows it has to look at, and it strikes a UUID off only at a    *)
(* moment when the two systems agree on it.  Events, handlers, snapshots,  *)
(* failures and the order of mutations are how module Sync keeps this.     *)
(***************************************************************************)
CONSTANTS Uuids, Agree(_, _)

VARIABLES
    fkk,    \* what FKK holds for each UUID
    mo,     \* what MO holds for each UUID
    dirty   \* UUIDs that are still to be looked at

vars == <<fkk, mo, dirty>>

Init == \A u \in Uuids : Agree(fkk[u], mo[u]) \/ u \in dirty

\* Somebody changes u, in FKK or in MO; the integration's own writes included.
Disturb(u) ==
    /\ \A x \in Uuids \ {u} : fkk'[x] = fkk[x] /\ mo'[x] = mo[x]
    /\ dirty' = dirty \union {u}

\* UUIDs are looked at again without need.
Notice(S) == dirty' = dirty \union S /\ UNCHANGED <<fkk, mo>>

Settle(u) ==
    /\ Agree(fkk[u], mo[u])
    /\ dirty' = dirty \ {u}
    /\ UNCHANGED <<fkk, mo>>

Next ==
    \/ \E u \in Uuids : Disturb(u) \/ Settle(u)
    \/ \E S \in SUBSET Uuids : Notice(S)

Spec == Init /\ [][Next]_vars

\* A UUID that nobody will look at is one on which the systems agree.
CleanAgrees == \A u \in Uuids : u \in dirty \/ Agree(fkk[u], mo[u])

=============================================================================
