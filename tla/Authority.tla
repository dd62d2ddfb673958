------------------------------ MODULE Authority ------------------------------
(***************************************************************************)
(* What the registry promises about who may speak, without evidence,       *)
(* answers or requests: boots register, publish while they are registered  *)
(* and not fenced, and fall silent when they are fenced or the epoch ends. *)
(* registry.hpp states it call by call.                                    *)
(***************************************************************************)
EXTENDS Integers

CONSTANTS Boot, Entity

VARIABLES
    epoch,         \* the coordinator epoch
    registered,    \* boots with a registration of this epoch
    fenced,
    speaking,      \* boots whose process-bound evidence is current
    sets           \* entity -> generation of its capability set, 0 for none

vars == <<epoch, registered, fenced, speaking, sets>>

Init ==
    /\ epoch = 1
    /\ registered = {}
    /\ fenced = {}
    /\ speaking = {}
    /\ sets \in [Entity -> {0}]

Register(b) ==
    /\ b \notin fenced
    /\ registered' = registered \cup {b}
    /\ UNCHANGED <<epoch, fenced, speaking, sets>>

\* A publication, committed or stopped half way: it may add nothing, and may
\* silence others.
Publish(b, e) ==
    /\ b \in registered \ fenced
    /\ speaking' \in SUBSET (speaking \cup {b})
    /\ \E n \in {0, 1} : sets' = [sets EXCEPT ![e] = @ + n]
    /\ UNCHANGED <<epoch, registered, fenced>>

\* The same, of a request that brings a new entity generation.
Renew(b, e) ==
    /\ b \in registered \ fenced
    /\ speaking' \in SUBSET (speaking \cup {b})
    /\ \E n \in {0, 1} : sets' = [sets EXCEPT ![e] = n]
    /\ UNCHANGED <<epoch, registered, fenced>>

\* Fences of boots that no longer speak may be forgotten.
Fence(b) ==
    /\ b \notin fenced
    /\ \E kept \in SUBSET fenced :
          /\ fenced \cap speaking \subseteq kept
          /\ fenced' = kept \cup {b}
    /\ registered' \in {registered, registered \ {b}}
    /\ speaking' = speaking \ {b}
    /\ UNCHANGED <<epoch, sets>>

AdvanceEpoch ==
    /\ epoch' = epoch + 1
    /\ \E added \in SUBSET registered : fenced' = fenced \cup added
    /\ registered' = {}
    /\ speaking' = {}
    /\ UNCHANGED sets

\* Evidence is invalidated.
Weaken ==
    /\ speaking' \in SUBSET speaking
    /\ UNCHANGED <<epoch, registered, fenced, sets>>

\* The entity moves to a new generation, which has no set.
Retire(e) ==
    /\ sets' = [sets EXCEPT ![e] = 0]
    /\ speaking' \in SUBSET speaking
    /\ UNCHANGED <<epoch, registered, fenced>>

Next ==
    \/ \E b \in Boot : Register(b) \/ Fence(b)
    \/ \E b \in Boot, e \in Entity : Publish(b, e) \/ Renew(b, e)
    \/ \E e \in Entity : Retire(e)
    \/ AdvanceEpoch
    \/ Weaken

Spec == Init /\ [][Next]_vars
=============================================================================
