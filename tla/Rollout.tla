------------------------------- MODULE Rollout -------------------------------
(***************************************************************************)
(* What configuration delivery promises, without objects, lists, polls or  *)
(* mailboxes: each pod serves for each Gateway nothing or one whole        *)
(* committed generation, swaps it atomically, lets go of it only when the  *)
(* Gateway was withdrawn or the pod stops, and Programmed=True is only     *)
(* written for a generation some pod has served.                           *)
(***************************************************************************)
CONSTANTS Gateways, Pods, Generations, NoGen

VARIABLES
    committed,    \* generations committed so far, per Gateway
    removed,      \* Gateways withdrawn at some time
    up,           \* running pods
    served,       \* what each pod serves
    everServed,   \* what each pod has served so far
    programmed    \* what Programmed=True stands for

vars == <<committed, removed, up, served, everServed, programmed>>

Init ==
    /\ committed = [g \in Gateways |-> {}]
    /\ removed = {}
    /\ up = Pods
    /\ served = [p \in Pods |-> [g \in Gateways |-> NoGen]]
    /\ everServed = [p \in Pods |-> [g \in Gateways |-> {}]]
    /\ programmed = [g \in Gateways |-> NoGen]

CommitGeneration(g, n) ==
    /\ committed' = [committed EXCEPT ![g] = @ \cup {n}]
    /\ UNCHANGED <<removed, up, served, everServed, programmed>>

Withdraw(g) ==
    /\ removed' = removed \cup {g}
    /\ UNCHANGED <<committed, up, served, everServed, programmed>>

\* A pod moves to the tables t at once: each Gateway keeps its generation,
\* gets a committed one, or is dropped after a withdrawal.
Swap(p, t) ==
    /\ p \in up
    /\ \A g \in Gateways :
        \/ t[g] = served[p][g]
        \/ t[g] \in committed[g]
        \/ t[g] = NoGen /\ g \in removed
    /\ served' = [served EXCEPT ![p] = t]
    /\ everServed' = [everServed EXCEPT ![p] =
           [g \in Gateways |-> @[g] \cup ({t[g]} \ {NoGen})]]
    /\ UNCHANGED <<committed, removed, up, programmed>>

Stop(p) ==
    /\ up' = up \ {p}
    /\ served' = [served EXCEPT ![p] = [g \in Gateways |-> NoGen]]
    /\ UNCHANGED <<committed, removed, everServed, programmed>>

Start(p) ==
    /\ up' = up \cup {p}
    /\ UNCHANGED <<committed, removed, served, everServed, programmed>>

Program(g, n) ==
    /\ n # NoGen => \E p \in Pods : n \in everServed[p][g]
    /\ programmed' = [programmed EXCEPT ![g] = n]
    /\ UNCHANGED <<committed, removed, up, served, everServed>>

Next ==
    \/ \E g \in Gateways : Withdraw(g)
    \/ \E g \in Gateways, n \in Generations : CommitGeneration(g, n)
    \/ \E g \in Gateways, n \in Generations \cup {NoGen} : Program(g, n)
    \/ \E p \in Pods : Stop(p) \/ Start(p)
    \/ \E p \in Pods, t \in [Gateways -> Generations \cup {NoGen}] : Swap(p, t)

Spec == Init /\ [][Next]_vars
==============================================================================
