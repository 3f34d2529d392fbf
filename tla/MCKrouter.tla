------------------------------ MODULE MCKrouter -----------------------------
(* The whole configuration path on a small instance.                        *)
EXTENDS Krouter, TLC

CONSTANTS genA, genB

MCGenerations == {genA, genB}

MCObjectsOf == (genA :> {"gateway"}) @@ (genB :> {"gateway", "secret"})

\* Every Gateway asks for the address of every pod's node.
MCAddresses == Gateways \X Pods

\* Installed next to Gateways that already ask for genA.
InitFromA == Init /\ spec = [g \in Gateways |-> genA]

FromA == InitFromA /\ [][Next]_vars

LiveSpec == FromA /\ Fairness

PodSymmetry == Permutations(Pods)
=============================================================================
