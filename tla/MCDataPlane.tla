---------------------------- MODULE MCDataPlane -----------------------------
(* DataPlane on a small instance: generation genB has a Secret.             *)
EXTENDS DataPlane, TLC

CONSTANTS genA, genB

MCGenerations == {genA, genB}

MCObjectsOf == (genA :> {"gateway"}) @@ (genB :> {"gateway", "secret"})
=============================================================================
