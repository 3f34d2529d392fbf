----------------------------- MODULE MCSessions -----------------------------
(***************************************************************************)
(* Two browsers and one pod.  Each behaviour follows one scenario: a       *)
(* browser that stays logged in, two browsers that log in, one that logs   *)
(* in and out while providers fail, and a client with tokens while the     *)
(* provider changes its keys.                                              *)
(***************************************************************************)
EXTENDS Sessions

CONSTANTS b1, b2

Only(kinds, others) == [b \in Browsers |-> IF b = b1 THEN kinds ELSE others]

Staying ==
    [may |-> Only({"page", "bind", "logout"}, {}), sizes |-> {1, 2, 3}, until |-> 3,
     requests |-> 3, mishaps |-> 1, rotates |-> TRUE]

LoggingIn ==
    [may |-> Only({"login"}, {"login"}), sizes |-> {1}, until |-> 1,
     requests |-> 5, mishaps |-> 0, rotates |-> TRUE]

Alone ==
    [may |-> Only({"login", "logout"}, {}), sizes |-> {1, 3}, until |-> 1,
     requests |-> 4, mishaps |-> 1, rotates |-> TRUE]

Tokens ==
    [may |-> Only({"page", "bearer"}, {}), sizes |-> {1}, until |-> 3,
     requests |-> 1, mishaps |-> 3, rotates |-> TRUE]

MCScenarios == {Staying, [Staying EXCEPT !.rotates = FALSE], LoggingIn, Alone, Tokens}
=============================================================================
