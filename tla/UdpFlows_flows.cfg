SPECIFICATION FairSpec
CONSTANTS
    Clients = {c1, c2}
    Backends = {b1, b2}
    MaxFlows = 3
    IdleTicks = 2
INVARIANTS MapHoldsFlows
PROPERTIES  KeepsForwarding
CHECK_DEADLOCK FALSE
