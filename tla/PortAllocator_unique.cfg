CONSTANTS
    NGateways = 2
    Groups = {k1, k2}
    MinPort = 1
    MaxPort = 2
    Deletable = {1, 2}
    Refusable = {1, 2}
    FaultKinds = {"crash", "error", "delete"}
    MaxEdits = 3
    MaxFaults = 2
SPECIFICATION Spec
INVARIANTS AllocationsUnique MergeUndisturbed
PROPERTIES PersistedStable
