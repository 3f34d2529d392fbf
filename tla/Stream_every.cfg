SPECIFICATION FairSpec
CONSTANTS
    Kinds = {"tcp", "passthrough", "terminate"}
    Wraps = {TRUE, FALSE}
    MaxBytes = 3
    Aborts = TRUE
INVARIANTS InOrder RawDrainsCleanly
PROPERTIES Ends
CHECK_DEADLOCK FALSE
