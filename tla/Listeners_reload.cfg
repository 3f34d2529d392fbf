SPECIFICATION FairSpec
CONSTANTS
    Ports = {p1, p2}
    Kinds = {plain, preamble}
    NoSpec = NoSpec
    Conns = {c1}
    DrainLimit = 1
    MaxReloads = 3
    MaxTaken = 1
PROPERTIES KeptPorts ListensInTheEnd Ends
CHECK_DEADLOCK FALSE
