SPECIFICATION FairSpec
CONSTANTS
    Keys = {k1, k2}
    Clients = {c1, c2}
    Requests = 1
    Window = 3
    Burst = 2
    SweepEvery = 2
    SecondTicks = 1
    Overlap = FALSE
    MaxDelay = 1
 
PROPERTIES RetryHonoured Reclaimed
