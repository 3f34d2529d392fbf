SPECIFICATION Spec
CONSTANTS
    b1 = b1
    b2 = b2
    Browsers = {b1, b2}
    Pods = {p1}
    MaxChunks = 2
    Lifetime = 3
    TokenLifetime = 1
    StateLifetime = 1
    TTL = 2
    Backoff = 1
    MaxKeys = 2
    MaxFlight = 2
    Scenarios <- MCScenarios
INVARIANTS SessionCapped FlowBound LatestKept RefreshCurrent 
