SPECIFICATION Spec
CONSTANTS
    Sets <- MCSets
    Routes <- MCRoutes
    Policies <- MCPolicies
    Namespace <- MCNamespace
    Rank <- MCRank
    Menu <- MCMenu
    Start <- MCStart
    Grants <- MCGrants
    Fixed <- MCFixed
    MaxTries = 2
    MaxAncestors = 2
    MaxEdits = 3
    MaxMishaps = 1
INVARIANT GatewayReported
