SPECIFICATION Spec
CONSTANTS
    Slots = {1, 2}
    Inputs <- MCInputs
    Configs <- MCConfigs
    World <- Full
    Worlds <- MCWorlds
    MaxHops = 3
    BodyLimit = 1
    MaxPicks = 1
    MaxEvents = 2
INVARIANTS ServedByOwner HandshakeOwner ClientVouched PolicyKept 
PROPERTIES  EndpointsFollow
