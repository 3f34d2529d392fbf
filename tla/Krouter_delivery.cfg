CONSTANTS
    genA = genA
    genB = genB
    Gateways = {gw}
    Pods = {p1}
    Generations <- MCGenerations
    ObjectsOf <- MCObjectsOf
    Servable <- MCGenerations
    NoGen = NoGen
    HandEdits = {"delete", "replace"}
    MaxFaults = 1
    Rejected = Rejected
    Gone = Gone
    StaticAddresses <- MCAddresses
    NoGateway = NoGateway
    MaxEdits = 1
    Unbuildable = {}
    MaxMailbox = 1
SPECIFICATION LiveSpec
INVARIANTS  Retained ProgrammedWasServed
PROPERTIES ImplementsRollout Converges
