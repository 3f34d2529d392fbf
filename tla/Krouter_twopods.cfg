CONSTANTS
    genA = genA
    genB = genB
    Gateways = {gw}
    Pods = {p1, p2}
    Generations <- MCGenerations
    ObjectsOf <- MCObjectsOf
    Servable <- MCGenerations
    NoGen = NoGen
    HandEdits = {}
    MaxFaults = 0
    Rejected = Rejected
    Gone = Gone
    StaticAddresses = {}
    NoGateway = NoGateway
    MaxEdits = 1
    Unbuildable = {}
    MaxMailbox = 1
SYMMETRY PodSymmetry
SPECIFICATION FromA
INVARIANTS ProgrammedByAll
