CONSTANTS
    genA = genA
    genB = genB
    Gateways = {gw}
    Pods = {p1}
    Generations <- MCGenerations
    ObjectsOf <- MCObjectsOf
    NoGen = NoGen
    HandEdits = {}
    MaxFaults = 4
    Unbuildable = {}
    MaxMailbox = 2
SPECIFICATION DPSpec
INVARIANTS AckMatchesTables
PROPERTIES LastValidKept
CHECK_DEADLOCK FALSE
