SPECIFICATION FairSpec
CONSTANTS
    Replicas = {i1, i2}
    Accounts = {a1}
    Names = {n1}
    None = None
    MaxWindow = 1
    MaxHeight = 3
    MaxBlocks = 2
    Faults = {"rpc", "crash", "lock"}
    MaxFaults = 1
INVARIANTS TypeOK CheckpointExact
PROPERTIES SpeculationExact CatchesUp
