SPECIFICATION Spec
CONSTANTS
    Writers = {w1}
    Holder <- DistinctHolders
    Rows <- TwoRows
    Candidate <- SharedCandidate
    Device <- NoDevices
    NoDevice = NoDevice
    DotnsRows = {}
    BatchMax <- Pairs
    MaxAttempts = 2
    ReconcileChunk = 2
    Faults = {}
    MaxFaults = 0
    MaxEpoch = 1
INVARIANTS AssignedIsOwned
