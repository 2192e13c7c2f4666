SPECIFICATION Spec
CONSTANTS
    Writers = {w1}
    Holder <- DistinctHolders
    Rows <- TwoRows
    Candidate <- OwnCandidates
    Device <- OneDevice
    NoDevice = NoDevice
    DotnsRows = {}
    BatchMax <- Singles
    MaxAttempts = 1
    ReconcileChunk = 2
    Faults = {"timeout", "refuse"}
    MaxFaults = 2
    MaxEpoch = 1
INVARIANTS OneNamePerDevice
