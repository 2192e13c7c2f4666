SPECIFICATION Spec
CONSTANTS
    Writers = {w1}
    Holder <- DistinctHolders
    Rows <- OneRow
    Candidate <- OwnCandidates
    Device <- NoDevices
    NoDevice = NoDevice
    DotnsRows = {}
    BatchMax <- Pairs
    MaxAttempts = 2
    ReconcileChunk = 2
    Faults = {"nonce", "sign", "mark", "transport", "events"}
    MaxFaults = 2
    MaxEpoch = 1
INVARIANTS OnlyVerdictsSpendAttempts
