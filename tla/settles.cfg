SPECIFICATION FairSpec
CONSTANTS
    Writers = {w1, w2}
    Holder <- DistinctHolders
    Rows <- OneRow
    Candidate <- OwnCandidates
    Device <- NoDevices
    NoDevice = NoDevice
    DotnsRows = {1}
    BatchMax <- Singles
    MaxAttempts = 1
    ReconcileChunk = 2
    Faults = {"expire", "crash", "timeout", "refuse", "taken"}
    MaxFaults = 2
    MaxEpoch = 3
PROPERTIES Settles
