SPECIFICATION Spec
CONSTANTS
    Writers = {w1, w2}
    Holder <- SharedHolder
    Rows <- TwoRows
    Candidate <- OwnCandidates
    Device <- NoDevices
    NoDevice = NoDevice
    DotnsRows = {}
    BatchMax <- Pairs
    MaxAttempts = 2
    ReconcileChunk = 1
    Faults = {"ctx", "owners", "nonce", "sign", "mark", "refuse", "timeout", "transport", "dispatch", "events", "whole", "mismatch", "unread"}
    MaxFaults = 2
    MaxEpoch = 2
INVARIANTS TypeOK AssignedIsOwned NoOrphan WriteAhead Custody AttemptsAccounted
PROPERTIES TerminalIsFinal
SYMMETRY WriterSymmetry
