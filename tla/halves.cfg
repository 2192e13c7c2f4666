SPECIFICATION Spec
CONSTANTS
    Writers = {w1, w2}
    Holder <- DistinctHolders
    Rows <- TwoRows
    Candidate <- OwnCandidates
    Device <- OneDevice
    NoDevice = NoDevice
    DotnsRows = {1, 2}
    BatchMax <- Singles
    MaxAttempts = 1
    ReconcileChunk = 2
    Faults = {"expire", "crash", "reconcile", "link", "gate", "owners", "sign", "mark", "nonce", "refuse", "timeout", "transport", "events", "dispatch", "taken", "unread"}
    MaxFaults = 2
    MaxEpoch = 3
INVARIANTS DotnsFollowsPeople DeviceAccounting
PROPERTIES ImplementsLifecycle
