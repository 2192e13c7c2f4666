SPECIFICATION FairSpec
CONSTANTS
    Requests = {r1, r2}
    Inputs <- SomeInputs
    Modes <- SomeModes
    d1 = d1
    d2 = d2
    c1 = c1
    c2 = c2
    v1 = v1
    Devices = {d1, d2}
    Vouchers = {v1}
    Challenges = {c1, c2}
    None = None
    Pool = {1, 2, 3}
    ChainTaken <- TwoOnChain
    QueueCapacity = 2
    Skew = 1
    MaxAge = 2
    Faults = {"limit", "chain", "db", "commit", "expiry", "crl", "apple", "crash", "session"}
    MaxFaults = 2
INVARIANTS TypeOK OneFreePerDevice VoucherForRow SlotForRow ChallengeOnce SoftGatesWatch AnswersAreTrue
PROPERTIES Answered
CHECK_DEADLOCK FALSE
