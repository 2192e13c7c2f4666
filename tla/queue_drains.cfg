SPECIFICATION FairSpec
CONSTANTS
    Claims <- TwoClaims
    Account <- SharedAccount
    Balances = {0, 1000}
    Advancers = {a1, a2}
    NoOne = NoOne
    Retires = TRUE
    Faults = {"expire", "crash", "advance"}
    MaxFaults = 1
    MaxMoves = 0
    MaxEpoch = 3
INVARIANTS TypeOK PicksAreSound
PROPERTIES PromotedOnce Drains
CHECK_DEADLOCK FALSE
