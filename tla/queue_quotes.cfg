SPECIFICATION Spec
CONSTANTS
    Claims <- ThreeClaims
    Account <- SharedAccount
    Balances = {9, 10, 1000}
    Advancers = {a1}
    NoOne = NoOne
    Retires = FALSE
    Faults = {"intake", "read", "refresh"}
    MaxFaults = 2
    MaxMoves = 1
    MaxEpoch = 1
INVARIANTS QuotesHold BoundedWait
PROPERTIES NeverDemoted
