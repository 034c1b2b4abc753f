SPECIFICATION PhoneSpec
CONSTRAINT Bounded
CONSTANTS
    Hashes = {h1, h2}
    Endpoints = {a, b}
    Submitters = {s1, s2}
    Nothing = Nothing
    MaxPending = 2
    MaxReceived = 1
    MaxAssertions = 4
    MaxElsewhere = 1
    Screens = {s1, s2}
    Lifetime = 1
    MaxTx = 2
    MaxHeight = 4
    MaxCredits = 2
INVARIANTS
    OutboxConsistent
    WithdrawalTracked
PROPERTIES
    NothingDropped
SYMMETRY PhoneSymmetry
CHECK_DEADLOCK FALSE
