SPECIFICATION Spec
CONSTRAINT Focused
CONSTANTS
    Protocols = {p1}
    Devices = {d1}
    Observers = {o1, o2}
    Roots = {r1, r2, r3, r4, r5}
    Transcripts = {t1}
    Verifiers = {v1}
    Holders = {h1}
    Authorities = {a1}
    NoKey = NoKey
    NoRoot = NoRoot
    NoReport = NoReport
    ClassOf <- MCClassOf
    MembersOf <- MCMembersOf
    EpochSeconds = 2
    Rewards = {0}
    SlotQuotas = {0}
    FeeRates = {2000}
    LeafCounts = {2}
    Deposits = {}
    ClockSlack = 1
    ClaimLifetime = 1
    MaxObservers = 3
    MaxAmount = 9
    MaxVersion = 1
    MaxTime = 3
    MaxFunding = 6
    MaxClaims = 0
    MaxReports = 3
INVARIANTS
    ConfidenceCurrent
    NeverRestored
    RootRing
PROPERTIES
    ClosedEpochFinal
CHECK_DEADLOCK FALSE
