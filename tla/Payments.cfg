SPECIFICATION Spec
CONSTANTS
    Protocols = {p1}
    Devices = {d1}
    Observers = {o1, o2}
    Roots = {r1}
    Transcripts = {t1}
    Verifiers = {v1}
    Holders = {h1, h2}
    Authorities = {a1}
    NoKey = NoKey
    NoRoot = NoRoot
    NoReport = NoReport
    ClassOf <- MCClassOf
    MembersOf <- MCMembersOf
    EpochSeconds = 2
    Rewards = {1, 5}
    SlotQuotas = {1}
    FeeRates = {10000}
    LeafCounts = {2}
    Deposits = {5}
    ClockSlack = 0
    ClaimLifetime = 1
    MaxObservers = 3
    MaxAmount = 6
    MaxVersion = 2
    MaxTime = 2
    MaxFunding = 10
    MaxClaims = 2
    MaxReports = 0
INVARIANTS
    TypeOK
    Solvent
    KeyAuthorized
    AccountsBalance
PROPERTIES
    KeyNeverRebound
    QuoteHonoured
CHECK_DEADLOCK FALSE
