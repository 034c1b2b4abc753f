SPECIFICATION ReportsSpec
CONSTRAINT Paired
CONSTANTS
    Transcripts = {1, 2, 3}
    Depth = 2
    Directories = {a, b}
    NoReport = NoReport
    Validity = 1
    Historical = 1
    MaxCommands = 3
    MaxEvents = 4
    MaxAside = 1
    Observers = 3
    Slots = {s1, s2, s3}
    TargetSlot = s1
    Threshold = 5000
    DeployerWeight = 10000
    Places = {"a", "b"}
    Profiles <- MCProfiles
    Entropies = {0, 10000}
INVARIANTS
    TreeSound
    JournalSound
    ScoreSound
SYMMETRY ReportsSymmetry
CHECK_DEADLOCK FALSE
