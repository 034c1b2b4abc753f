SPECIFICATION OperatorSpec
CONSTANTS
    None = None
    BatchSize = 2
    RingSize = 1
    MaxLeaves = 3
    MaxFaults = 2
    Before <- MCBefore
    After <- MCAfter
    Hashes = {h1, h2}
    MaxSigned = 2
    MaxChanges = 1
INVARIANTS
    PublicationSound
    SetupSound
    RejectionReal
PROPERTIES
    EveryLeafPublished
    SetupResolved
CHECK_DEADLOCK FALSE
