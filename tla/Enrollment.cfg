SPECIFICATION Spec
CONSTANTS
    Keys = {k1, k2}
    Commitments = {c1, c2}
    None = None
    MaxPending = 3
    Lifetime = 1
    MaxIssued = 4
    MaxTime = 1
    MaxCounter = 2
    MaxLeaves = 2
INVARIANTS
    EnrolledByVoucher
    StoresConsistent
PROPERTIES
    NothingUndone
SYMMETRY Identities
CHECK_DEADLOCK FALSE
