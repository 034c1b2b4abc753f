SPECIFICATION Spec
CONSTANTS
    Envelopes <- Colliding
    Claims <- Withdrawals
    Slots = {s1, s2}
    CounterDevices = {"d1"}
    Capacity = 3
    RelayCapacity = 2
    Window = 0
    None = None
    MaxTime = 1
    MaxElsewhere = 1
    MaxEvents = 1
INVARIANTS
    ReceiptsSound
PROPERTIES
    AnswersConsistent
    RevocationHolds
SYMMETRY Connections
CHECK_DEADLOCK FALSE
