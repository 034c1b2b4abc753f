SPECIFICATION Spec
CONSTANTS
    Nonces = {n1, n2, n3}
    None = None
    Capacity = 2
    NonceLifetime = 4
    RateWindow = 2
    Interval = 1
    GlobalLimit = 1
    Reservation = 2
    MaxCounter = 5
    MaxTime = 4
    MaxBoots = 3
INVARIANTS
    DeviceSound
PROPERTIES
    CounterForward
SYMMETRY NonceSymmetry
CHECK_DEADLOCK FALSE
