SPECIFICATION FairSpec
CONSTANTS
    Devices = {d1, d2}
    Epochs = {e1, e2}
    Counting = {d1}
    None = None
    MaxSessions = 2
    MaxInterruptions = 2
INVARIANTS
    ControllerConsistent
    CaptureSound
    NoSpuriousFailure
PROPERTIES
    SessionEnds
CHECK_DEADLOCK FALSE
