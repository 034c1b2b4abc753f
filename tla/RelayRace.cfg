SPECIFICATION Spec
CONSTANTS
    Jobs = {1}
    Workers = {w1}
    None = None
    BatchLimit = 16
    MaxGenerations = 2
    Validity = 2
    Lag = 2
    MaxFaults = 0
    MaxStops = 0
    MaxHeight = 1
PROPERTY NeverFailsCommitted
CHECK_DEADLOCK FALSE
