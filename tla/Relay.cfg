SPECIFICATION FairSpec
CONSTANTS
    Jobs = {1}
    Workers = {w1, w2}
    None = None
    BatchLimit = 16
    MaxGenerations = 2
    Validity = 2
    Lag = 2
    MaxFaults = 1
    MaxStops = 1
    MaxHeight = 2
INVARIANTS
    RowsConsistent
    TransactionsTracked
PROPERTIES
    EverySettled
    ImplementsDelivery
CHECK_DEADLOCK FALSE
