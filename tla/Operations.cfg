CONSTANTS
    Tasks = {o1}
    Sockets = {s1}
    Tokens = {k1}
    Cancellers = {a1}
    Connectors = {n1}
    Waiters = {w1}
    NoOperation = NoOperation
    MaxUpdates = 1
SPECIFICATION FairSpec
CHECK_DEADLOCK FALSE
INVARIANTS
    DoneIsFinal
    DoneMeansOver
PROPERTIES
    OperationsEnd
