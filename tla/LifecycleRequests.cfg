CONSTANTS
    Containers = {c1}
    Self = c1
    NoOp = NoOp
    OpIds = {o1, o2, o3, o4, o5, o6}
    Clients = {a1}
    Cleaners = {k1, k2}
    InOrder = TRUE
    Workloads <- Requests
SPECIFICATION FairSpec
CHECK_DEADLOCK FALSE
INVARIANTS
    
    EphemeralFate
    HostShutdownStops

    
