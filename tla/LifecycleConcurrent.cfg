CONSTANTS
    Containers = {c1}
    Self = c1
    NoOp = NoOp
    OpIds = {o1, o2, o3}
    Clients = {a1, a2}
    Cleaners = {k1, k2}
    InOrder = FALSE
    Workloads <- Races
SPECIFICATION Spec
SYMMETRY ThreadSymmetry
CHECK_DEADLOCK FALSE

    
PROPERTIES
    ImplementsLock
