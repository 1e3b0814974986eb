SPECIFICATION Spec
CONSTANTS
    x = x
    t = t
    Ops <- MCOps
    Session = x
    MaxFaults = 1
    MaxProgress = 1
    MaxOutput = 2
CHECK_DEADLOCK FALSE
INVARIANTS
    ExecInv
    WaitSound

    
