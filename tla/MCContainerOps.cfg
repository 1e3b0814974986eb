CONSTANTS
    Containers = {c1, c2}
    OpIds = {o1, o2, o3}
    NoOp = NoOp
SPECIFICATION FairLockSpec
CHECK_DEADLOCK FALSE
INVARIANTS
    LockInv
PROPERTIES
    FreedByItsOwner
    HeldContainerIsFreed
