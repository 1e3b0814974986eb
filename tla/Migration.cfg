SPECIFICATION Spec
CONSTANTS
  Drivers = {"rsync", "zfs", "btrfs"}
  MaxAttempts = 2
  MaxFaults = 3
CHECK_DEADLOCK FALSE
INVARIANTS
    InStep
    

    
