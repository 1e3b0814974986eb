SPECIFICATION Spec
CONSTANTS
    Containers = {c1, c2}
    Snaps = {s1, s2}
    Images = {f1}
    Threads = {t1, t2}
    Drivers = {"zfs", "btrfs", "lvm", "dir"}
    MaxIds = 2
    Scenarios <- Both
    MaxNested = 1
    Written = "written"
SYMMETRY Symmetry
CHECK_DEADLOCK FALSE
INVARIANTS
    
    
    RestoreSafe

    
