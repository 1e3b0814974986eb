CONSTANTS
    Daemon = lxd
    NoProc = nobody
    Activators = {boot}
    Latest = 4
    Skipped = 3
    Legacy = {1, 2, 3}
    NeedsDB = {1, 2}
    NPatches = 2
    Origins = {0, 1, 2, 4, 5}
    MaxFaults = 2
SPECIFICATION FairSpec
CHECK_DEADLOCK FALSE
INVARIANTS
    EachUpdateOnce
    PatchesSound
    UpgradePrepared
PROPERTIES
    DaemonStarts
