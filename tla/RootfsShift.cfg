SPECIFICATION Spec
CONSTANTS
  MinIds = 2
  Reserved = 4
  TopId = 10
  FallbackHost = 4
  FallbackRange = 6
  Envs <- MCEnvs
  Served <- MCServed
  Raws <- MCRaws
  Probes <- MCProbes
  Received <- MCReceived
  Ids = {0, 1}
  Inodes = {1, 2}
  Layouts <- MCLayouts
  MaxRequests = 3
  MaxHarm = 1
CHECK_DEADLOCK FALSE
INVARIANTS
    OwnersInv
    MapsRight
    AllocationUsable
