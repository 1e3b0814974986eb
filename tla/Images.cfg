SPECIFICATION Spec
CONSTANTS
  t1 = t1
  t2 = t2
  t3 = t3
  a1 = a1
  a2 = a2
  Threads = {t1, t2}
  Aliases = {a1, a2}
  Kinds <- AllKinds
  Protocols = {"none", "lxd", "simplestreams"}
  Versions = {1, 2}
  HasVolumes = TRUE
  MaxRequests = 3
  MaxHarm = 1
  MaxPublished = 2
SYMMETRY Symmetry
CHECK_DEADLOCK FALSE
INVARIANTS
    
    WaiterHasWaker
PROPERTIES
    RefreshSafe
