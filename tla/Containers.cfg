SPECIFICATION Spec
CONSTANTS
  c1 = c1
  c2 = c2
  c3 = c3
  s1 = s1
  t1 = t1
  t2 = t2
  Names = {c1, c2, c3}
  Snaps = {s1}
  Threads = {t1, t2}
  Kinds <- AllKinds
  Sizes = {0, 2, 3}
  RoughSizes = {2}
  HostBase = 10
  HostRange = 12
  DefaultSize = 2
  MaxRequests = 3
  MaxCalm = 5
  MaxHarm = 1
SYMMETRY Symmetry
CHECK_DEADLOCK FALSE
INVARIANTS
    ContainersInv
    
    IsolatedDisjoint
PROPERTIES
    DataKept
