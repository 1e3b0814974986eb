SPECIFICATION Spec
CONSTANTS
  Cpus = {0, 1}
  MaxQueue = 2
  Puts <- MCPuts
  ProfilePuts <- MCProfilePuts
  Others <- MCOthers
  MaxRequests = 3
  MaxUpsets = 1
CHECK_DEADLOCK FALSE
INVARIANTS
    UpdateInv
    
PROPERTIES
    
    LimitsEnforced
