SPECIFICATION Spec
CONSTANTS
  RootPpn <- MCRootPpn
  PteSlots <- MCPteSlots
  PteValues <- MCPteValues
  VirtualAddresses <- MCVirtualAddresses
INVARIANTS
  TypeOK UserSupervisorDisjoint SumGivesUserRights RightsOrdered WholePages
  UserStoresStayInUserFrames
