SPECIFICATION Spec
CONSTANTS
  TrapPolicies = {"Vector"}
  HaltOnEbreak = FALSE
  HaltOnWfi = FALSE
  InstructionSet <- PagedSet
  BootRegisters <- PagedRegisters
  BootPcs <- PagedPcs
  BootPrivileges <- PagedPrivileges
  BootCsrs <- PagedCsrs
  BootRams <- PagedRams
  ResetEntries <- MCEntries
  MaxSteps = 6
  MaxOutput = 2
PROPERTIES UserConfinement
