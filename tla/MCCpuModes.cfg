SPECIFICATION Spec
CONSTANTS
  TrapPolicies = {"Vector"}
  HaltOnEbreak = TRUE
  HaltOnWfi = FALSE
  InstructionSet <- ModesSet
  BootRegisters <- MCBootRegisters
  BootPcs <- MCEntries
  BootPrivileges <- PrivilegeLevel
  BootCsrs <- ModesCsrs
  BootRams <- ModesRams
  ResetEntries <- MCEntries
  MaxSteps = 5
  MaxOutput = 2
INVARIANTS TypeOK LegalState RecordTruthful
PROPERTIES PreciseTraps PrivilegeGate MachineConfinement CountersExact
