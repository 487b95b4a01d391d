SPECIFICATION Spec
CONSTANTS
  TrapPolicies = {"Halt"}
  HaltOnEbreak = TRUE
  HaltOnWfi = TRUE
  InstructionSet <- MemorySet
  BootRegisters <- MCBootRegisters
  BootPcs <- MCEntries
  BootPrivileges <- MemoryPrivileges
  BootCsrs <- MemoryCsrs
  BootRams <- MemoryRams
  ResetEntries <- MemoryEntries
  MaxSteps = 5
  MaxOutput = 2
INVARIANTS RecordTruthful
PROPERTIES PreciseTraps PcStaysAligned
