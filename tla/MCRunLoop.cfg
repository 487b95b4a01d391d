SPECIFICATION RunSpec
CONSTANTS
  TrapPolicies = {"Halt", "Vector"}
  HaltOnEbreak = TRUE
  HaltOnWfi = TRUE
  InstructionSet <- MCInstructionSet
  BootRegisters <- MCRegisters
  BootPcs <- MCEntries
  BootPrivileges <- MCPrivileges
  BootCsrs <- MCCsrs
  BootRams <- MCRams
  ResetEntries <- MCEntries
  MaxSteps = 6
  MaxOutput = 6
  Limits = {0, 1, 3}
  Tracing = {TRUE, FALSE}
  MaxRuns = 2
CHECK_DEADLOCK FALSE
INVARIANTS TraceIsExecution ResultMatchesTrace ExitTruthful TruncationFound
PROPERTY RunEnds
