SPECIFICATION Spec
CONSTANTS
  Writes <- MCWrites
  Causes <- MCCauses
  TrapPcs <- MCTrapPcs
  TrapValues <- MCTrapValues
  MaxCalls = 6
INVARIANTS TypeOK WarlInv MprvOnlyInMachine FramesRestored NoMachineLeak
PROPERTIES SupervisorConfinement
