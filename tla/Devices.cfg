CONSTANTS
  MaxAddress = 15
  MaxDevices = 2
SPECIFICATION BusSpec
INVARIANTS
  OneOwner
  FindExact
  ImageRangeExact
