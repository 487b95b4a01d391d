CONSTANTS
  MaxAddress = 7
  MaxDevices = 2
  Fill = {1, 2, 3}
  Configs <- MCConfigs
  UartSpan = 2
  Files <- MCFiles
  GuestStores <- MCGuestStores
  GuestPcs <- MCGuestPcs
  MaxSteps = 2
SPECIFICATION Spec
PROPERTY RejectedLoadKeepsMemory
