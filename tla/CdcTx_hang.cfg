SPECIFICATION LiveSpec
CONSTANTS
  MaxPacketSize = 2
  MaxWrite = 4
  MaxBytes = 6
  MaxConfigs = 1
  MaxControls = 2
PROPERTIES
  WriteReturns
