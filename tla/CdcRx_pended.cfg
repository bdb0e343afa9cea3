SPECIFICATION Spec
CONSTANTS
  MaxPacketSize = 2
  MaxBytes = 9
  MaxConfigs = 1
PROPERTIES
  IrqOnlyIfPended
