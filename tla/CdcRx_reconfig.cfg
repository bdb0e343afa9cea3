SPECIFICATION Spec
CONSTANTS
  MaxPacketSize = 2
  MaxBytes = 4
  MaxConfigs = 2
INVARIANTS
  ReadIsSafe
