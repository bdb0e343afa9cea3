SPECIFICATION LiveSpec
CONSTANTS
  MaxPacketSize = 2
  MaxWrite = 4
  MaxBytes = 5
  MaxConfigs = 2
  MaxControls = 2
CONSTRAINT UntilTorn
INVARIANTS
  TypeOK
  QueueHoldsStream
  TransferIntact
  NothingStranded
  EndsShort
PROPERTIES
  ImplementsPipe
  EverythingSent
  FlushReturns
  WriteReturnsUnlessRearmed
