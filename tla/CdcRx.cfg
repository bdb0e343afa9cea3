SPECIFICATION LiveSpec
CONSTANTS
  MaxPacketSize = 2
  MaxBytes = 12
  MaxConfigs = 2
CONSTRAINT UntilSpoilt
INVARIANTS
  TypeOK
  BlockFree
  QueueHoldsStream
  CopiesStream
  AvailableIsReal
  StoppedOnlyIfUnread
PROPERTIES
  ImplementsPipe
  ByteTaken
  StopEnds
