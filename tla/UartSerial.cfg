SPECIFICATION LiveSpec
CONSTANTS
  TxSize = 4
  RxSize = 3
  MaxWrite = 6
  MaxTx = 7
  MaxRx = 3
  MaxEnds = 1
CONSTRAINT UntilRaced
INVARIANTS
  TypeOK
  NestedOnce
  NothingStranded
  OneDirection
PROPERTIES
  TxImplementsPipe
  RxImplementsPipe
  CallsReturn
