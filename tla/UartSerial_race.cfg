SPECIFICATION Spec
CONSTANTS
  TxSize = 4
  RxSize = 3
  MaxWrite = 2
  MaxTx = 3
  MaxRx = 0
  MaxEnds = 0
INVARIANT SentOnce
