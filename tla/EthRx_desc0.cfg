SPECIFICATION Spec
CONSTANTS
  RxDescCnt = 2
  Buf = {b1, b2, b3}
  NoBuf = NoBuf
  MaxFrames = 2
  MaxStops = 1
SYMMETRY BufSymmetry
INVARIANTS
  BackupAddrIsDesc0
