SPECIFICATION FairSpec
CONSTANTS
  RxDescCnt = 2
  Buf = {b1, b2, b3}
  NoBuf = NoBuf
  MaxFrames = 3
  MaxStops = 0
PROPERTIES
  StallEnds
