SPECIFICATION Spec
CONSTANTS
  RxDescCnt = 3
  Buf = {b1, b2, b3, b4}
  NoBuf = NoBuf
  MaxFrames = 4
  MaxStops = 1
SYMMETRY BufSymmetry
INVARIANTS
  TypeOK
  BufferConservation
  DmaOwnsBuffer
  DmaAddressValid
  RingAligned
  PacketIsOneFrame
  NoLostWakeup
  ExhaustionEnds
PROPERTIES
  GivesBackReadOnlyDrained
  DeliverInOrder
