CONSTANTS
  Capacity = 3
  MaxFrames = 8
  Modulus = 64
SPECIFICATION FairSpec
INVARIANTS
  TypeOK
  ExclusiveSlot
  RingDepthBound
  FillTakesFreeSlot
  Accounting
PROPERTIES
  ImplementsFairQueue
  Drains
