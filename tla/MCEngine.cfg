CONSTANTS
  PcmSlots = 1
  FeatureSlots = 1
  MaxPosted = 3
  MaxStarts = 2
SPECIFICATION FairSpec
INVARIANTS
  QuiescentWhenStopped
  OneThreadPerRole
  MessagesInOrder
PROPERTIES
  StopReturns
  Delivers
CHECK_DEADLOCK FALSE
