CONSTANTS
  WindowFrames = 2
  HopFrames = 1
  ConsecutiveWindows = 1
  RefractoryFrames = 1
  MaxFrames = 4
  MinSpeechFrames = 2
  HangoverFrames = 2
  MaxQuiet = 3
  FeatureSlotCount = 3
  MelsPerBlock = 2
  MaxBlocks = 5
SPECIFICATION PathSpec
INVARIANTS
  EveryOpeningHeard
PROPERTIES
  OneCascadePerOpening
  HangoverHolds
CHECK_DEADLOCK FALSE
