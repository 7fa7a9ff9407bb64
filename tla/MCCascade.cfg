CONSTANTS
  WindowFrames = 2
  HopFrames = 2
  ConsecutiveWindows = 2
  RefractoryFrames = 5
  MaxFrames = 13
SPECIFICATION Spec
INVARIANTS
  TypeOK
  CascadeFollowsGate
PROPERTIES
  ImplementsSpotter
  SmoothedDetection
  InferenceCadence
