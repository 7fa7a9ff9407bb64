CONSTANTS
  ConsecutiveWindows = 2
  RefractoryFrames = 3
  MaxFrames = 12
SPECIFICATION Spec
INVARIANTS
  TypeOK
  NeverDeaf
PROPERTIES
  ImplementsSpotter
  StandsOnRun
