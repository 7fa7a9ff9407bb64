CONSTANTS
  Capacity = 3
  MaxFrames = 7
  Modulus = 64
SPECIFICATION Spec
INVARIANT RestingDepthBound
