SPECIFICATION Spec
CONSTANTS
  N = 3
  HeldOut = {2, 3}
  Calib = {2}
  MaxRuns = 4
  None = None
  Absent = Absent
  Torn = Torn
INVARIANTS
  MeasuredOnUnseen
  SameTraining
  MethodNeverHurts
CHECK_DEADLOCK FALSE
