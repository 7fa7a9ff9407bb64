CONSTANTS
  Speakers = {s1, s2, s3}
  HeldOut = {s3}
  Versions = {1, 2}
  MaxJobs = 2
  Absent = Absent
  Torn = Torn
SPECIFICATION Spec
INVARIANTS
  VerifiedIsOneBuild
  BuiltIsDelivered
  SpeakerIndependent
CHECK_DEADLOCK FALSE
