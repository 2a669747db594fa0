\* One owner of the batch; the server dies up to twice, one statement fails.
SPECIFICATION Spec
CONSTANTS
  s1 = s1
  s2 = s2
  s3 = s3
  r0 = r0
  r1 = r1
  r2 = r2
  Slots = {s1, s2, s3}
  MaxConcurrent = 2
  Start = r0
  Resumes = {r1, r2}
  Overlap = FALSE
  MaxCrashes = 2
  MaxFaults = 1
  MaxPolls = 0
  MaxLaunches = 0
SYMMETRY MCSymmetry
INVARIANTS
  TypeOK
  SentIsRecorded
  TalliedOnce
PROPERTIES
  OutcomeSticks
CHECK_DEADLOCK FALSE
