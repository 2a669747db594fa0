\* Two users resume the same batch at the same time.
SPECIFICATION Spec
CONSTANTS
  s1 = s1
  s2 = s2
  s3 = s3
  r0 = r0
  r1 = r1
  r2 = r2
  Slots = {s1}
  MaxConcurrent = 1
  Start = r0
  Resumes = {r1, r2}
  Overlap = TRUE
  MaxCrashes = 1
  MaxFaults = 0
  MaxPolls = 0
  MaxLaunches = 0
INVARIANT OneResumeAtATime
CHECK_DEADLOCK FALSE
