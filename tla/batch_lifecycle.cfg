\* One owner, no failing statement: the abstract life cycle and progress.
SPECIFICATION FairSpec
CONSTANTS
  s1 = s1
  s2 = s2
  s3 = s3
  r0 = r0
  r1 = r1
  r2 = r2
  Slots = {s1, s2}
  QCReport <- MCQCReport
  PostReport <- MCPostReport
  RHSAReport <- MCRHSAReport
  MaxConcurrent = 1
  Start = r0
  Resumes = {r1, r2}
  Overlap = FALSE
  MaxCrashes = 2
  MaxFaults = 0
  MaxPolls = 0
  MaxLaunches = 0
INVARIANTS
  ExactTally
  EndedRowsSettled
  FinishedViewsAgree
PROPERTIES
  LifecycleSpec
  ShownResultsStand
  JobSettles
CHECK_DEADLOCK FALSE
