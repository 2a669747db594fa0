\* 5 s and 30 s in units of 2.5 s, answers within one unit; no wait lasts until
\* the horizon.
SPECIFICATION FairSpec
CONSTANTS
  Timeouts <- MCTimeouts
  pollIntervalMin = 2
  pollIntervalMax = 12
  MaxLatency = 1
  Horizon = 45
INVARIANTS
  TypeOK
  EndsByDeadline
  TimedOutMeansLate
  QuickFeedback
PROPERTIES
  WaitSpec
  WaitEnds
\* The wait returns.
CHECK_DEADLOCK FALSE
