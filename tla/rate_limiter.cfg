\* A minute is 4 units, so that half of it is a whole number; the idle time is
\* longer than a minute and shorter than an hour, as in the code.
SPECIFICATION Spec
CONSTANTS
  k1 = k1
  k2 = k2
  Keys = {k1, k2}
  Requests <- MCRequests
  Specs <- MCSpecs
  Second = 1
  Minute = 4
  Hour = 12
  RetryAfter = 4
  CleanEvery = 3
  IdleAfter = 5
  MaxGrants = 3
  Horizon = 8
INVARIANTS
  TypeOK
  RateBound
  ReturningClientServed
\* The clock stops at its bound.
CHECK_DEADLOCK FALSE
