CONSTANTS
  Second = 3
  DefaultRotateBefore = 7
  MinRequeueAfter = 2
  MaxSeconds = 6
  MaxStart = 3
  MaxLifetime = 20
SPECIFICATION Spec
INVARIANTS FreshIsNotDue WakeIsDue WakeIsInTime
