\* A timer is removed between its choice and the wait for it.
SPECIFICATION FairSpec
CONSTANTS
  Intervals = {1, 2, 4}
  MaxTime = 6
  MaxTimers = 2
  MaxRemoves = 1
  DistinctTimes = TRUE
CHECK_DEADLOCK FALSE
PROPERTY TimerServiceLive
