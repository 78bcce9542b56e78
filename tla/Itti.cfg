\* Timers are set up, expire, and are removed in every phase of the manager.
SPECIFICATION FairSpec
CONSTANTS
  Intervals = {1, 2, 4}
  MaxTime = 6
  MaxTimers = 3
  MaxRemoves = 2
  DistinctTimes = TRUE
CHECK_DEADLOCK FALSE
INVARIANTS TypeOK TimersKept
PROPERTIES RemoveTellsTruth TimerServiceSafe LiveUnremoved
