\* One node, set up twice, answers twice.
SPECIFICATION AssocFairSpec
CONSTANTS
  UpNodes = {n1}
  Stamps = {1, 2}
  MAX_RETRIES = 2
  MaxSetups = 2
  MaxAnswers = 2
CHECK_DEADLOCK FALSE
INVARIANTS AssocTypeOK HeartbeatRuns
PROPERTY FailureNoticed
