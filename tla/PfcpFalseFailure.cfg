\* The response to the last retry crosses its time-out.
SPECIFICATION AssocSpec
CONSTANTS
  UpNodes = {n1}
  Stamps = {1}
  MAX_RETRIES = 2
  MaxSetups = 1
  MaxAnswers = 1
CHECK_DEADLOCK FALSE
PROPERTY FailsUnanswered
