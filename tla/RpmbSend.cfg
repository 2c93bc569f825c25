\* The retry counts of the code, and requests that follow failed ones.
CONSTANTS
  WriteRetry = 1
  ReadRetry = 3
  MaxRequests = 4
SPECIFICATION RpmbSpec
INVARIANT AttentionIsSurvived
CHECK_DEADLOCK FALSE
