CONSTANTS
  Callers = {c1, c2}
  FailureThreshold = 2
  SuccessThreshold = 1
  MaxRequests = 4
  MinRequests = 4
  RateNum = 1
  RateDen = 2
  Timeout = 0
  MaxTotal = 4
SPECIFICATION UnattendedSpec
PROPERTIES ClosesAfterRecovery
CHECK_DEADLOCK FALSE
