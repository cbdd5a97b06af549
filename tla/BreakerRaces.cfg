CONSTANTS
  Callers = {c1, c2}
  FailureThreshold = 2
  SuccessThreshold = 2
  MaxRequests = 3
  MinRequests = 2
  RateNum = 1
  RateDen = 2
  Timeout = 0
  MaxTotal = 2
SPECIFICATION FairSpec
INVARIANTS TypeOK NoMissedTrip
PROPERTIES OpenEnds
