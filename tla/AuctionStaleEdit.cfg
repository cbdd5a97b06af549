CONSTANTS
  Bids = {b1, b2}
  MinAmount = 1
  MaxAmount = 1
  Balance = 1
  Duration = 1
  Extensions = {0}
  MaxNow = 0
  MaxAuctions = 2
  Runs = {r1, r2}
  Sessions = {s1}
  Faults = TRUE
  Exclusive = FALSE
SYMMETRY Symmetry
SPECIFICATION Spec

PROPERTIES DecidedBidIsFinal
CHECK_DEADLOCK FALSE
