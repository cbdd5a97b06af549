CONSTANTS
  Bids = {b1, b2}
  MinAmount = 1
  MaxAmount = 2
  Balance = 2
  Duration = 1
  Extensions = {}
  MaxNow = 1
  MaxAuctions = 2
  Runs = {r1, r2}
  Sessions = {s1, s2}
  Faults = TRUE
  Exclusive = TRUE
SYMMETRY Symmetry
SPECIFICATION Spec
INVARIANTS OneOpenAuction OneHighestWinner BidDecidedOnce
PROPERTIES ImplementsOutcome
CHECK_DEADLOCK FALSE
