CONSTANTS
  Bids = {b1, b2, b3}
  MinAmount = 1
  MaxAmount = 1
  Balance = 1
  Duration = 1
  Extensions = {}
  MaxNow = 0
  MaxAuctions = 3
  Runs = {r1, r2}
  Sessions = {s1}
  Faults = FALSE
  Exclusive = FALSE
SYMMETRY Symmetry
SPECIFICATION Spec
INVARIANTS OneOpenAuction
CHECK_DEADLOCK FALSE
