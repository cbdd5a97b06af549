CONSTANTS
  Bids = {b1, b2}
  MinAmount = 1
  MaxAmount = 1
  Balance = 1
  Duration = 1
  Extensions = {}
  MaxNow = 2
  MaxAuctions = 2
  Runs = {r1, r2}
  Sessions = {s1}
  Faults = FALSE
  Exclusive = TRUE
SPECIFICATION FairSpec
PROPERTIES ArmedAuctionCloses
CHECK_DEADLOCK FALSE
