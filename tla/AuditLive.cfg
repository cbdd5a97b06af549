CONSTANTS
  Events = {e1, e2, e3}
  Workers = {w1}
  BatchWorkers = {b1}
  Coordinator = coordinator
  BufferSize = 2
  BatchSize = 2
  Threshold = 1
  Faults = FALSE
  MaxCrashes = 0
SPECIFICATION FairSpec
PROPERTIES EventsDrain CloseCompletes
