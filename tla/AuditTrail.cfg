CONSTANTS
  Events = {e1, e2, e3}
  Workers = {w1, w2}
  BatchWorkers = {b1}
  Coordinator = coordinator
  BufferSize = 2
  BatchSize = 2
  Threshold = 2
  Faults = TRUE
  MaxCrashes = 1
SYMMETRY Symmetry
SPECIFICATION Spec
INVARIANTS TypeOK OneCopy PublishedIsStored TrailLinked
