CONSTANTS
  ConsentReqs = {r1, r2}
  Consumers = {c1, c2}
  Aggregates = {a1, a2}
  MaxVersion = 4
  MaxConsentOps = 5
  NoConsumer = noConsumer
  Calls = {k1}
  Bids = {b1, b2}
  CallReqs = {q1, q2}
  BidReqs = {x1}
  MaxCallOps = 3
  Nobody = nobody
  Caller = caller
  ComposedConsentOps = 3
  ComposedCallOps = 2
  Sources = {"internal", "federal"}
  InternalList = "internal"
  Providers = {p1, p2}
  Internal = {p1}
  DncReqs = {d1, d2}
  MaxDncOps = 4
  NEvents = 2
  ArchiveIds = {i1, i2}
  NoArchive = null
  Archivers = {v1, v2}
  ArchiveBatchSize = 2
  e2 = e2
  e3 = e3
  s2 = s2
  PubEvents = {e1, e2, e3}
  CriticalEvents = {}
  Subs = {s1, s2}
  OverWs = {}
  KeyOf <- EventKey
  Filters <- EntityFilter
  InRange <- SecondTimed
  RegularWorkers = {w1}
  CriticalWorkers = {}
  Batcher = batcher
  EventQueueSize = 1
  CriticalQueueSize = 1
  BatchSize = 2
  MaxQueueDepth = 3
  FailureThreshold = 1
  HalfOpenLimit = 1
SYMMETRY Symmetry
SPECIFICATION ServicesSpec
INVARIANTS TypesOK PointerHasVersion UncontestedRevocationHolds    RevokedIsNotRouted SuppressedAsAsked SyncingHasCause MarkedIsStored ArchivedTwiceHasCause DeliveredAsSubscribed
PROPERTIES HistoryKept SettledBidIsFinal LateRequestsKeepRows
CHECK_DEADLOCK FALSE
