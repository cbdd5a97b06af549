CONSTANTS
  e1 = e1
  e2 = e2
  s1 = s1
  s2 = s2
  PubEvents = {e1, e2}
  CriticalEvents = {e1}
  Subs = {s1, s2}
  OverWs = {s1}
  KeyOf <- EventKey
  Filters <- SubscriberFilter
  InRange <- AnyTime
  RegularWorkers = {w1}
  CriticalWorkers = {w2}
  Batcher = batcher
  EventQueueSize = 1
  CriticalQueueSize = 1
  BatchSize = 2
  MaxQueueDepth = 1
  FailureThreshold = 1
  HalfOpenLimit = 1
  HubClients = {h1}
  MaxClients = 1
  ClientBufferSize = 1
  BroadcastBufferSize = 1
  MaxBroadcasts = 2
  Tasks = {t1, t2}
  IntegrityWorkers = {v1}
  TaskChanSize = 1
  MaxStarts = 2
SPECIFICATION ProgressSpec
INVARIANTS TypesOK AcceptedOnce HubDoesNotPanic CrashHasCause
PROPERTIES AcceptedIsHandled HandlersExit DeadClientLeaves StopCompletes
CHECK_DEADLOCK FALSE
