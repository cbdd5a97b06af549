--------------------------- MODULE ProgressProofs ---------------------------
(***************************************************************************)
(* Proofs about the WebSocket hubs, for any number of clients and each of  *)
(* the three flavours; about the audit integrity service, for any number   *)
(* of workers, tasks and lives; and that the run over these two and the    *)
(* publisher keeps every type, for any capacity of their channels.         *)
(***************************************************************************)
EXTENDS MCProgress, AuditPublisherProofs

-----------------------------------------------------------------------------
(* The WebSocket hubs *)

\* What the hub relies on when it sends or closes: a client in the map, or on
\* its way into it, has an open channel, and only a client that has been
\* handed over is in the map.
OpenInMap ==
    /\ HubDoesNotPanic
    /\ \A c \in HubClients : cstage[c] \in {"new", "registering"} => c \notin clients
    /\ \A c \in HubClients : cstage[c] = "registering" => send[c] = "open"

HubInv == HubTypeOK /\ OpenInMap

LEMMA HubInitial == HubInit => HubInv
<1> SUFFICES ASSUME HubInit PROVE HubInv
  OBVIOUS
<1>1. 0 \in 0 .. ClientBufferSize /\ 0 \in 0 .. BroadcastBufferSize /\ 0 \in 0 .. MaxBroadcasts
  BY HubAssumption
<1>2. HubTypeOK
  BY <1>1 DEF HubInit, HubTypeOK
<1>3. OpenInMap
  BY DEF HubInit, OpenInMap, HubDoesNotPanic
<1> QED
  BY <1>2, <1>3 DEF HubInv

\* A non-blocking send to clients with open channels fills their buffers at
\* most to capacity and panics nobody.
LEMMA OfferKeeps ==
    ASSUME HubTypeOK, NEW S \in SUBSET HubClients, NEW who, Offer(S, who)
    PROVE  /\ buffered' \in [HubClients -> 0 .. ClientBufferSize]
           /\ panicked' \in {panicked, who}
           /\ (\A c \in S : send[c] = "open") => panicked' = panicked
BY HubAssumption DEF HubTypeOK, Offer

\* Closing clients of the map, all open, panics nobody and closes no other.
LEMMA CloseKeeps ==
    ASSUME HubInv, NEW S \in SUBSET clients, CloseAll(S)
    PROVE  /\ send' \in [HubClients -> {"none", "open", "closed"}]
           /\ panicked' = panicked
           /\ \A c \in HubClients \ S : send'[c] = send[c]
BY DEF HubInv, HubTypeOK, OpenInMap, HubDoesNotPanic, CloseAll

LEMMA UnregisteredKeeps ==
    ASSUME HubInv, NEW S \in SUBSET HubClients, Unregistered(S)
    PROVE  /\ send' \in [HubClients -> {"none", "open", "closed"}]
           /\ panicked' = panicked
           /\ clients' = clients \ S
           /\ \A c \in HubClients : c \notin clients => send'[c] = send[c]
           /\ \A c \in clients' : send'[c] = "open"
<1> DEFINE T == S \intersect clients
<1>1. T \in SUBSET clients /\ CloseAll(T) /\ clients' = clients \ S
  BY DEF Unregistered
<1>2. /\ send' \in [HubClients -> {"none", "open", "closed"}]
      /\ panicked' = panicked
      /\ \A c \in HubClients \ T : send'[c] = send[c]
  BY <1>1, CloseKeeps
<1>3. \A c \in clients : c \in HubClients /\ send[c] = "open"
  BY DEF HubInv, HubTypeOK, OpenInMap, HubDoesNotPanic
<1> HIDE DEF T
<1>4. T = S \intersect clients
  BY DEF T
<1> QED
  BY <1>1, <1>2, <1>3, <1>4

\* The steps of one client's handler and pumps.
LEMMA ClientStepKeeps ==
    ASSUME HubInv, NEW c \in HubClients, ClientStep(c)
    PROVE  HubInv'
<1> USE HubAssumption
<1>1. CASE RegisterClient(c)
  BY <1>1 DEF RegisterClient, HubInv, HubTypeOK, OpenInMap, HubDoesNotPanic, LoopsOf, Flavours
<1>2. CASE registerClient(c)
  <2> DEFINE S == IF flavour = "rest" THEN {} ELSE {c}
  <2>1. S \in SUBSET HubClients /\ Offer(S, "hub") /\ HubTypeOK
    BY <1>2 DEF registerClient, HubInv
  <2>2. \A d \in S : send[d] = "open"
    BY <1>2 DEF registerClient, HubInv, OpenInMap
  <2>3. buffered' \in [HubClients -> 0 .. ClientBufferSize] /\ panicked' = panicked
    BY <2>1, <2>2, OfferKeeps
  <2> QED
    BY <1>2, <2>3 DEF registerClient, HubInv, HubTypeOK, OpenInMap, HubDoesNotPanic, LoopsOf, Flavours
<1>3. CASE Greet(c)
  <2>1. buffered' \in [HubClients -> 0 .. ClientBufferSize] /\ panicked' \in {panicked, "ServeHTTP"}
    BY <1>3, OfferKeeps DEF Greet, HubInv
  <2> QED
    BY <1>3, <2>1 DEF Greet, HubInv, HubTypeOK, OpenInMap, HubDoesNotPanic, LoopsOf, Flavours
<1>4. CASE RegisterTimeout(c)
  BY <1>4 DEF RegisterTimeout, HubInv, HubTypeOK, OpenInMap, HubDoesNotPanic, LoopsOf, Flavours
<1>5. CASE PeerGone(c)
  BY <1>5 DEF PeerGone, HubInv, HubTypeOK, OpenInMap, HubDoesNotPanic, LoopsOf, Flavours
<1>6. CASE ClientMessage(c)
  <2>1. buffered' \in [HubClients -> 0 .. ClientBufferSize] /\ panicked' \in {panicked, "ReadPump"}
    BY <1>6, OfferKeeps DEF ClientMessage, HubInv
  <2> QED
    BY <1>6, <2>1 DEF ClientMessage, HubInv, HubTypeOK, OpenInMap, HubDoesNotPanic, LoopsOf, Flavours
<1>7. CASE ReadPumpEnds(c)
  <2>1. CASE Unregistered({c}) /\ UNCHANGED unregister
    <3>1. /\ send' \in [HubClients -> {"none", "open", "closed"}]
          /\ panicked' = panicked
          /\ clients' = clients \ {c}
          /\ \A d \in HubClients : d \notin clients => send'[d] = send[d]
          /\ \A d \in clients' : send'[d] = "open"
      BY <2>1, UnregisteredKeeps
    <3> QED
      BY <1>7, <2>1, <3>1 DEF ReadPumpEnds, HubInv, HubTypeOK, OpenInMap, HubDoesNotPanic, LoopsOf, Flavours
  <2>2. CASE UNCHANGED <<clients, send, panicked>>
    <3>1. unregister' \in {unregister, unregister \union {c}}
      BY <1>7, <2>2 DEF ReadPumpEnds
    <3> QED
      BY <1>7, <2>2, <3>1 DEF ReadPumpEnds, HubInv, HubTypeOK, OpenInMap, HubDoesNotPanic, LoopsOf, Flavours
  <2> QED
    BY <1>7, <2>1, <2>2 DEF ReadPumpEnds
<1>8. CASE WritePump(c)
  BY <1>8 DEF WritePump, HubInv, HubTypeOK, OpenInMap, HubDoesNotPanic, LoopsOf, Flavours
<1>9. CASE WritePumpEnds(c)
  BY <1>9 DEF WritePumpEnds, HubInv, HubTypeOK, OpenInMap, HubDoesNotPanic, LoopsOf, Flavours
<1>10. CASE unregisterClient(c)
  <2>1. /\ send' \in [HubClients -> {"none", "open", "closed"}]
        /\ panicked' = panicked
        /\ clients' = clients \ {c}
        /\ \A d \in HubClients : d \notin clients => send'[d] = send[d]
        /\ \A d \in clients' : send'[d] = "open"
    BY <1>10, UnregisteredKeeps DEF unregisterClient
  <2> QED
    BY <1>10, <2>1 DEF unregisterClient, HubInv, HubTypeOK, OpenInMap, HubDoesNotPanic, LoopsOf, Flavours
<1> QED
  BY <1>1, <1>2, <1>3, <1>4, <1>5, <1>6, <1>7, <1>8, <1>9, <1>10 DEF ClientStep

\* The loops, and what stops them.
LEMMA LoopStepKeeps ==
    ASSUME HubInv,
           \/ BroadcastEvent \/ processEventBroadcast \/ pingClients \/ cleanupStaleConnections
           \/ CancelContext \/ (\E l \in loops : LoopExits(l)) \/ shutdown \/ Stop
    PROVE  HubInv'
<1> USE HubAssumption
<1>1. CASE BroadcastEvent
  BY <1>1 DEF BroadcastEvent, HubInv, HubTypeOK, OpenInMap, HubDoesNotPanic, LoopsOf, Flavours
<1>2. CASE processEventBroadcast
  <2>1. PICK S \in SUBSET clients :
          /\ Offer(S, "hub")
          /\ unregister' = IF flavour = "rest" THEN unregister
                           ELSE unregister \union {c \in S : buffered[c] = ClientBufferSize}
    BY <1>2 DEF processEventBroadcast
  <2>2. S \in SUBSET HubClients /\ \A d \in S : send[d] = "open"
    BY DEF HubInv, HubTypeOK, OpenInMap, HubDoesNotPanic
  <2>3. buffered' \in [HubClients -> 0 .. ClientBufferSize] /\ panicked' = panicked
    BY <2>1, <2>2, OfferKeeps DEF HubInv
  <2>4. unregister' \subseteq HubClients
    BY <2>1, <2>2 DEF HubInv, HubTypeOK
  <2> QED
    BY <1>2, <2>3, <2>4 DEF processEventBroadcast, HubInv, HubTypeOK, OpenInMap, HubDoesNotPanic, LoopsOf, Flavours
<1>3. CASE pingClients
  BY <1>3 DEF pingClients, HubInv, HubTypeOK, OpenInMap, HubDoesNotPanic, LoopsOf, Flavours
<1>4. CASE cleanupStaleConnections
  BY <1>4 DEF cleanupStaleConnections, HubInv, HubTypeOK, OpenInMap, HubDoesNotPanic, LoopsOf, Flavours
<1>5. CASE CancelContext
  BY <1>5 DEF CancelContext, HubInv, HubTypeOK, OpenInMap, HubDoesNotPanic, LoopsOf, Flavours
<1>6. CASE \E l \in loops : LoopExits(l)
  BY <1>6 DEF LoopExits, HubInv, HubTypeOK, OpenInMap, HubDoesNotPanic, LoopsOf, Flavours
<1>7. CASE shutdown
  <2>1. /\ send' \in [HubClients -> {"none", "open", "closed"}]
        /\ panicked' = panicked
        /\ \A d \in HubClients \ clients : send'[d] = send[d]
    BY <1>7, CloseKeeps DEF shutdown
  <2>2. clients' = {} /\ loops' \subseteq loops /\ UNCHANGED <<flavour, ctxDone, buffered, cstage, readPump, writePump, unregister, queued, sent>>
    BY <1>7 DEF shutdown
  <2>3. peer' \in [HubClients -> {"open", "silent", "closed"}]
    BY <1>7 DEF shutdown, HubInv, HubTypeOK
  <2>4. HubTypeOK'
    BY <2>1, <2>2, <2>3 DEF HubInv, HubTypeOK, LoopsOf, Flavours
  <2>5. OpenInMap'
    BY <2>1, <2>2 DEF HubInv, OpenInMap, HubDoesNotPanic
  <2> QED
    BY <2>4, <2>5 DEF HubInv
<1>8. CASE Stop
  BY <1>8 DEF Stop, HubInv, HubTypeOK, OpenInMap, HubDoesNotPanic, LoopsOf, Flavours
<1> QED
  BY <1>1, <1>2, <1>3, <1>4, <1>5, <1>6, <1>7, <1>8

LEMMA HubInductive == HubInv /\ [HubNext]_hubVars => HubInv'
<1> SUFFICES ASSUME HubInv, [HubNext]_hubVars
             PROVE  HubInv'
  OBVIOUS
<1>1. CASE HubNext
  BY <1>1, ClientStepKeeps, LoopStepKeeps DEF HubNext
<1>2. CASE UNCHANGED hubVars
  BY <1>2 DEF hubVars, HubInv, HubTypeOK, OpenInMap, HubDoesNotPanic, LoopsOf, Flavours
<1> QED
  BY <1>1, <1>2

LEMMA HubInvariant == HubSpec => []HubInv
BY HubInitial, HubInductive, PTL DEF HubSpec

\* Buffers never exceed their capacity and goroutines stay at the steps they
\* have, for any number of clients.
THEOREM HubTypeCorrect == HubSpec => []HubTypeOK
BY HubInvariant, PTL DEF HubInv

\* No order of registrations, unregistrations from four places, broadcasts and
\* shutdown makes the hub send on a closed channel or close one twice: the map
\* and the channel of a client change together (registerClient,
\* unregisterClient, shutdown).
THEOREM HubNeverPanics == HubSpec => []HubDoesNotPanic
<1>1. HubInv => HubDoesNotPanic
  BY DEF HubInv, OpenInMap
<1> QED
  BY <1>1, HubInvariant, PTL

-----------------------------------------------------------------------------
(* The integrity service *)

\* A worker at its result has the task it took.
TasksHeld ==
    /\ IntegrityTypeOK
    /\ \A w \in IntegrityWorkers : ipc[w] = "result" => itask[w] # {}

\* What only a Stop does, and Stop cancels the context first.
CancelledFirst ==
    /\ stopping # "no" => bgDone
    /\ taskChan = "closed" => bgDone
    /\ resultChan = "closed" => bgDone
    /\ (starts > 0 /\ ~ticker) => bgDone
    /\ \A g \in Lives : spc[g] # "off" => starts > 0
    /\ crashed # "none" => bgDone

\* In the first life each channel is closed once, at the end, when nobody is
\* left who would send on it.
ClosedInOrder ==
    /\ ~isRunning => stopping = "no"
    /\ starts = 0 => ~isRunning /\ taskChan = "open" /\ resultChan = "open"
    /\ (starts <= 1 /\ taskChan = "closed") => (stopping = "wait" \/ ~isRunning)
    /\ (starts <= 1 /\ resultChan = "closed") =>
          (~isRunning /\ \A w \in IntegrityWorkers : ipc[w] = "off")
    /\ crashed \in {"worker", "Stop"} => starts > 1

LEMMA IntegrityInitial == IntegrityInit => TasksHeld /\ CancelledFirst /\ ClosedInOrder
<1> SUFFICES ASSUME IntegrityInit PROVE TasksHeld /\ CancelledFirst /\ ClosedInOrder
  OBVIOUS
<1>1. <<>> \in Seq(Tasks) /\ Len(<<>>) = 0
  OBVIOUS
<1>2. 0 \in 0 .. MaxStarts /\ 0 <= TaskChanSize
  BY IntegrityAssumption
<1>3. IntegrityTypeOK
  BY <1>1, <1>2 DEF IntegrityInit, IntegrityTypeOK
<1>4. TasksHeld /\ CancelledFirst /\ ClosedInOrder
  BY <1>3 DEF IntegrityInit, TasksHeld, CancelledFirst, ClosedInOrder
<1> QED
  BY <1>4
-----------------------------------------------------------------------------
LEMMA TaskAppended ==
    ASSUME NEW q \in Seq(Tasks), NEW t \in Tasks
    PROVE  Append(q, t) \in Seq(Tasks) /\ Len(Append(q, t)) = Len(q) + 1
OBVIOUS

\* One step per action: tasks move between the channels and the workers.
LEMMA TasksHeldKept ==
    ASSUME TasksHeld, IntegrityNext
    PROVE  TasksHeld'
<1> USE IntegrityAssumption DEF TasksHeld, IntegrityTypeOK, Lives, loopVars, poolVars, Unused
<1>1. CASE IntegrityStart
  BY <1>1 DEF IntegrityStart
<1>2. CASE StopBegins
  BY <1>2 DEF StopBegins
<1>3. CASE StopScheduler
  BY <1>3 DEF StopScheduler
<1>4. CASE CloseTasks
  BY <1>4 DEF CloseTasks
<1>5. CASE PoolStopped
  BY <1>5 DEF PoolStopped
<1>6. CASE handleResult
  BY <1>6 DEF handleResult
<1>7. CASE ProcessorExits
  BY <1>7 DEF ProcessorExits
<1>8. ASSUME NEW g \in Lives, SchedulerSelect(g) PROVE TasksHeld'
  BY <1>8 DEF SchedulerSelect
<1>9. ASSUME NEW g \in Lives, SchedulerTick(g) PROVE TasksHeld'
  BY <1>9 DEF SchedulerTick
<1>10. ASSUME NEW g \in Lives, processScheduledChecks(g) PROVE TasksHeld'
  BY <1>10 DEF processScheduledChecks
<1>11. ASSUME NEW g \in Lives, SchedulerExits(g) PROVE TasksHeld'
  BY <1>11 DEF SchedulerExits
<1>12. ASSUME NEW g \in Lives, BackgroundTick(g) PROVE TasksHeld'
  BY <1>12 DEF BackgroundTick
<1>13. ASSUME NEW g \in Lives, performBackgroundCheck(g) PROVE TasksHeld'
  <2>1. taskQueue' = taskQueue \/ (Len(taskQueue) < TaskChanSize /\ \E t \in Tasks : taskQueue' = Append(taskQueue, t))
    BY <1>13 DEF performBackgroundCheck
  <2>2. taskQueue' \in Seq(Tasks) /\ Len(taskQueue') <= TaskChanSize
    <3>1. CASE taskQueue' = taskQueue
      BY <3>1
    <3>2. ASSUME NEW t \in Tasks, Len(taskQueue) < TaskChanSize, taskQueue' = Append(taskQueue, t)
          PROVE  taskQueue' \in Seq(Tasks) /\ Len(taskQueue') <= TaskChanSize
      <4>1. Append(taskQueue, t) \in Seq(Tasks) /\ Len(Append(taskQueue, t)) = Len(taskQueue) + 1
        BY TaskAppended
      <4> QED
        BY <3>2, <4>1
    <3> QED
      BY <2>1, <3>1, <3>2
  <2> QED
    BY <1>13, <2>2 DEF performBackgroundCheck
<1>14. ASSUME NEW g \in Lives, BackgroundExits(g) PROVE TasksHeld'
  BY <1>14 DEF BackgroundExits
<1>15. ASSUME NEW w \in IntegrityWorkers, TakeTask(w) PROVE TasksHeld'
  <2>1. taskQueue # <<>> /\ taskQueue' = Tail(taskQueue) /\ itask' = [itask EXCEPT ![w] = {Head(taskQueue)}]
    BY <1>15 DEF TakeTask
  <2>2. taskQueue' \in Seq(Tasks) /\ Len(taskQueue') <= TaskChanSize /\ Head(taskQueue) \in Tasks
    BY <2>1
  <2>3. itask' \in [IntegrityWorkers -> SUBSET Tasks] /\ itask'[w] = {Head(taskQueue)}
        /\ \A v \in IntegrityWorkers \ {w} : itask'[v] = itask[v]
    BY <2>1, <2>2
  <2> QED
    BY <1>15, <2>2, <2>3 DEF TakeTask
<1>16. ASSUME NEW w \in IntegrityWorkers, WorkerExits(w) PROVE TasksHeld'
  BY <1>16 DEF WorkerExits
<1>17. ASSUME NEW w \in IntegrityWorkers, SendResult(w) PROVE TasksHeld'
  <2>1. PICK t \in Tasks : t \in itask[w]
    BY <1>17 DEF SendResult
  <2>2. (CHOOSE u \in Tasks : u \in itask[w]) \in Tasks
    BY <2>1
  <2>3. results' \in Seq(Tasks) /\ Len(results') <= TaskChanSize
    BY <1>17, <2>2 DEF SendResult
  <2> QED
    BY <1>17, <2>3 DEF SendResult
<1>18. ASSUME NEW w \in IntegrityWorkers, DropResult(w) PROVE TasksHeld'
  BY <1>18 DEF DropResult
<1> QED
  BY <1>1, <1>2, <1>3, <1>4, <1>5, <1>6, <1>7, <1>8, <1>9, <1>10, <1>11,
     <1>12, <1>13, <1>14, <1>15, <1>16, <1>17, <1>18
     DEF IntegrityNext, StopStep, LoopStep, PoolStep

\* Nothing is closed or set to nil before the context is cancelled.
LEMMA CancelledFirstKept ==
    ASSUME TasksHeld, CancelledFirst, IntegrityNext
    PROVE  CancelledFirst'
<1> USE IntegrityAssumption DEF TasksHeld, IntegrityTypeOK, CancelledFirst, Lives, loopVars, poolVars
<1>1. CASE IntegrityStart
  BY <1>1 DEF IntegrityStart
<1>2. CASE StopBegins
  BY <1>2 DEF StopBegins
<1>3. CASE StopScheduler
  BY <1>3 DEF StopScheduler
<1>4. CASE CloseTasks
  BY <1>4 DEF CloseTasks
<1>5. CASE PoolStopped
  BY <1>5 DEF PoolStopped
<1>6. CASE handleResult
  BY <1>6 DEF handleResult
<1>7. CASE ProcessorExits
  BY <1>7 DEF ProcessorExits
<1>8. ASSUME NEW g \in Lives, SchedulerSelect(g) PROVE CancelledFirst'
  BY <1>8 DEF SchedulerSelect
<1>9. ASSUME NEW g \in Lives, SchedulerTick(g) PROVE CancelledFirst'
  BY <1>9 DEF SchedulerTick
<1>10. ASSUME NEW g \in Lives, processScheduledChecks(g) PROVE CancelledFirst'
  BY <1>10 DEF processScheduledChecks
<1>11. ASSUME NEW g \in Lives, SchedulerExits(g) PROVE CancelledFirst'
  BY <1>11 DEF SchedulerExits
<1>12. ASSUME NEW g \in Lives, BackgroundTick(g) PROVE CancelledFirst'
  BY <1>12 DEF BackgroundTick
<1>13. ASSUME NEW g \in Lives, performBackgroundCheck(g) PROVE CancelledFirst'
  BY <1>13 DEF performBackgroundCheck
<1>14. ASSUME NEW g \in Lives, BackgroundExits(g) PROVE CancelledFirst'
  BY <1>14 DEF BackgroundExits
<1>15. ASSUME NEW w \in IntegrityWorkers, TakeTask(w) PROVE CancelledFirst'
  BY <1>15 DEF TakeTask
<1>16. ASSUME NEW w \in IntegrityWorkers, WorkerExits(w) PROVE CancelledFirst'
  BY <1>16 DEF WorkerExits
<1>17. ASSUME NEW w \in IntegrityWorkers, SendResult(w) PROVE CancelledFirst'
  BY <1>17 DEF SendResult
<1>18. ASSUME NEW w \in IntegrityWorkers, DropResult(w) PROVE CancelledFirst'
  BY <1>18 DEF DropResult
<1> QED
  BY <1>1, <1>2, <1>3, <1>4, <1>5, <1>6, <1>7, <1>8, <1>9, <1>10, <1>11,
     <1>12, <1>13, <1>14, <1>15, <1>16, <1>17, <1>18
     DEF IntegrityNext, StopStep, LoopStep, PoolStep

\* The order in which Stop closes the channels is kept by every step.
LEMMA ClosedInOrderKept ==
    ASSUME TasksHeld, ClosedInOrder, IntegrityNext
    PROVE  ClosedInOrder'
<1> USE IntegrityAssumption DEF TasksHeld, IntegrityTypeOK, ClosedInOrder, Lives, loopVars, poolVars
<1>1. CASE IntegrityStart
  BY <1>1 DEF IntegrityStart
<1>2. CASE StopBegins
  BY <1>2 DEF StopBegins
<1>3. CASE StopScheduler
  BY <1>3 DEF StopScheduler
<1>4. CASE CloseTasks
  BY <1>4 DEF CloseTasks
<1>5. CASE PoolStopped
  BY <1>5 DEF PoolStopped
<1>6. CASE handleResult
  BY <1>6 DEF handleResult
<1>7. CASE ProcessorExits
  BY <1>7 DEF ProcessorExits
<1>8. ASSUME NEW g \in Lives, SchedulerSelect(g) PROVE ClosedInOrder'
  BY <1>8 DEF SchedulerSelect
<1>9. ASSUME NEW g \in Lives, SchedulerTick(g) PROVE ClosedInOrder'
  BY <1>9 DEF SchedulerTick
<1>10. ASSUME NEW g \in Lives, processScheduledChecks(g) PROVE ClosedInOrder'
  BY <1>10 DEF processScheduledChecks
<1>11. ASSUME NEW g \in Lives, SchedulerExits(g) PROVE ClosedInOrder'
  BY <1>11 DEF SchedulerExits
<1>12. ASSUME NEW g \in Lives, BackgroundTick(g) PROVE ClosedInOrder'
  BY <1>12 DEF BackgroundTick
<1>13. ASSUME NEW g \in Lives, performBackgroundCheck(g) PROVE ClosedInOrder'
  BY <1>13 DEF performBackgroundCheck
<1>14. ASSUME NEW g \in Lives, BackgroundExits(g) PROVE ClosedInOrder'
  BY <1>14 DEF BackgroundExits
<1>15. ASSUME NEW w \in IntegrityWorkers, TakeTask(w) PROVE ClosedInOrder'
  BY <1>15 DEF TakeTask
<1>16. ASSUME NEW w \in IntegrityWorkers, WorkerExits(w) PROVE ClosedInOrder'
  BY <1>16 DEF WorkerExits
<1>17. ASSUME NEW w \in IntegrityWorkers, SendResult(w) PROVE ClosedInOrder'
  BY <1>17 DEF SendResult
<1>18. ASSUME NEW w \in IntegrityWorkers, DropResult(w) PROVE ClosedInOrder'
  BY <1>18 DEF DropResult
<1> QED
  BY <1>1, <1>2, <1>3, <1>4, <1>5, <1>6, <1>7, <1>8, <1>9, <1>10, <1>11,
     <1>12, <1>13, <1>14, <1>15, <1>16, <1>17, <1>18
     DEF IntegrityNext, StopStep, LoopStep, PoolStep

-----------------------------------------------------------------------------
LEMMA IntegrityInductive ==
    ASSUME TasksHeld, CancelledFirst, ClosedInOrder, [IntegrityNext]_integrityVars
    PROVE  TasksHeld' /\ CancelledFirst' /\ ClosedInOrder'
<1>1. ASSUME UNCHANGED integrityVars
      PROVE  TasksHeld' /\ CancelledFirst' /\ ClosedInOrder'
  BY <1>1 DEF integrityVars, loopVars, poolVars, TasksHeld, IntegrityTypeOK, CancelledFirst, ClosedInOrder
<1> QED
  BY <1>1, TasksHeldKept, CancelledFirstKept, ClosedInOrderKept

LEMMA IntegrityInvariant == IntegritySpec => [](TasksHeld /\ CancelledFirst /\ ClosedInOrder)
<1>1. TasksHeld /\ CancelledFirst /\ ClosedInOrder /\ [IntegrityNext]_integrityVars
        => (TasksHeld /\ CancelledFirst /\ ClosedInOrder)'
  BY IntegrityInductive
<1> QED
  BY <1>1, IntegrityInitial, PTL DEF IntegritySpec

\* Channels hold tasks within their capacity and every goroutine is at one of
\* its steps, in every life.
THEOREM IntegrityTypeCorrect == IntegritySpec => []IntegrityTypeOK
BY IntegrityInvariant, PTL DEF TasksHeld

\* In the first life neither the pool nor Stop panics, and no life panics before
\* its context is cancelled (worker_pool.go Stop, integrity.go Stop).
THEOREM CrashesExplained == IntegritySpec => []CrashHasCause
<1>1. CancelledFirst /\ ClosedInOrder => CrashHasCause
  BY DEF CancelledFirst, ClosedInOrder, CrashHasCause
<1> QED
  BY <1>1, IntegrityInvariant, PTL

-----------------------------------------------------------------------------
(* The run: a behaviour steps one of the three, and the others rest *)

ProgressInv == PubInv /\ HubInv /\ TasksHeld /\ CancelledFirst /\ ClosedInOrder

LEMMA ProgressStep ==
    ASSUME ProgressInv, [ProgressNext]_progressVars
    PROVE  ProgressInv'
<1>1. [PubNext]_pubVars
  <2>1. Load => PubNext
    BY DEF Load, PubNext
  <2> QED
    BY <2>1 DEF ProgressNext, progressVars
<1>2. [HubNext]_hubVars
  BY DEF ProgressNext, progressVars
<1>3. [IntegrityNext]_integrityVars
  BY DEF ProgressNext, progressVars
<1>4. PubInv'
  BY <1>1, PubStep DEF ProgressInv
<1>5. HubInv'
  BY <1>2, HubInductive DEF ProgressInv
<1>6. TasksHeld' /\ CancelledFirst' /\ ClosedInOrder'
  BY <1>3, IntegrityInductive DEF ProgressInv
<1> QED
  BY <1>4, <1>5, <1>6 DEF ProgressInv

LEMMA ProgressInvariant == ProgressSpec => []ProgressInv
<1>1. ProgressInit => ProgressInv
  BY PubInitial, HubInitial, IntegrityInitial DEF ProgressInit, ProgressInv
<1>2. ProgressInv /\ [ProgressNext]_progressVars => ProgressInv'
  BY ProgressStep
<1> QED
  BY <1>1, <1>2, PTL DEF ProgressSpec

\* Publisher, hub and integrity service run side by side keep every queue,
\* batch, buffer and channel within its capacity and every goroutine at a step
\* it has, whatever the capacities are.
THEOREM ProgressTypesCorrect == ProgressSpec => []TypesOK
<1>1. ProgressInv => TypesOK
  BY DEF ProgressInv, PubInv, HubInv, TasksHeld, TypesOK
<1> QED
  BY <1>1, ProgressInvariant, PTL

\* In the run's own specification an accepted event is in one place until it is
\* handled, the hubs never touch a closed channel, and a crash of the integrity
\* service has its cause.
THEOREM ProgressSafe == ProgressSpec => [](AcceptedOnce /\ HubDoesNotPanic /\ CrashHasCause)
<1>1. PubInv => AcceptedOnce
  BY PlacesCounted
<1>2. HubInv => HubDoesNotPanic
  BY DEF HubInv, OpenInMap
<1>3. CancelledFirst /\ ClosedInOrder => CrashHasCause
  BY DEF CancelledFirst, ClosedInOrder, CrashHasCause
<1>4. ProgressInv => PubInv /\ HubInv /\ CancelledFirst /\ ClosedInOrder
  BY DEF ProgressInv
<1> QED
  BY <1>1, <1>2, <1>3, <1>4, ProgressInvariant, PTL
=============================================================================
