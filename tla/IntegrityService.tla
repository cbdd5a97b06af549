-------------------------- MODULE IntegrityService --------------------------
(***************************************************************************)
(* The audit integrity service (internal/service/audit): its worker pool,  *)
(* its scheduler and the background loop that queues hash-chain checks,    *)
(* through Start and Stop.  Start and Stop hold the service's mutex; the   *)
(* scheduler's loop and the background loop are not waited for by Stop.    *)
(*                                                                         *)
(* What a check reads and reports is left out: verification changes no     *)
(* state of the service.  A panic (a send on or a close of a closed        *)
(* channel, a nil ticker) ends the process.                                *)
(***************************************************************************)
EXTENDS Naturals, Sequences

CONSTANTS
    Tasks,               \* hash-chain checks (bounds how many are queued)
    IntegrityWorkers,
    TaskChanSize,        \* of taskChan and resultChan
    MaxStarts            \* bound: calls of Start that take effect

ASSUME IntegrityAssumption == TaskChanSize \in Nat \ {0} /\ MaxStarts \in Nat

Lives == 1 .. MaxStarts

VARIABLES
    isRunning,   \* flag of the service
    starts,      \* lives so far: the loops of each Start are told apart
    bgDone,      \* backgroundCtx is cancelled; there is never a new one
    stopping,    \* where Stop is; the mutex is held unless it is "no"
    ticker,      \* the scheduler's ticker is not nil
    spc,         \* scheduler loop of each life: "off", "select", "wait", "tick"
    bpc,         \* background loop of each life: "off", "select", "send"
    taskChan, resultChan,   \* "open" or "closed"
    taskQueue, results,     \* what the two channels hold
    ipc, itask,  \* "off", "idle" or "result" of each worker, and its task
    processor,   \* the result processor runs
    settled,     \* tasks whose result was handled, or lost at a shutdown
    crashed      \* goroutine whose panic ended the process, or "none"

loopVars == <<spc, bpc>>
poolVars == <<taskChan, resultChan, taskQueue, results, ipc, itask, processor, settled>>
integrityVars == <<isRunning, starts, bgDone, stopping, ticker, loopVars, poolVars, crashed>>

IntegrityInit ==
    /\ isRunning = FALSE /\ starts = 0 /\ bgDone = FALSE
    /\ stopping = "no" /\ ticker = FALSE
    /\ spc = [g \in Lives |-> "off"]
    /\ bpc = [g \in Lives |-> "off"]
    /\ taskChan = "open" /\ resultChan = "open"
    /\ taskQueue = <<>> /\ results = <<>>
    /\ ipc = [w \in IntegrityWorkers |-> "off"]
    /\ itask = [w \in IntegrityWorkers |-> {}]
    /\ processor = FALSE
    /\ settled = {}
    /\ crashed = "none"
-----------------------------------------------------------------------------
(* Start and Stop                                                           *)

\* A service that was stopped may be started again: the context stays
\* cancelled and the channels stay closed.
IntegrityStart ==
    /\ stopping = "no" /\ ~isRunning /\ starts < MaxStarts
    /\ isRunning' = TRUE
    /\ starts' = starts + 1
    /\ ipc' = [w \in IntegrityWorkers |-> "idle"]
    /\ processor' = TRUE
    /\ ticker' = TRUE
    /\ spc' = [spc EXCEPT ![starts + 1] = "select"]
    /\ bpc' = [bpc EXCEPT ![starts + 1] = "select"]
    /\ UNCHANGED <<bgDone, stopping, taskChan, resultChan, taskQueue, results, itask, settled, crashed>>

StopBegins ==
    /\ stopping = "no" /\ isRunning
    /\ bgDone' = TRUE
    /\ stopping' = "scheduler"
    /\ UNCHANGED <<isRunning, starts, ticker, loopVars, poolVars, crashed>>

StopScheduler ==
    /\ stopping = "scheduler"
    /\ ticker' = FALSE
    /\ stopping' = "pool"
    /\ UNCHANGED <<isRunning, starts, bgDone, loopVars, poolVars, crashed>>

CloseTasks ==
    /\ stopping = "pool"
    /\ taskChan' = "closed"
    /\ crashed' = IF taskChan = "closed" THEN "Stop" ELSE crashed
    /\ stopping' = "wait"
    /\ UNCHANGED <<isRunning, starts, bgDone, ticker, loopVars, resultChan, taskQueue, results, ipc, itask, processor, settled>>

\* Mutant: Stop does not wait for the pool.
PoolStopped_NoWait ==
    /\ stopping = "wait"
    /\ resultChan' = "closed"
    /\ isRunning' = FALSE
    /\ stopping' = "no"
    /\ UNCHANGED <<starts, bgDone, ticker, loopVars, taskChan, taskQueue, results, ipc, itask, processor, settled, crashed>>

\* wg.Wait returns: every worker and the result processor have returned.
PoolStopped ==
    /\ stopping = "wait"
    /\ ~processor /\ \A w \in IntegrityWorkers : ipc[w] = "off"
    /\ resultChan' = "closed"
    /\ isRunning' = FALSE
    /\ stopping' = "no"
    /\ UNCHANGED <<starts, bgDone, ticker, loopVars, taskChan, taskQueue, results, ipc, itask, processor, settled, crashed>>
-----------------------------------------------------------------------------
(* The scheduler and the background loop                                    *)

\* run: the select statement first evaluates s.ticker.C.
SchedulerSelect(g) ==
    /\ spc[g] = "select"
    /\ IF ticker
       THEN spc' = [spc EXCEPT ![g] = "wait"] /\ UNCHANGED crashed
       ELSE crashed' = "scheduler" /\ UNCHANGED spc
    /\ UNCHANGED <<isRunning, starts, bgDone, stopping, ticker, bpc, poolVars>>

SchedulerTick(g) ==
    /\ spc[g] = "wait"
    /\ spc' = [spc EXCEPT ![g] = "tick"]
    /\ UNCHANGED <<isRunning, starts, bgDone, stopping, ticker, bpc, poolVars, crashed>>

\* processScheduledChecks starts the checks that are due, under the
\* scheduler's mutex, and the loop comes round.
processScheduledChecks(g) ==
    /\ spc[g] = "tick"
    /\ spc' = [spc EXCEPT ![g] = "select"]
    /\ UNCHANGED <<isRunning, starts, bgDone, stopping, ticker, bpc, poolVars, crashed>>

SchedulerExits(g) ==
    /\ spc[g] = "wait" /\ bgDone
    /\ spc' = [spc EXCEPT ![g] = "off"]
    /\ UNCHANGED <<isRunning, starts, bgDone, stopping, ticker, bpc, poolVars, crashed>>

\* The background ticker fires and the latest sequence number is read: there
\* are enough new events for a check.
BackgroundTick(g) ==
    /\ bpc[g] = "select"
    /\ bpc' = [bpc EXCEPT ![g] = "send"]
    /\ UNCHANGED <<isRunning, starts, bgDone, stopping, ticker, spc, poolVars, crashed>>

Unused == {t \in Tasks :
    /\ t \notin settled
    /\ \A i \in DOMAIN taskQueue : taskQueue[i] # t
    /\ \A i \in DOMAIN results : results[i] # t
    /\ \A w \in IntegrityWorkers : t \notin itask[w]}

\* The task is offered to taskChan; a full channel skips the check.
performBackgroundCheck(g) ==
    /\ bpc[g] = "send"
    /\ bpc' = [bpc EXCEPT ![g] = "select"]
    /\ crashed' = IF taskChan = "closed" THEN "background" ELSE crashed
    /\ \/ /\ taskChan = "open" /\ Len(taskQueue) < TaskChanSize
          /\ \E t \in Unused : taskQueue' = Append(taskQueue, t)
       \/ /\ taskChan = "closed" \/ Len(taskQueue) = TaskChanSize \/ Unused = {}
          /\ UNCHANGED taskQueue
    /\ UNCHANGED <<isRunning, starts, bgDone, stopping, ticker, spc, taskChan, resultChan, results, ipc, itask, processor, settled>>

BackgroundExits(g) ==
    /\ bpc[g] = "select" /\ bgDone
    /\ bpc' = [bpc EXCEPT ![g] = "off"]
    /\ UNCHANGED <<isRunning, starts, bgDone, stopping, ticker, spc, poolVars, crashed>>
-----------------------------------------------------------------------------
(* The worker pool                                                          *)

\* A task is received, also from a channel closed since, and processed.
TakeTask(w) ==
    /\ ipc[w] = "idle" /\ taskQueue # <<>>
    /\ itask' = [itask EXCEPT ![w] = {Head(taskQueue)}]
    /\ taskQueue' = Tail(taskQueue)
    /\ ipc' = [ipc EXCEPT ![w] = "result"]
    /\ UNCHANGED <<isRunning, starts, bgDone, stopping, ticker, loopVars, taskChan, resultChan, results, processor, settled, crashed>>

WorkerExits(w) ==
    /\ ipc[w] = "idle"
    /\ bgDone \/ (taskChan = "closed" /\ taskQueue = <<>>)
    /\ ipc' = [ipc EXCEPT ![w] = "off"]
    /\ UNCHANGED <<isRunning, starts, bgDone, stopping, ticker, loopVars, taskChan, resultChan, taskQueue, results, itask, processor, settled, crashed>>

SendResult(w) ==
    /\ ipc[w] = "result"
    /\ resultChan = "closed" \/ Len(results) < TaskChanSize
    /\ crashed' = IF resultChan = "closed" THEN "worker" ELSE crashed
    /\ results' = IF resultChan = "closed" THEN results ELSE results \o <<CHOOSE t \in Tasks : t \in itask[w]>>
    /\ itask' = [itask EXCEPT ![w] = {}]
    /\ ipc' = [ipc EXCEPT ![w] = "idle"]
    /\ UNCHANGED <<isRunning, starts, bgDone, stopping, ticker, loopVars, taskChan, resultChan, taskQueue, processor, settled>>

\* Mutant: the worker waits for room before it looks at the context.
DropResult_AfterRoom(w) ==
    /\ ipc[w] = "result" /\ bgDone /\ Len(results) < TaskChanSize
    /\ settled' = settled \union itask[w]
    /\ itask' = [itask EXCEPT ![w] = {}]
    /\ ipc' = [ipc EXCEPT ![w] = "off"]
    /\ UNCHANGED <<isRunning, starts, bgDone, stopping, ticker, loopVars, taskChan, resultChan, taskQueue, results, processor, crashed>>

\* The context is done before the result is taken: the worker returns.
DropResult(w) ==
    /\ ipc[w] = "result" /\ bgDone
    /\ settled' = settled \union itask[w]
    /\ itask' = [itask EXCEPT ![w] = {}]
    /\ ipc' = [ipc EXCEPT ![w] = "off"]
    /\ UNCHANGED <<isRunning, starts, bgDone, stopping, ticker, loopVars, taskChan, resultChan, taskQueue, results, processor, crashed>>

handleResult ==
    /\ processor /\ results # <<>>
    /\ settled' = settled \union {Head(results)}
    /\ results' = Tail(results)
    /\ UNCHANGED <<isRunning, starts, bgDone, stopping, ticker, loopVars, taskChan, resultChan, taskQueue, ipc, itask, processor, crashed>>

ProcessorExits ==
    /\ processor /\ bgDone
    /\ processor' = FALSE
    /\ UNCHANGED <<isRunning, starts, bgDone, stopping, ticker, loopVars, taskChan, resultChan, taskQueue, results, ipc, itask, settled, crashed>>
-----------------------------------------------------------------------------
StopStep == StopScheduler \/ CloseTasks \/ PoolStopped

PoolStep(w) == TakeTask(w) \/ WorkerExits(w) \/ SendResult(w) \/ DropResult(w)

LoopStep(g) ==
    \/ SchedulerSelect(g) \/ SchedulerTick(g) \/ processScheduledChecks(g) \/ SchedulerExits(g)
    \/ BackgroundTick(g) \/ performBackgroundCheck(g) \/ BackgroundExits(g)

IntegrityNext ==
    /\ crashed = "none"
    /\ \/ IntegrityStart \/ StopBegins \/ StopStep
       \/ \E g \in Lives : LoopStep(g)
       \/ \E w \in IntegrityWorkers : PoolStep(w)
       \/ handleResult \/ ProcessorExits

\* Stop goes on, workers and the result processor are scheduled; nothing is
\* assumed of the tickers.
IntegrityFairness ==
    /\ WF_integrityVars(crashed = "none" /\ StopStep)
    /\ \A w \in IntegrityWorkers : WF_integrityVars(crashed = "none" /\ PoolStep(w))
    /\ WF_integrityVars(crashed = "none" /\ (handleResult \/ ProcessorExits))

IntegritySpec == IntegrityInit /\ [][IntegrityNext]_integrityVars /\ IntegrityFairness
-----------------------------------------------------------------------------
IntegrityTypeOK ==
    /\ isRunning \in BOOLEAN /\ starts \in 0 .. MaxStarts /\ bgDone \in BOOLEAN
    /\ stopping \in {"no", "scheduler", "pool", "wait"} /\ ticker \in BOOLEAN
    /\ spc \in [Lives -> {"off", "select", "wait", "tick"}]
    /\ bpc \in [Lives -> {"off", "select", "send"}]
    /\ taskChan \in {"open", "closed"} /\ resultChan \in {"open", "closed"}
    /\ taskQueue \in Seq(Tasks) /\ Len(taskQueue) <= TaskChanSize
    /\ results \in Seq(Tasks) /\ Len(results) <= TaskChanSize
    /\ ipc \in [IntegrityWorkers -> {"off", "idle", "result"}]
    /\ itask \in [IntegrityWorkers -> SUBSET Tasks]
    /\ processor \in BOOLEAN /\ settled \subseteq Tasks
    /\ crashed \in {"none", "Stop", "scheduler", "background", "worker"}

\* The pool's channels are closed in an order its own goroutines survive: in
\* the first life of the service no worker sends on a closed channel and Stop
\* closes none twice.  What panics then is a loop Stop does not wait for, the
\* scheduler at its nil ticker or the background loop on the closed taskChan,
\* and only once Stop has cancelled the context; a second life may end in any
\* of the four.
CrashHasCause ==
    /\ crashed # "none" => bgDone
    /\ crashed \in {"worker", "Stop"} => starts > 1

\* Stop returns, or the process ends: a worker with a result nobody reads, a
\* full channel or tasks left in the queue do not keep it waiting.
StopCompletes ==
    stopping # "no" ~> (stopping = "no" \/ crashed # "none")
=============================================================================
