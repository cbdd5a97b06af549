--------------------------- MODULE AuditPublisher ---------------------------
(***************************************************************************)
(* The audit event publisher (internal/infrastructure/events): Publish     *)
(* admits an event through the backpressure controller into one of two     *)
(* bounded queues; workers and the batch processor compete for the queued  *)
(* events, ask the router which subscriptions match and hand each event    *)
(* to the transports of those subscriptions; Close cancels the workers.    *)
(*                                                                         *)
(* A handler is a worker or the batch processor: a worker is a handler     *)
(* whose batch is full with one event.  Of an event the router sees its    *)
(* key (type, severity, entity and user) and whether its timestamp is in   *)
(* the TimeRange of a subscription; the delivery statistics are left out.  *)
(***************************************************************************)
EXTENDS Integers, Sequences, FiniteSets

CONSTANTS
    PubEvents, CriticalEvents,      \* audit events; those of critical severity
    Subs, OverWs,                   \* subscriptions; WebSocket ones, the rest Kafka
    KeyOf,                          \* type, severity, entity and user of an event
    Filters,                        \* the keys that an index finds the subscription under
                                    \* and that its filters on them let pass
    InRange,                        \* the events in the subscription's TimeRange
    RegularWorkers, CriticalWorkers, Batcher,
    EventQueueSize, CriticalQueueSize, BatchSize, MaxQueueDepth,
    FailureThreshold, HalfOpenLimit

Handlers == RegularWorkers \union CriticalWorkers \union {Batcher}

ASSUME PublisherAssumption ==
    /\ CriticalEvents \subseteq PubEvents /\ OverWs \subseteq Subs /\ IsFiniteSet(Subs)
    /\ InRange \in [Subs -> SUBSET PubEvents]
    /\ RegularWorkers \intersect CriticalWorkers = {}
    /\ Batcher \notin RegularWorkers \union CriticalWorkers
    /\ {EventQueueSize, CriticalQueueSize, BatchSize, MaxQueueDepth, FailureThreshold, HalfOpenLimit} \subseteq Nat \ {0}

VARIABLES
    stage,          \* of each event: "new", "delay" and "admit" in Wait, "refused",
                    \* "queued", "taken" by a handler, "handled"
    holding,        \* events counted in currentDepth until their context is done
    circuit, failures,          \* of the backpressure controller
    eventQueue, criticalQueue,  \* the two channels
    hpc, hbatch,    \* where each handler is, and the events it took
    hnext,          \* how many of them it has routed
    hroute,         \* the cached route it found for the next (a set of at most one)
    hpairs,         \* <<event, subscription>> routed and not yet sent
    leaving,        \* the batch processor flushes for the last time
    listed, routed, \* subscriptions of the publisher, and of its router
    routeCache,     \* cached routes: <<key, set of subscriptions>>
    publisher,      \* "open", "cancelled", "closed"
    copies,         \* copies of an event put into a subscriber's stream
    handedOver,     \* history: <<event, subscription>> given to a transport
    early           \* history: subscriptions routed when Publish was called

admission == <<holding, circuit, failures>>
channels == <<eventQueue, criticalQueue>>
handlers == <<hpc, hbatch, hnext, hroute, hpairs, leaving>>
subscriptions == <<listed, routed, routeCache>>
pubVars == <<stage, admission, channels, handlers, subscriptions, publisher, copies, handedOver, early>>

\* Some subscriptions have been made.
PubInit ==
    /\ stage = [e \in PubEvents |-> "new"]
    /\ holding = {} /\ circuit = "closed" /\ failures = 0
    /\ eventQueue = <<>> /\ criticalQueue = <<>>
    /\ hpc = [h \in Handlers |-> "idle"]
    /\ hbatch = [h \in Handlers |-> <<>>]
    /\ hnext = [h \in Handlers |-> 0]
    /\ hroute = [h \in Handlers |-> {}]
    /\ hpairs = [h \in Handlers |-> {}]
    /\ leaving = FALSE
    /\ listed \in SUBSET Subs /\ routed = listed /\ routeCache = {}
    /\ publisher = "open"
    /\ copies = [e \in PubEvents |-> [s \in Subs |-> 0]]
    /\ handedOver = {}
    /\ early = [e \in PubEvents |-> {}]
-----------------------------------------------------------------------------
(* Publish and backpressure                                                 *)

currentDepth == Cardinality(holding)

ToStage(e, st) == stage' = [stage EXCEPT ![e] = st]

\* Wait: a closed circuit lets the caller on, a half-open one while fewer than
\* halfOpenLimit calls failed; at the depth limit the caller is delayed first.
Publish(e) ==
    /\ stage[e] = "new"
    /\ early' = [early EXCEPT ![e] = routed]
    /\ IF circuit = "open" \/ (circuit = "half-open" /\ failures >= HalfOpenLimit)
       THEN ToStage(e, "refused")
       ELSE ToStage(e, IF currentDepth >= MaxQueueDepth THEN "delay" ELSE "admit")
    /\ UNCHANGED <<admission, channels, handlers, subscriptions, publisher, copies, handedOver>>

\* canProceed more than resetTimeout after the last failure: the caller that
\* finds the circuit open half-opens it and goes on.
PublishAfterReset(e) ==
    /\ stage[e] = "new" /\ circuit = "open"
    /\ circuit' = "half-open" /\ failures' = 0
    /\ early' = [early EXCEPT ![e] = routed]
    /\ ToStage(e, IF currentDepth >= MaxQueueDepth THEN "delay" ELSE "admit")
    /\ UNCHANGED <<holding, channels, handlers, subscriptions, publisher, copies, handedOver>>

\* The delay is over: the depth is read again; at the limit the call fails
\* (recordFailure), which may open the circuit.
Recheck(e) ==
    /\ stage[e] = "delay"
    /\ IF currentDepth >= MaxQueueDepth
       THEN /\ failures' = failures + 1
            /\ circuit' = IF failures + 1 >= (IF circuit = "closed" THEN FailureThreshold ELSE HalfOpenLimit)
                          THEN "open" ELSE circuit
            /\ ToStage(e, "refused")
       ELSE ToStage(e, "admit") /\ UNCHANGED <<circuit, failures>>
    /\ UNCHANGED <<holding, channels, handlers, subscriptions, publisher, copies, handedOver, early>>

\* The caller's context is done before the delay is over.
WaitCancelled(e) ==
    /\ stage[e] = "delay"
    /\ ToStage(e, "refused")
    /\ UNCHANGED <<admission, channels, handlers, subscriptions, publisher, copies, handedOver, early>>

\* The depth is counted up and the event offered to its queue: a critical
\* event that finds its queue full falls back to the regular one; an event
\* that finds no room is dropped.
Enqueue(e) ==
    /\ stage[e] = "admit"
    /\ holding' = holding \union {e}
    /\ IF e \in CriticalEvents /\ Len(criticalQueue) < CriticalQueueSize
       THEN ToStage(e, "queued") /\ criticalQueue' = Append(criticalQueue, e) /\ UNCHANGED eventQueue
       ELSE IF Len(eventQueue) < EventQueueSize
       THEN ToStage(e, "queued") /\ eventQueue' = Append(eventQueue, e) /\ UNCHANGED criticalQueue
       ELSE ToStage(e, "refused") /\ UNCHANGED channels
    /\ UNCHANGED <<circuit, failures, handlers, subscriptions, publisher, copies, handedOver, early>>

\* The depth is counted up, but the select takes the context that is done.
EnqueueCancelled(e) ==
    /\ stage[e] = "admit"
    /\ holding' = holding \union {e}
    /\ ToStage(e, "refused")
    /\ UNCHANGED <<circuit, failures, channels, handlers, subscriptions, publisher, copies, handedOver, early>>

\* The caller's context is done: the depth it held is given back, whether or
\* not the event has left the queue.  Release has no caller.
ContextDone(e) ==
    /\ e \in holding
    /\ holding' = holding \ {e}
    /\ UNCHANGED <<stage, circuit, failures, channels, handlers, subscriptions, publisher, copies, handedOver, early>>
-----------------------------------------------------------------------------
(* Workers and the batch processor                                          *)

BatchLimit(h) == IF h = Batcher THEN BatchSize ELSE 1

\* A select that receives from the handler's queue; after Close a handler may
\* still take an event before it takes ctx.Done.
Take(h) ==
    /\ hpc[h] = "idle"
    /\ LET queue == IF h \in CriticalWorkers THEN criticalQueue ELSE eventQueue
       IN  /\ queue # <<>>
           /\ hbatch' = [hbatch EXCEPT ![h] = Append(@, Head(queue))]
           /\ ToStage(Head(queue), "taken")
           /\ IF h \in CriticalWorkers
              THEN criticalQueue' = Tail(queue) /\ UNCHANGED eventQueue
              ELSE eventQueue' = Tail(queue) /\ UNCHANGED criticalQueue
           /\ hpc' = [hpc EXCEPT ![h] = IF Len(hbatch[h]) + 1 >= BatchLimit(h) THEN "route" ELSE "idle"]
    /\ UNCHANGED <<admission, hnext, hroute, hpairs, leaving, subscriptions, publisher, copies, handedOver, early>>

\* Mutant: the timer leaves a batch that is not full.
FlushBatch_WhenFull ==
    /\ hpc[Batcher] = "idle" /\ Len(hbatch[Batcher]) = BatchSize
    /\ leaving' \in {FALSE, publisher # "open"}
    /\ hpc' = [hpc EXCEPT ![Batcher] = "route"]
    /\ UNCHANGED <<stage, admission, channels, hbatch, hnext, hroute, hpairs, subscriptions, publisher, copies, handedOver, early>>

\* The batch timer, or ctx.Done with a batch that is not empty.
FlushBatch ==
    /\ hpc[Batcher] = "idle" /\ hbatch[Batcher] # <<>>
    /\ leaving' \in {FALSE, publisher # "open"}
    /\ hpc' = [hpc EXCEPT ![Batcher] = "route"]
    /\ UNCHANGED <<stage, admission, channels, hbatch, hnext, hroute, hpairs, subscriptions, publisher, copies, handedOver, early>>

\* Mutant: the key leaves out all but the first field.
getCacheKey_OneField(e) == KeyOf[e][1]

\* The key of a route: the timestamp is not part of it.
getCacheKey(e) == KeyOf[e]

matchesAllFilters(s, e) == KeyOf[e] \in Filters[s] /\ e \in InRange[s]

Matching(e) == {s \in routed : matchesAllFilters(s, e)}

NextEvent(h) == hbatch[h][hnext[h] + 1]

\* Route first looks into the cache, before it takes the router's lock.
LookUp(h) ==
    /\ hpc[h] = "route"
    /\ hroute' = [hroute EXCEPT ![h] = {c[2] : c \in {x \in routeCache : x[1] = getCacheKey(NextEvent(h))}}]
    /\ hpc' = [hpc EXCEPT ![h] = "match"]
    /\ UNCHANGED <<stage, admission, channels, hbatch, hnext, hpairs, leaving, subscriptions, publisher, copies, handedOver, early>>

\* Under the read lock, which keeps Add and RemoveSubscription out: the cached
\* route less the subscriptions removed since, or else those that match, which
\* become the cached route of the key.
RouteEvent(h) ==
    /\ hpc[h] = "match"
    /\ LET e == NextEvent(h)
           route == IF hroute[h] = {} THEN Matching(e) ELSE (UNION hroute[h]) \intersect routed
       IN  /\ hpairs' = [hpairs EXCEPT ![h] = @ \union ({e} \X route)]
           /\ routeCache' = IF hroute[h] = {}
                            THEN {c \in routeCache : c[1] # getCacheKey(e)} \union {<<getCacheKey(e), route>>}
                            ELSE routeCache
    /\ hroute' = [hroute EXCEPT ![h] = {}]
    /\ hnext' = [hnext EXCEPT ![h] = @ + 1]
    /\ hpc' = [hpc EXCEPT ![h] = IF hnext[h] + 1 = Len(hbatch[h]) THEN "send" ELSE "route"]
    /\ UNCHANGED <<stage, admission, channels, hbatch, leaving, listed, routed, publisher, copies, handedOver, early>>

\* A cache entry expires, or is evicted.
RouteForgotten ==
    /\ \E c \in routeCache : routeCache' = routeCache \ {c}
    /\ UNCHANGED <<stage, admission, channels, handlers, listed, routed, publisher, copies, handedOver, early>>

PairsOver(h, ws) == {p \in hpairs[h] : (p[2] \in OverWs) = ws}

\* Send of one event, or SendBatch to Kafka, which pairs the i-th event with
\* the i-th subscriber: the pairs that get through.
SendPairs(got) ==
    copies' = [e \in PubEvents |-> [s \in Subs |->
                  IF <<e, s>> \in got THEN copies[e][s] + 1 ELSE copies[e][s]]]

\* SendBatch over WebSocket: one message, holding an event once for every
\* subscriber that wants it, goes to each subscriber of the batch.
SendToAll(pairs, got) ==
    copies' = [e \in PubEvents |-> [s \in Subs |->
                  IF s \in got THEN copies[e][s] + Cardinality({p \in pairs : p[1] = e}) ELSE copies[e][s]]]

SendDone(h, pairs) ==
    /\ hpairs' = [hpairs EXCEPT ![h] = @ \ pairs]
    /\ handedOver' = handedOver \union pairs
    /\ UNCHANGED <<stage, admission, channels, hpc, hbatch, hnext, hroute, leaving, subscriptions, publisher, early>>

\* Kafka takes the message or not; a failure is counted, never retried.
SendKafka(h) ==
    /\ hpc[h] = "send" /\ PairsOver(h, FALSE) # {}
    /\ \E got \in {PairsOver(h, FALSE), {}} : SendPairs(got)
    /\ SendDone(h, PairsOver(h, FALSE))

\* A WebSocket subscriber may have no connection, or a full send buffer.
SendWs(h) ==
    /\ hpc[h] = "send" /\ PairsOver(h, TRUE) # {}
    /\ IF h = Batcher
       THEN \E got \in SUBSET {p[2] : p \in PairsOver(h, TRUE)} : SendToAll(PairsOver(h, TRUE), got)
       ELSE \E got \in SUBSET PairsOver(h, TRUE) : SendPairs(got)
    /\ SendDone(h, PairsOver(h, TRUE))

\* Mutant: the batch is kept for the next round.
BatchDone_KeepsBatch(h) ==
    /\ hpc[h] = "send" /\ hpairs[h] = {}
    /\ stage' = [e \in PubEvents |-> IF \E i \in DOMAIN hbatch[h] : hbatch[h][i] = e THEN "handled" ELSE stage[e]]
    /\ hnext' = [hnext EXCEPT ![h] = 0]
    /\ hpc' = [hpc EXCEPT ![h] = IF h = Batcher /\ leaving THEN "exited" ELSE "idle"]
    /\ UNCHANGED <<admission, channels, hbatch, hroute, hpairs, leaving, subscriptions, publisher, copies, handedOver, early>>

\* Every transport has answered: a new batch is begun, or the flush was the last.
BatchDone(h) ==
    /\ hpc[h] = "send" /\ hpairs[h] = {}
    /\ stage' = [e \in PubEvents |-> IF \E i \in DOMAIN hbatch[h] : hbatch[h][i] = e THEN "handled" ELSE stage[e]]
    /\ hbatch' = [hbatch EXCEPT ![h] = <<>>]
    /\ hnext' = [hnext EXCEPT ![h] = 0]
    /\ hpc' = [hpc EXCEPT ![h] = IF h = Batcher /\ leaving THEN "exited" ELSE "idle"]
    /\ UNCHANGED <<admission, channels, hroute, hpairs, leaving, subscriptions, publisher, copies, handedOver, early>>
-----------------------------------------------------------------------------
(* Subscriptions and Close                                                  *)

Subscribe(s) ==
    /\ s \notin listed \union routed
    /\ \A e \in PubEvents : s \notin early[e]
    /\ listed' = listed \union {s}
    /\ UNCHANGED <<stage, admission, channels, handlers, routed, routeCache, publisher, copies, handedOver, early>>

AddSubscription(s) ==
    /\ s \in listed \ routed
    /\ routed' = routed \union {s}
    /\ routeCache' = {}
    /\ UNCHANGED <<stage, admission, channels, handlers, listed, publisher, copies, handedOver, early>>

\* Unsubscribe is told the id by its subscriber: Subscribe has returned.
Unsubscribe(s) ==
    /\ s \in listed \intersect routed
    /\ listed' = listed \ {s}
    /\ UNCHANGED <<stage, admission, channels, handlers, routed, routeCache, publisher, copies, handedOver, early>>

RemoveSubscription(s) ==
    /\ s \in routed \ listed
    /\ routed' = routed \ {s}
    /\ routeCache' = {}
    /\ UNCHANGED <<stage, admission, channels, handlers, listed, publisher, copies, handedOver, early>>

Cancel ==
    /\ publisher = "open"
    /\ publisher' = "cancelled"
    /\ UNCHANGED <<stage, admission, channels, handlers, subscriptions, copies, handedOver, early>>

\* Mutant: a handler waits until the queues are empty.
Exit_WhenDrained(h) ==
    /\ publisher # "open" /\ hpc[h] = "idle" /\ hbatch[h] = <<>>
    /\ eventQueue = <<>> /\ criticalQueue = <<>>
    /\ hpc' = [hpc EXCEPT ![h] = "exited"]
    /\ UNCHANGED <<stage, admission, channels, hbatch, hnext, hroute, hpairs, leaving, subscriptions, publisher, copies, handedOver, early>>

\* ctx.Done is taken by an idle handler; what is queued stays queued.
Exit(h) ==
    /\ publisher # "open" /\ hpc[h] = "idle" /\ hbatch[h] = <<>>
    /\ hpc' = [hpc EXCEPT ![h] = "exited"]
    /\ UNCHANGED <<stage, admission, channels, hbatch, hnext, hroute, hpairs, leaving, subscriptions, publisher, copies, handedOver, early>>

\* All handlers are gone, or shutdownTimeout has passed: transports are closed.
CloseTransports ==
    /\ publisher = "cancelled"
    /\ publisher' = "closed"
    /\ UNCHANGED <<stage, admission, channels, handlers, subscriptions, copies, handedOver, early>>
-----------------------------------------------------------------------------
HandlerStep(h) ==
    Take(h) \/ LookUp(h) \/ RouteEvent(h) \/ SendKafka(h) \/ SendWs(h) \/ BatchDone(h) \/ Exit(h)

PubNext ==
    \/ \E e \in PubEvents : Publish(e) \/ PublishAfterReset(e) \/ Recheck(e) \/ WaitCancelled(e)
                           \/ Enqueue(e) \/ EnqueueCancelled(e) \/ ContextDone(e)
    \/ \E h \in Handlers : HandlerStep(h)
    \/ FlushBatch \/ RouteForgotten
    \/ \E s \in Subs : Subscribe(s) \/ AddSubscription(s) \/ Unsubscribe(s) \/ RemoveSubscription(s)
    \/ Cancel \/ CloseTransports

\* Workers are scheduled, sends end by their timeout and the batch timer ticks.
PubFairness ==
    /\ \A h \in Handlers : WF_pubVars(HandlerStep(h))
    /\ WF_pubVars(FlushBatch)

PubSpec == PubInit /\ [][PubNext]_pubVars /\ PubFairness
-----------------------------------------------------------------------------
Stages == {"new", "delay", "admit", "refused", "queued", "taken", "handled"}

PubTypeOK ==
    /\ stage \in [PubEvents -> Stages]
    /\ holding \subseteq PubEvents
    /\ circuit \in {"closed", "open", "half-open"} /\ failures \in Nat
    /\ eventQueue \in Seq(PubEvents) /\ Len(eventQueue) <= EventQueueSize
    /\ criticalQueue \in Seq(PubEvents) /\ Len(criticalQueue) <= CriticalQueueSize
    /\ hpc \in [Handlers -> {"idle", "route", "match", "send", "exited"}]
    /\ hbatch \in [Handlers -> Seq(PubEvents)] /\ hnext \in [Handlers -> Nat]
    /\ \A h \in Handlers : Len(hbatch[h]) <= BatchLimit(h) /\ hnext[h] <= Len(hbatch[h])
    /\ hpairs \in [Handlers -> SUBSET (PubEvents \X Subs)]
    /\ leaving \in BOOLEAN
    /\ listed \subseteq Subs /\ routed \subseteq Subs
    /\ \A c \in routeCache : c[2] \subseteq Subs
    /\ hroute \in [Handlers -> SUBSET SUBSET Subs]
    /\ publisher \in {"open", "cancelled", "closed"}
    /\ copies \in [PubEvents -> [Subs -> Nat]]
    /\ handedOver \subseteq PubEvents \X Subs
    /\ early \in [PubEvents -> SUBSET Subs]

\* Where an accepted event can be.
Places(e) ==
    {i \in DOMAIN eventQueue : eventQueue[i] = e} \X {"regular"}
      \union {i \in DOMAIN criticalQueue : criticalQueue[i] = e} \X {"critical"}
      \union {p \in (1 .. BatchSize) \X Handlers : p[1] <= Len(hbatch[p[2]]) /\ hbatch[p[2]][p[1]] = e}

\* Workers and the batch processor share a queue and partition it: an accepted
\* event is in exactly one queue or handler until it is handled, through batch
\* flushes, fallbacks to the other queue and Close; no event is lost except in
\* a queue nobody reads any more, and none is handled twice.
AcceptedOnce ==
    \A e \in PubEvents :
        Cardinality(Places(e)) = IF stage[e] \in {"queued", "taken"} THEN 1 ELSE 0

\* Subscriptions with a TimeRange.
Timed == {s \in Subs : InRange[s] # PubEvents}

\* A handled event was handed over for every subscription without a TimeRange
\* that its type, severity, entity and user filters match, that was made before
\* the event was published and was not cancelled: neither the route cache, nor
\* its lookup outside the lock, hides such a subscription.  Over Kafka no event
\* arrives twice, and none that those filters do not match.  (A TimeRange is
\* another matter: the key has no timestamp, so a cached route may hide its
\* subscription or bring it events out of range.  And a WebSocket batch goes
\* whole to every subscriber it concerns.)
DeliveredAsSubscribed ==
    \A e \in PubEvents :
        /\ stage[e] = "handled" =>
              \A s \in (early[e] \intersect routed) \ Timed : KeyOf[e] \in Filters[s] => <<e, s>> \in handedOver
        /\ \A s \in Subs \ OverWs : copies[e][s] <= (IF KeyOf[e] \in Filters[s] THEN 1 ELSE 0)

\* The publisher catches up: accepted events are all handled in the end,
\* unless the publisher is closed meanwhile.
AcceptedIsHandled ==
    (\E e \in PubEvents : stage[e] \in {"queued", "taken"})
        ~> (publisher # "open" \/ \A e \in PubEvents : stage[e] \notin {"queued", "taken"})

\* Close gets every handler to its end: none waits for the queue or a batch.
HandlersExit ==
    publisher # "open" ~> \A h \in Handlers : hpc[h] = "exited"
=============================================================================
