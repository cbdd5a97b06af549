------------------------ MODULE AuditPublisherProofs ------------------------
(***************************************************************************)
(* Proofs about the audit event publisher, for any events, subscriptions   *)
(* and filters, any number of workers, and any capacity of the queues, of  *)
(* the batches and of the backpressure controller.                         *)
(***************************************************************************)
EXTENDS AuditPublisher, SequenceFacts

\* Where a handler is, it has taken, routed and left to send what it should.
HandlerInv ==
    \A h \in Handlers :
        /\ hpc[h] \in {"idle", "exited"} => hnext[h] = 0 /\ hpairs[h] = {}
        /\ hpc[h] = "idle" => Len(hbatch[h]) < BatchLimit(h)
        /\ hpc[h] = "exited" => hbatch[h] = <<>>
        /\ hpc[h] \in {"route", "match"} => hnext[h] < Len(hbatch[h])
        /\ hpc[h] = "send" => hnext[h] = Len(hbatch[h])

\* No channel and no batch holds an event twice, no two of them share one, and
\* they hold exactly the events of their stage.
ChannelsInv ==
    /\ IsInjective(eventQueue) /\ IsInjective(criticalQueue)
    /\ ToSet(eventQueue) \intersect ToSet(criticalQueue) = {}
    /\ ToSet(eventQueue) \union ToSet(criticalQueue) = {e \in PubEvents : stage[e] = "queued"}

BatchesInv ==
    /\ \A h \in Handlers : IsInjective(hbatch[h])
    /\ \A h, g \in Handlers : h # g => ToSet(hbatch[h]) \intersect ToSet(hbatch[g]) = {}
    /\ \A e \in PubEvents : stage[e] = "taken" <=> \E h \in Handlers : e \in ToSet(hbatch[h])

\* A cached route holds what the filters on its key let pass, and of that all
\* the subscriptions with no TimeRange; a subscription that is not yet with the
\* router was not there when any event was published.
RouterInv ==
    /\ \A c \in routeCache :
           /\ \A s \in c[2] : c[1] \in Filters[s]
           /\ \A s \in routed \ Timed : c[1] \in Filters[s] => s \in c[2]
    /\ \A e \in PubEvents : stage[e] = "new" => early[e] = {}
    /\ \A s \in listed \ routed, e \in PubEvents : s \notin early[e]

\* A route that can be used for an event, although subscriptions were added
\* and removed since it was found.
GoodRoute(route, e) ==
    /\ \A s \in route : KeyOf[e] \in Filters[s]
    /\ \A s \in (early[e] \intersect routed) \ Timed : KeyOf[e] \in Filters[s] => s \in route

\* What a handler found in the cache, before it had the lock, is still good.
LookUpInv ==
    \A h \in Handlers : \A route \in hroute[h] : hpc[h] = "match" /\ GoodRoute(route, NextEvent(h))

\* The events that handler h has routed.
Routed(h) == {hbatch[h][i] : i \in 1 .. hnext[h]}

\* A pair on its way is of a routed event, wanted, and not handed over before;
\* one that was handed over is of an event handled or routed by its handler.
PairsInv ==
    /\ \A h \in Handlers : \A p \in hpairs[h] :
           p[1] \in Routed(h) /\ KeyOf[p[1]] \in Filters[p[2]] /\ p \notin handedOver
    /\ \A p \in handedOver :
           /\ KeyOf[p[1]] \in Filters[p[2]]
           /\ stage[p[1]] = "handled" \/ \E h \in Handlers : p[1] \in Routed(h)

\* What is routed is on its way to, or has reached, all who were to have it.
CoverInv ==
    \A h \in Handlers : \A e \in Routed(h) : \A s \in (early[e] \intersect routed) \ Timed :
        KeyOf[e] \in Filters[s] => <<e, s>> \in handedOver \union hpairs[h]

\* Over Kafka, a copy arrives only of what was handed over, and only once.
KafkaInv ==
    \A e \in PubEvents, s \in Subs \ OverWs :
        copies[e][s] \in {0, 1} /\ (copies[e][s] = 1 => <<e, s>> \in handedOver)

\* DeliveredAsSubscribed, its part about the events that are handled.
HandledInv ==
    \A e \in PubEvents : stage[e] = "handled" =>
        \A s \in (early[e] \intersect routed) \ Timed : KeyOf[e] \in Filters[s] => <<e, s>> \in handedOver

PubInv ==
    /\ PubTypeOK /\ HandlerInv /\ ChannelsInv /\ BatchesInv
    /\ RouterInv /\ LookUpInv /\ PairsInv /\ CoverInv /\ KafkaInv /\ HandledInv

USE PublisherAssumption

-----------------------------------------------------------------------------
(* The parts of the state, and what a step that leaves them alone keeps *)

AdmissionType ==
    /\ stage \in [PubEvents -> Stages] /\ early \in [PubEvents -> SUBSET Subs]
    /\ holding \subseteq PubEvents
    /\ circuit \in {"closed", "open", "half-open"} /\ failures \in Nat
QueueType ==
    /\ eventQueue \in Seq(PubEvents) /\ Len(eventQueue) <= EventQueueSize
    /\ criticalQueue \in Seq(PubEvents) /\ Len(criticalQueue) <= CriticalQueueSize
HandlerType ==
    /\ hpc \in [Handlers -> {"idle", "route", "match", "send", "exited"}]
    /\ hbatch \in [Handlers -> Seq(PubEvents)] /\ hnext \in [Handlers -> Nat]
    /\ \A h \in Handlers : Len(hbatch[h]) <= BatchLimit(h) /\ hnext[h] <= Len(hbatch[h])
    /\ hroute \in [Handlers -> SUBSET SUBSET Subs]
    /\ hpairs \in [Handlers -> SUBSET (PubEvents \X Subs)]
    /\ leaving \in BOOLEAN
RouterType ==
    /\ listed \subseteq Subs /\ routed \subseteq Subs
    /\ \A c \in routeCache : c[2] \subseteq Subs
    /\ publisher \in {"open", "cancelled", "closed"}
DeliveryType == copies \in [PubEvents -> [Subs -> Nat]] /\ handedOver \subseteq PubEvents \X Subs

LEMMA PubTypeParts ==
  /\ PubTypeOK <=> AdmissionType /\ QueueType /\ HandlerType /\ RouterType /\ DeliveryType
  /\ PubTypeOK' <=> AdmissionType' /\ QueueType' /\ HandlerType' /\ RouterType' /\ DeliveryType'
  BY Zenon DEF PubTypeOK, AdmissionType, QueueType, HandlerType, RouterType, DeliveryType

LEMMA PubParts ==
  /\ PubInv <=> /\ AdmissionType /\ QueueType /\ HandlerType /\ RouterType /\ DeliveryType
                /\ HandlerInv /\ ChannelsInv /\ BatchesInv
                /\ RouterInv /\ LookUpInv /\ PairsInv /\ CoverInv /\ KafkaInv /\ HandledInv
  /\ PubInv' <=> /\ AdmissionType' /\ QueueType' /\ HandlerType' /\ RouterType' /\ DeliveryType'
                 /\ HandlerInv' /\ ChannelsInv' /\ BatchesInv'
                 /\ RouterInv' /\ LookUpInv' /\ PairsInv' /\ CoverInv' /\ KafkaInv' /\ HandledInv'
  BY PubTypeParts, Zenon DEF PubInv

LEMMA PubKeeps ==
  ASSUME PubInv
  PROVE  /\ UNCHANGED <<stage, early, admission>> => AdmissionType'
         /\ UNCHANGED channels => QueueType'
         /\ UNCHANGED handlers => HandlerType'
         /\ UNCHANGED <<subscriptions, publisher>> => RouterType'
         /\ UNCHANGED <<copies, handedOver>> => DeliveryType' /\ KafkaInv'
         /\ UNCHANGED <<hpc, hbatch, hnext, hpairs>> => HandlerInv'
         /\ UNCHANGED <<stage, channels>> => ChannelsInv'
         /\ UNCHANGED <<stage, hbatch>> => BatchesInv'
         /\ UNCHANGED <<subscriptions, stage, early>> => RouterInv'
         /\ UNCHANGED <<hbatch, hnext, hpairs, handedOver, stage>> => PairsInv'
         /\ UNCHANGED <<hbatch, hnext, hpairs, handedOver, early, routed>> => CoverInv'
         /\ UNCHANGED <<stage, early, routed, handedOver>> => HandledInv'
         /\ UNCHANGED <<hpc, hbatch, hnext, hroute, early, routed>> => LookUpInv'
<1>0. /\ AdmissionType /\ QueueType /\ HandlerType /\ RouterType /\ DeliveryType
      /\ HandlerInv /\ ChannelsInv /\ BatchesInv
      /\ RouterInv /\ LookUpInv /\ PairsInv /\ CoverInv /\ KafkaInv /\ HandledInv
  BY PubParts
<1>1. UNCHANGED <<stage, early, admission>> => AdmissionType'
  BY <1>0 DEF AdmissionType, admission
<1>2. UNCHANGED channels => QueueType'
  BY <1>0 DEF QueueType, channels
<1>3. UNCHANGED handlers => HandlerType'
  BY <1>0 DEF HandlerType, handlers
<1>4. UNCHANGED <<subscriptions, publisher>> => RouterType'
  BY <1>0 DEF RouterType, subscriptions
<1>5. UNCHANGED <<copies, handedOver>> => DeliveryType' /\ KafkaInv'
  BY <1>0 DEF DeliveryType, KafkaInv
<1>6. UNCHANGED <<hpc, hbatch, hnext, hpairs>> => HandlerInv'
  BY <1>0 DEF HandlerInv
<1>7. UNCHANGED <<stage, channels>> => ChannelsInv'
  BY <1>0 DEF ChannelsInv, channels
<1>8. UNCHANGED <<stage, hbatch>> => BatchesInv'
  BY <1>0 DEF BatchesInv
<1>9. UNCHANGED <<subscriptions, stage, early>> => RouterInv'
  BY <1>0 DEF RouterInv, subscriptions
<1>10. UNCHANGED <<hbatch, hnext, hpairs, handedOver, stage>> => PairsInv'
  BY <1>0 DEF PairsInv, Routed
<1>11. UNCHANGED <<hbatch, hnext, hpairs, handedOver, early, routed>> => CoverInv'
  BY <1>0 DEF CoverInv, Routed
<1>12. UNCHANGED <<stage, early, routed, handedOver>> => HandledInv'
  BY <1>0 DEF HandledInv
<1>13. UNCHANGED <<hpc, hbatch, hnext, hroute, early, routed>> => LookUpInv'
  BY <1>0 DEF LookUpInv, GoodRoute, NextEvent
<1> QED
  BY <1>1, <1>2, <1>3, <1>4, <1>5, <1>6, <1>7, <1>8, <1>9, <1>10, <1>11, <1>12, <1>13

\* The events that a handler has routed are among those it took.
LEMMA RoutedTaken ==
  ASSUME PubInv, NEW h \in Handlers
  PROVE  /\ Routed(h) \subseteq ToSet(hbatch[h])
         /\ \A e \in ToSet(hbatch[h]) : e \in PubEvents /\ stage[e] = "taken"
<1>1. hbatch[h] \in Seq(PubEvents) /\ hnext[h] \in Nat /\ hnext[h] <= Len(hbatch[h]) /\ Len(hbatch[h]) \in Nat
  BY PubParts DEF HandlerType
<1>2. \A i \in 1 .. Len(hbatch[h]) : hbatch[h][i] \in ToSet(hbatch[h])
  BY <1>1, SeqFacts
<1>3. \A i \in 1 .. hnext[h] : i \in 1 .. Len(hbatch[h])
  BY <1>1
<1>4. ToSet(hbatch[h]) \subseteq PubEvents
  BY <1>1, SeqFacts
<1>5. \A e \in PubEvents : (\E g \in Handlers : e \in ToSet(hbatch[g])) => stage[e] = "taken"
  BY PubParts DEF BatchesInv
<1> QED
  BY <1>2, <1>3, <1>4, <1>5 DEF Routed

\* The event that a handler routes next is one it took.
LEMMA NextTaken ==
  ASSUME PubInv, NEW h \in Handlers, hpc[h] \in {"route", "match"}
  PROVE  NextEvent(h) \in PubEvents /\ NextEvent(h) \in ToSet(hbatch[h]) /\ stage[NextEvent(h)] = "taken"
<1>1. hbatch[h] \in Seq(PubEvents) /\ hnext[h] \in Nat /\ Len(hbatch[h]) \in Nat
  BY PubParts DEF HandlerType
<1>2. hnext[h] < Len(hbatch[h])
  BY PubParts DEF HandlerInv
<1>3. hnext[h] + 1 \in 1 .. Len(hbatch[h])
  BY <1>1, <1>2
<1>4. \A i \in 1 .. Len(hbatch[h]) : hbatch[h][i] \in ToSet(hbatch[h])
  BY <1>1, SeqFacts
<1> QED
  BY <1>3, <1>4, RoutedTaken DEF NextEvent

\* An event that moves between the stages before the handlers have it concerns
\* none of the handlers.
LEMMA CallerMoves ==
  ASSUME PubInv, NEW e \in PubEvents, stage[e] \in {"new", "delay", "admit"},
         NEW st \in {"delay", "admit", "refused", "queued"}, stage' = [stage EXCEPT ![e] = st],
         \/ early' = early /\ stage[e] # "new"
         \/ early' = [early EXCEPT ![e] = routed] /\ stage[e] = "new",
         UNCHANGED <<handlers, subscriptions, publisher, copies, handedOver>>,
         QueueType', ChannelsInv', holding' \subseteq PubEvents,
         circuit' \in {"closed", "open", "half-open"}, failures' \in Nat
  PROVE  PubInv'
<1> USE DEF handlers, subscriptions
<1>0. /\ AdmissionType /\ RouterType /\ BatchesInv /\ RouterInv /\ LookUpInv /\ PairsInv /\ CoverInv /\ HandledInv
  BY PubParts
<1>1. stage \in [PubEvents -> Stages] /\ early \in [PubEvents -> SUBSET Subs] /\ routed \subseteq Subs
  BY <1>0 DEF AdmissionType, RouterType
<1>2. /\ stage'[e] = st /\ \A f \in PubEvents : f # e => stage'[f] = stage[f]
      /\ stage' \in [PubEvents -> Stages]
  BY <1>1 DEF Stages
<1>3. /\ early' \in [PubEvents -> SUBSET Subs] /\ early'[e] \in {early[e], routed}
      /\ \A f \in PubEvents : f # e => early'[f] = early[f]
  BY <1>1
<1>4. AdmissionType'
  BY <1>2, <1>3 DEF AdmissionType
<1>5. BatchesInv'
  <2>1. \A f \in PubEvents : stage'[f] = "taken" <=> stage[f] = "taken"
    BY <1>2
  <2> QED
    BY <1>0, <2>1 DEF BatchesInv
<1>6. RouterInv'
  BY <1>0, <1>2, <1>3 DEF RouterInv
<1>7. \A g \in Handlers : Routed(g)' = Routed(g) /\ \A f \in Routed(g) : f # e /\ f \in PubEvents
  BY RoutedTaken DEF Routed
<1>8. PairsInv'
  <2>1. \A p \in handedOver : stage[p[1]] = "handled" => stage'[p[1]] = "handled"
    <3>1. \A p \in handedOver : p[1] \in PubEvents
      BY PubParts DEF DeliveryType
    <3> QED
      BY <1>2, <3>1
  <2> QED
    BY <1>0, <1>7, <2>1 DEF PairsInv
<1>9. CoverInv'
  BY <1>0, <1>3, <1>7 DEF CoverInv
<1>10. HandledInv'
  BY <1>0, <1>2, <1>3 DEF HandledInv
<1>11. HandlerType' /\ RouterType' /\ DeliveryType' /\ KafkaInv' /\ HandlerInv'
  BY PubKeeps
<1>12. LookUpInv'
  <2> SUFFICES ASSUME NEW h \in Handlers, NEW route \in hroute[h]
               PROVE  hpc[h] = "match" /\ GoodRoute(route, NextEvent(h))'
    BY DEF LookUpInv
  <2>1. hpc[h] = "match" /\ GoodRoute(route, NextEvent(h))
    BY <1>0 DEF LookUpInv
  <2>2. NextEvent(h) \in PubEvents /\ NextEvent(h) # e /\ NextEvent(h)' = NextEvent(h)
    BY <2>1, NextTaken DEF NextEvent
  <2>3. early'[NextEvent(h)] = early[NextEvent(h)]
    BY <1>3, <2>2
  <2> QED
    BY <2>1, <2>2, <2>3 DEF GoodRoute
<1> QED
  BY <1>4, <1>5, <1>6, <1>8, <1>9, <1>10, <1>11, <1>12, PubParts

-----------------------------------------------------------------------------
(* Publish *)

LEMMA PublishKeeps ==
  ASSUME PubInv, NEW e \in PubEvents, Publish(e) \/ PublishAfterReset(e) \/ Recheck(e) \/ WaitCancelled(e)
  PROVE  PubInv'
<1> USE DEF admission, channels
<1>1. UNCHANGED <<channels, handlers, subscriptions, publisher, copies, handedOver>> /\ holding' = holding
  BY DEF Publish, PublishAfterReset, Recheck, WaitCancelled
<1>2. \E st \in {"delay", "admit", "refused", "queued"} : stage' = [stage EXCEPT ![e] = st]
  BY DEF Publish, PublishAfterReset, Recheck, WaitCancelled, ToStage
<1>3. /\ stage[e] \in {"new", "delay", "admit"}
      /\ \/ early' = early /\ stage[e] # "new"
         \/ early' = [early EXCEPT ![e] = routed] /\ stage[e] = "new"
  BY DEF Publish, PublishAfterReset, Recheck, WaitCancelled
<1>4. AdmissionType
  BY PubParts
<1>5. circuit' \in {"closed", "open", "half-open"} /\ failures' \in Nat
  BY <1>4 DEF Publish, PublishAfterReset, Recheck, WaitCancelled, AdmissionType
<1>6. holding' \subseteq PubEvents
  BY <1>1, <1>4 DEF AdmissionType
<1>7. QueueType'
  BY <1>1, PubKeeps
<1>8. ChannelsInv'
  <2>1. {f \in PubEvents : stage'[f] = "queued"} = {f \in PubEvents : stage[f] = "queued"}
    <3>1. stage'[e] # "queued" /\ \A f \in PubEvents : f # e => stage'[f] = stage[f]
      BY <1>4 DEF Publish, PublishAfterReset, Recheck, WaitCancelled, ToStage, AdmissionType
    <3> QED
      BY <1>3, <3>1
  <2> QED
    BY <1>1, <2>1, PubParts DEF ChannelsInv
<1> QED
  BY <1>1, <1>2, <1>3, <1>5, <1>6, <1>7, <1>8, CallerMoves

\* A queue with room for it gets an event that is nowhere yet.
LEMMA Enqueued ==
  ASSUME PubInv, NEW e \in PubEvents, stage[e] = "admit",
         stage' = [stage EXCEPT ![e] = "queued"],
         \/ /\ criticalQueue' = Append(criticalQueue, e) /\ eventQueue' = eventQueue
            /\ Len(criticalQueue) < CriticalQueueSize
         \/ /\ eventQueue' = Append(eventQueue, e) /\ criticalQueue' = criticalQueue
            /\ Len(eventQueue) < EventQueueSize
  PROVE  QueueType' /\ ChannelsInv'
<1>0. AdmissionType /\ QueueType /\ ChannelsInv
  BY PubParts
<1>1. eventQueue \in Seq(PubEvents) /\ criticalQueue \in Seq(PubEvents)
      /\ Len(eventQueue) \in Nat /\ Len(criticalQueue) \in Nat
  BY <1>0 DEF QueueType
<1>2. /\ IsInjective(eventQueue) /\ IsInjective(criticalQueue)
      /\ ToSet(eventQueue) \intersect ToSet(criticalQueue) = {}
      /\ ToSet(eventQueue) \union ToSet(criticalQueue) = {f \in PubEvents : stage[f] = "queued"}
  BY <1>0 DEF ChannelsInv
<1>3. e \notin ToSet(eventQueue) /\ e \notin ToSet(criticalQueue)
  BY <1>2
<1>4. {f \in PubEvents : stage'[f] = "queued"} = {f \in PubEvents : stage[f] = "queued"} \union {e}
  BY <1>0 DEF AdmissionType
<1>5. CASE criticalQueue' = Append(criticalQueue, e) /\ eventQueue' = eventQueue /\ Len(criticalQueue) < CriticalQueueSize
  <2>1. /\ criticalQueue' \in Seq(PubEvents) /\ IsInjective(criticalQueue')
        /\ ToSet(criticalQueue') = ToSet(criticalQueue) \union {e}
    BY <1>1, <1>2, <1>3, <1>5, AppendDistinct
  <2>2. Len(criticalQueue') = Len(criticalQueue) + 1
    BY <1>1, <1>5
  <2>3. QueueType'
    BY <1>0, <1>1, <1>5, <2>1, <2>2 DEF QueueType
  <2>4. ChannelsInv'
    BY <1>2, <1>3, <1>4, <1>5, <2>1 DEF ChannelsInv
  <2> QED
    BY <2>3, <2>4
<1>6. CASE eventQueue' = Append(eventQueue, e) /\ criticalQueue' = criticalQueue /\ Len(eventQueue) < EventQueueSize
  <2>1. /\ eventQueue' \in Seq(PubEvents) /\ IsInjective(eventQueue')
        /\ ToSet(eventQueue') = ToSet(eventQueue) \union {e}
    BY <1>1, <1>2, <1>3, <1>6, AppendDistinct
  <2>2. Len(eventQueue') = Len(eventQueue) + 1
    BY <1>1, <1>6
  <2>3. QueueType'
    BY <1>0, <1>1, <1>6, <2>1, <2>2 DEF QueueType
  <2>4. ChannelsInv'
    BY <1>2, <1>3, <1>4, <1>6, <2>1 DEF ChannelsInv
  <2> QED
    BY <2>3, <2>4
<1> QED
  BY <1>5, <1>6

LEMMA EnqueueKeeps ==
  ASSUME PubInv, NEW e \in PubEvents, Enqueue(e) \/ EnqueueCancelled(e)
  PROVE  PubInv'
<1> USE DEF admission, channels
<1>0. AdmissionType /\ ChannelsInv
  BY PubParts
<1>1. /\ UNCHANGED <<handlers, subscriptions, publisher, copies, handedOver, early, circuit, failures>>
      /\ stage[e] = "admit" /\ holding' = holding \union {e}
  BY DEF Enqueue, EnqueueCancelled
<1>2. circuit' \in {"closed", "open", "half-open"} /\ failures' \in Nat /\ holding' \subseteq PubEvents
  BY <1>0, <1>1 DEF AdmissionType
<1>3. CASE stage' = [stage EXCEPT ![e] = "refused"] /\ UNCHANGED channels
  <2>1. QueueType'
    BY <1>3, PubKeeps
  <2>2. {f \in PubEvents : stage'[f] = "queued"} = {f \in PubEvents : stage[f] = "queued"}
    BY <1>0, <1>1, <1>3 DEF AdmissionType
  <2>3. ChannelsInv'
    BY <1>0, <1>3, <2>2 DEF ChannelsInv
  <2> QED
    BY <1>1, <1>2, <1>3, <2>1, <2>3, CallerMoves
<1>4. CASE /\ stage' = [stage EXCEPT ![e] = "queued"]
           /\ \/ /\ criticalQueue' = Append(criticalQueue, e) /\ eventQueue' = eventQueue
                 /\ Len(criticalQueue) < CriticalQueueSize
              \/ /\ eventQueue' = Append(eventQueue, e) /\ criticalQueue' = criticalQueue
                 /\ Len(eventQueue) < EventQueueSize
  <2>1. QueueType' /\ ChannelsInv'
    BY <1>1, <1>4, Enqueued
  <2> QED
    BY <1>1, <1>2, <1>4, <2>1, CallerMoves
<1>5. \/ stage' = [stage EXCEPT ![e] = "refused"] /\ UNCHANGED channels
      \/ /\ stage' = [stage EXCEPT ![e] = "queued"]
         /\ \/ /\ criticalQueue' = Append(criticalQueue, e) /\ eventQueue' = eventQueue
               /\ Len(criticalQueue) < CriticalQueueSize
            \/ /\ eventQueue' = Append(eventQueue, e) /\ criticalQueue' = criticalQueue
               /\ Len(eventQueue) < EventQueueSize
  BY DEF Enqueue, EnqueueCancelled, ToStage
<1> QED
  BY <1>3, <1>4, <1>5

-----------------------------------------------------------------------------
(* The handlers *)

\* A handler takes the head of a queue into its batch.
LEMMA TakeKeeps ==
  ASSUME PubInv, NEW h \in Handlers, Take(h)
  PROVE  PubInv'
<1> USE DEF admission, channels, handlers, subscriptions
<1> DEFINE critical == h \in CriticalWorkers
           queue == IF critical THEN criticalQueue ELSE eventQueue
           e == Head(queue)
<1>0. /\ AdmissionType /\ QueueType /\ HandlerType
      /\ HandlerInv /\ ChannelsInv /\ BatchesInv
      /\ RouterInv /\ LookUpInv /\ PairsInv /\ CoverInv /\ HandledInv
  BY PubParts
<1>1. /\ hpc[h] = "idle" /\ queue # <<>>
      /\ UNCHANGED <<admission, hnext, hroute, hpairs, leaving, subscriptions, publisher, copies, handedOver, early>>
      /\ hbatch' = [hbatch EXCEPT ![h] = Append(@, e)]
      /\ stage' = [stage EXCEPT ![e] = "taken"]
      /\ IF critical THEN criticalQueue' = Tail(queue) /\ UNCHANGED eventQueue
         ELSE eventQueue' = Tail(queue) /\ UNCHANGED criticalQueue
      /\ hpc' = [hpc EXCEPT ![h] = IF Len(hbatch[h]) + 1 >= BatchLimit(h) THEN "route" ELSE "idle"]
  BY DEF Take, ToStage
<1>2. /\ queue \in Seq(PubEvents) /\ IsInjective(queue)
      /\ ToSet(queue) \subseteq {f \in PubEvents : stage[f] = "queued"}
  BY <1>0 DEF QueueType, ChannelsInv
<1>3. queue = IF critical THEN criticalQueue ELSE eventQueue
  OBVIOUS
<1> HIDE DEF queue, critical
<1>4. /\ Tail(queue) \in Seq(PubEvents) /\ e \in PubEvents /\ stage[e] = "queued" /\ e \in ToSet(queue)
      /\ IsInjective(Tail(queue)) /\ ToSet(Tail(queue)) = ToSet(queue) \ {e}
      /\ Len(Tail(queue)) = Len(queue) - 1 /\ Len(queue) \in Nat
  <2>1. /\ Tail(queue) \in Seq(PubEvents) /\ e \in ToSet(queue)
        /\ IsInjective(Tail(queue)) /\ ToSet(Tail(queue)) = ToSet(queue) \ {e}
    BY <1>1, <1>2, TailDistinct
  <2>2. Len(Tail(queue)) = Len(queue) - 1 /\ Len(queue) \in Nat
    BY <1>1, <1>2
  <2> QED
    BY <1>2, <2>1, <2>2
<1> HIDE DEF e
<1>5. stage \in [PubEvents -> Stages]
  BY <1>0 DEF AdmissionType
<1>6. stage'[e] = "taken" /\ \A f \in PubEvents : f # e => stage'[f] = stage[f]
  BY <1>1, <1>4, <1>5
<1>7. AdmissionType'
  BY <1>0, <1>1, <1>4 DEF AdmissionType, Stages
<1>8. QueueType'
  <2>0. Len(Tail(queue)) <= Len(queue)
    BY <1>4
  <2>a. /\ eventQueue \in Seq(PubEvents) /\ Len(eventQueue) <= EventQueueSize
        /\ criticalQueue \in Seq(PubEvents) /\ Len(criticalQueue) <= CriticalQueueSize
    BY <1>0 DEF QueueType
  <2>b. Len(Tail(queue)) \in Nat
    BY <1>4
  <2>1. CASE critical
    <3>1. criticalQueue' = Tail(queue) /\ eventQueue' = eventQueue /\ queue = criticalQueue
      BY <1>1, <1>3, <2>1
    <3>2. Len(Tail(queue)) <= CriticalQueueSize
      BY <1>4, <2>0, <2>a, <2>b, <3>1
    <3> QED
      BY <1>4, <2>a, <3>1, <3>2 DEF QueueType
  <2>2. CASE ~ critical
    <3>1. eventQueue' = Tail(queue) /\ criticalQueue' = criticalQueue /\ queue = eventQueue
      BY <1>1, <1>3, <2>2
    <3>2. Len(Tail(queue)) <= EventQueueSize
      BY <1>4, <2>0, <2>a, <2>b, <3>1
    <3> QED
      BY <1>4, <2>a, <3>1, <3>2 DEF QueueType
  <2> QED
    BY <2>1, <2>2
<1>9. ChannelsInv'
  <2>1. {f \in PubEvents : stage'[f] = "queued"} = {f \in PubEvents : stage[f] = "queued"} \ {e}
    BY <1>6
  <2>a. /\ IsInjective(eventQueue) /\ IsInjective(criticalQueue)
        /\ ToSet(eventQueue) \intersect ToSet(criticalQueue) = {}
        /\ ToSet(eventQueue) \union ToSet(criticalQueue) = {f \in PubEvents : stage[f] = "queued"}
    BY <1>0 DEF ChannelsInv
  <2>2. CASE critical
    <3>1. criticalQueue' = Tail(queue) /\ eventQueue' = eventQueue /\ queue = criticalQueue
      BY <1>1, <1>3, <2>2
    <3>2. /\ IsInjective(criticalQueue') /\ ToSet(criticalQueue') = ToSet(criticalQueue) \ {e}
          /\ e \in ToSet(criticalQueue)
      BY <1>4, <3>1
    <3> QED
      BY <2>1, <2>a, <3>1, <3>2 DEF ChannelsInv
  <2>3. CASE ~ critical
    <3>1. eventQueue' = Tail(queue) /\ criticalQueue' = criticalQueue /\ queue = eventQueue
      BY <1>1, <1>3, <2>3
    <3>2. /\ IsInjective(eventQueue') /\ ToSet(eventQueue') = ToSet(eventQueue) \ {e}
          /\ e \in ToSet(eventQueue)
      BY <1>4, <3>1
    <3> QED
      BY <2>1, <2>a, <3>1, <3>2 DEF ChannelsInv
  <2> QED
    BY <2>2, <2>3
<1> DEFINE b == Append(hbatch[h], e)
<1>10. /\ hbatch[h] \in Seq(PubEvents) /\ Len(hbatch[h]) \in Nat /\ Len(hbatch[h]) < BatchLimit(h)
       /\ hnext[h] = 0 /\ hpairs[h] = {} /\ IsInjective(hbatch[h])
  <2>1. hbatch[h] \in Seq(PubEvents)
    BY <1>0 DEF HandlerType
  <2> QED
    BY <1>0, <1>1, <2>1 DEF HandlerInv, BatchesInv
<1>11. \A g \in Handlers : e \notin ToSet(hbatch[g])
  BY <1>4, RoutedTaken
<1>12. b \in Seq(PubEvents) /\ IsInjective(b) /\ ToSet(b) = ToSet(hbatch[h]) \union {e}
  BY <1>4, <1>10, <1>11, AppendDistinct
<1>13. Len(b) = Len(hbatch[h]) + 1 /\ BatchLimit(h) \in Nat
  BY <1>4, <1>10 DEF BatchLimit
<1>14. hbatch \in [Handlers -> Seq(PubEvents)] /\ hpc \in [Handlers -> {"idle", "route", "match", "send", "exited"}]
       /\ hnext \in [Handlers -> Nat] /\ hpairs \in [Handlers -> SUBSET (PubEvents \X Subs)]
  BY <1>0 DEF HandlerType
<1>15. hbatch'[h] = b /\ \A g \in Handlers : g # h => hbatch'[g] = hbatch[g] /\ hpc'[g] = hpc[g]
  BY <1>1, <1>14
<1>16. hpc'[h] = IF Len(b) >= BatchLimit(h) THEN "route" ELSE "idle"
  BY <1>1, <1>13, <1>14
<1> HIDE DEF b
<1>17. HandlerType'
  <2>1. hbatch' \in [Handlers -> Seq(PubEvents)] /\ hpc' \in [Handlers -> {"idle", "route", "match", "send", "exited"}]
    BY <1>1, <1>12, <1>14, <1>15
  <2>2. \A g \in Handlers : Len(hbatch'[g]) <= BatchLimit(g) /\ hnext'[g] <= Len(hbatch'[g])
    <3>1. Len(b) <= BatchLimit(h) /\ 0 <= Len(b)
      BY <1>10, <1>13
    <3>2. \A g \in Handlers : Len(hbatch[g]) <= BatchLimit(g) /\ hnext[g] <= Len(hbatch[g])
      BY <1>0 DEF HandlerType
    <3> QED
      BY <1>1, <1>10, <1>15, <3>1, <3>2
  <2> QED
    BY <1>0, <1>1, <2>1, <2>2 DEF HandlerType
<1>18. HandlerInv'
  <2>1. Len(b) > 0 /\ (~ (Len(b) >= BatchLimit(h)) => Len(b) < BatchLimit(h))
    BY <1>10, <1>13
  <2> QED
    BY <1>0, <1>1, <1>10, <1>15, <1>16, <2>1 DEF HandlerInv
<1>19. BatchesInv'
  <2>1. \A f \in PubEvents : stage'[f] = "taken" <=> stage[f] = "taken" \/ f = e
    BY <1>4, <1>6
  <2>2. \A f : (\E g \in Handlers : f \in ToSet(hbatch'[g])) <=> (\E g \in Handlers : f \in ToSet(hbatch[g])) \/ f = e
    <3>1. ToSet(hbatch'[h]) = ToSet(hbatch[h]) \union {e} /\ \A g \in Handlers : g # h => ToSet(hbatch'[g]) = ToSet(hbatch[g])
      BY <1>12, <1>15
    <3> QED
      BY <3>1
  <2>3. \A g \in Handlers : IsInjective(hbatch'[g])
    BY <1>0, <1>12, <1>15 DEF BatchesInv
  <2>4. \A g, k \in Handlers : g # k => ToSet(hbatch'[g]) \intersect ToSet(hbatch'[k]) = {}
    BY <1>0, <1>11, <1>12, <1>15 DEF BatchesInv
  <2>5. \A f \in PubEvents : stage'[f] = "taken" <=> \E g \in Handlers : f \in ToSet(hbatch'[g])
    BY <1>0, <2>1, <2>2 DEF BatchesInv
  <2> QED
    BY <2>3, <2>4, <2>5 DEF BatchesInv
<1>20. \A g \in Handlers : Routed(g)' = Routed(g)
  <2>1. \A g \in Handlers : g # h => Routed(g)' = Routed(g)
    BY <1>1, <1>15 DEF Routed
  <2>2. Routed(h)' = {} /\ Routed(h) = {}
    <3>1. hnext'[h] = 0 /\ hnext[h] = 0 /\ 1 .. 0 = {}
      BY <1>1, <1>10
    <3> QED
      BY <3>1 DEF Routed
  <2> QED
    BY <2>1, <2>2
<1>21. RouterInv'
  BY <1>0, <1>1, <1>4, <1>6 DEF RouterInv
<1>22. PairsInv'
  <2>1. \A p \in handedOver : stage[p[1]] = "handled" => stage'[p[1]] = "handled"
    <3>1. \A p \in handedOver : p[1] \in PubEvents
      BY PubParts DEF DeliveryType
    <3> QED
      BY <1>4, <1>6, <3>1
  <2> QED
    BY <1>0, <1>1, <1>20, <2>1 DEF PairsInv
<1>23. CoverInv'
  BY <1>0, <1>1, <1>20 DEF CoverInv
<1>24. HandledInv'
  BY <1>0, <1>1, <1>4, <1>6 DEF HandledInv
<1>25. RouterType' /\ DeliveryType' /\ KafkaInv'
  BY <1>1, PubKeeps
<1>26. LookUpInv'
  BY <1>0, <1>1, <1>15, Zenon DEF LookUpInv, GoodRoute, NextEvent
<1> QED
  BY <1>7, <1>8, <1>9, <1>17, <1>18, <1>19, <1>21, <1>22, <1>23, <1>24, <1>25, <1>26, PubParts

\* The batch timer, and the ends of handlers that hold nothing.
LEMMA FlushAndExitKeep ==
  ASSUME PubInv, FlushBatch \/ \E h \in Handlers : Exit(h)
  PROVE  PubInv'
<1> USE DEF admission, channels, handlers, subscriptions
<1>0. HandlerType /\ HandlerInv /\ LookUpInv
  BY PubParts
<1>1. /\ UNCHANGED <<stage, admission, channels, hbatch, hnext, hroute, hpairs, subscriptions, publisher>>
      /\ UNCHANGED <<copies, handedOver, early>> /\ leaving' \in BOOLEAN
  BY <1>0 DEF FlushBatch, Exit, HandlerType
<1>2. PICK h \in Handlers : /\ hpc[h] = "idle"
                            /\ \/ hbatch[h] # <<>> /\ hpc' = [hpc EXCEPT ![h] = "route"]
                               \/ hbatch[h] = <<>> /\ hpc' = [hpc EXCEPT ![h] = "exited"]
  BY DEF FlushBatch, Exit, Handlers
<1>3. HandlerType'
  BY <1>0, <1>1, <1>2 DEF HandlerType
<1>4. hbatch[h] \in Seq(PubEvents) /\ (hbatch[h] # <<>> => 0 < Len(hbatch[h]))
  BY <1>0 DEF HandlerType
<1>5. hpc \in [Handlers -> {"idle", "route", "match", "send", "exited"}]
  BY <1>0 DEF HandlerType
<1>6. HandlerInv'
  BY <1>0, <1>1, <1>2, <1>4, <1>5 DEF HandlerInv
<1>7. LookUpInv'
  <2>1. \A g \in Handlers : g # h => hpc'[g] = hpc[g]
    BY <1>2, <1>5
  <2> QED
    BY <1>0, <1>1, <1>2, <2>1, Zenon DEF LookUpInv, GoodRoute, NextEvent
<1> QED
  BY <1>1, <1>3, <1>6, <1>7, PubKeeps, PubParts

\* A handler that looks up a cached route finds one that is good.
LEMMA LookUpKeeps ==
  ASSUME PubInv, NEW h \in Handlers, LookUp(h)
  PROVE  PubInv'
<1> USE DEF admission, channels, handlers, subscriptions
<1> DEFINE e == NextEvent(h)
           found == {c[2] : c \in {x \in routeCache : x[1] = getCacheKey(e)}}
<1>0. HandlerType /\ RouterType /\ HandlerInv /\ RouterInv /\ LookUpInv
  BY PubParts
<1>1. /\ hpc[h] = "route"
      /\ hroute' = [hroute EXCEPT ![h] = found] /\ hpc' = [hpc EXCEPT ![h] = "match"]
      /\ UNCHANGED <<stage, admission, channels, hbatch, hnext, hpairs, leaving, subscriptions, publisher>>
      /\ UNCHANGED <<copies, handedOver, early>>
  BY DEF LookUp
<1>2. \A route \in found : route \subseteq Subs /\ GoodRoute(route, e)
  <2>1. \A c \in routeCache : c[1] = getCacheKey(e) => c[2] \subseteq Subs /\ GoodRoute(c[2], e)
    BY <1>0 DEF RouterType, RouterInv, GoodRoute, getCacheKey
  <2> QED
    BY <2>1
<1>3. NextEvent(h) = e
  OBVIOUS
<1> HIDE DEF found, e
<1>4. /\ hroute \in [Handlers -> SUBSET SUBSET Subs]
      /\ hpc \in [Handlers -> {"idle", "route", "match", "send", "exited"}]
  BY <1>0 DEF HandlerType
<1>5. /\ hroute'[h] = found /\ hpc'[h] = "match"
      /\ \A g \in Handlers : g # h => hroute'[g] = hroute[g] /\ hpc'[g] = hpc[g]
  BY <1>1, <1>4
<1>6. HandlerType'
  <2>1. found \in SUBSET SUBSET Subs
    BY <1>2
  <2> QED
    BY <1>0, <1>1, <1>4, <2>1 DEF HandlerType
<1>7. HandlerInv'
  BY <1>0, <1>1, <1>5 DEF HandlerInv
<1>8. \A g \in Handlers : NextEvent(g)' = NextEvent(g)
  BY <1>1 DEF NextEvent
<1>9. \A route, f : GoodRoute(route, f) => GoodRoute(route, f)'
  BY <1>1 DEF GoodRoute
<1>10. LookUpInv'
  <2> SUFFICES ASSUME NEW g \in Handlers, NEW route \in hroute'[g]
               PROVE  hpc'[g] = "match" /\ GoodRoute(route, NextEvent(g))'
    BY DEF LookUpInv
  <2>1. hpc'[g] = "match" /\ GoodRoute(route, NextEvent(g))
    <3>1. CASE g = h
      BY <1>2, <1>3, <1>5, <3>1
    <3>2. CASE g # h
      BY <1>0, <1>5, <3>2 DEF LookUpInv
    <3> QED
      BY <3>1, <3>2
  <2> QED
    BY <1>1, <1>8, <2>1 DEF GoodRoute
<1>11. /\ AdmissionType' /\ QueueType' /\ RouterType' /\ DeliveryType' /\ KafkaInv'
       /\ ChannelsInv' /\ BatchesInv' /\ RouterInv' /\ PairsInv' /\ CoverInv' /\ HandledInv'
  BY <1>1, PubKeeps
<1> QED
  BY <1>6, <1>7, <1>10, <1>11, PubParts

\* The route that RouteEvent uses.
RouteFor(h) == IF hroute[h] = {} THEN Matching(NextEvent(h)) ELSE (UNION hroute[h]) \intersect routed

\* The router answers, from the cache or not, with subscriptions it has, whose
\* filters let the event's key pass, and with all that the event is to reach.
LEMMA RouteIsGood ==
  ASSUME PubInv, NEW h \in Handlers, hpc[h] = "match"
  PROVE  /\ RouteFor(h) \subseteq routed /\ RouteFor(h) \subseteq Subs
         /\ GoodRoute(RouteFor(h), NextEvent(h))
         /\ hroute[h] = {} =>
                \A s \in routed \ Timed : KeyOf[NextEvent(h)] \in Filters[s] => s \in RouteFor(h)
<1> DEFINE e == NextEvent(h)
           route == RouteFor(h)
<1>1. routed \subseteq Subs /\ e \in PubEvents
  BY NextTaken, PubParts DEF RouterType
<1>2. \A r \in hroute[h] : GoodRoute(r, e)
  BY PubParts DEF LookUpInv
<1>3. route = IF hroute[h] = {} THEN Matching(e) ELSE (UNION hroute[h]) \intersect routed
  BY DEF RouteFor
<1> HIDE DEF e, route
<1>4. /\ route \subseteq routed
      /\ \A s \in route : KeyOf[e] \in Filters[s]
      /\ \A s \in (early[e] \intersect routed) \ Timed : KeyOf[e] \in Filters[s] => s \in route
      /\ hroute[h] = {} => \A s \in routed \ Timed : KeyOf[e] \in Filters[s] => s \in route
  <2>1. CASE hroute[h] = {}
    <3>1. route = {s \in routed : KeyOf[e] \in Filters[s] /\ e \in InRange[s]}
      BY <1>3, <2>1 DEF Matching, matchesAllFilters
    <3>2. \A s \in routed \ Timed : e \in InRange[s]
      BY <1>1 DEF Timed
    <3> QED
      BY <3>1, <3>2
  <2>2. CASE hroute[h] # {}
    <3>1. route = (UNION hroute[h]) \intersect routed
      BY <1>3, <2>2
    <3>2. \A s \in route : s \in routed /\ \E r \in hroute[h] : s \in r
      BY <3>1
    <3>3. \A s \in route : KeyOf[e] \in Filters[s]
      BY <1>2, <3>2 DEF GoodRoute
    <3>4. ASSUME NEW s \in (early[e] \intersect routed) \ Timed, KeyOf[e] \in Filters[s] PROVE s \in route
      <4>1. PICK r \in hroute[h] : s \in r
        BY <1>2, <2>2, <3>4 DEF GoodRoute
      <4> QED
        BY <3>1, <3>4, <4>1
    <3> QED
      BY <2>2, <3>2, <3>3, <3>4
  <2> QED
    BY <2>1, <2>2
<1>5. route \subseteq Subs /\ GoodRoute(route, e)
  BY <1>1, <1>4 DEF GoodRoute
<1> QED
  BY <1>4, <1>5 DEF e, route

LEMMA RouteKeeps ==
  ASSUME PubInv, NEW h \in Handlers, RouteEvent(h)
  PROVE  PubInv'
<1> USE DEF admission, channels, handlers, subscriptions
<1> DEFINE n == hnext[h] + 1
           e == hbatch[h][n]
           route == IF hroute[h] = {} THEN Matching(e) ELSE (UNION hroute[h]) \intersect routed
           new == {e} \X route
<1>0. /\ HandlerType /\ RouterType /\ DeliveryType
      /\ HandlerInv /\ BatchesInv /\ RouterInv /\ LookUpInv /\ PairsInv /\ CoverInv
  BY PubParts
<1>1. /\ hbatch[h] \in Seq(PubEvents) /\ hnext[h] \in Nat /\ hnext[h] < Len(hbatch[h]) /\ Len(hbatch[h]) \in Nat
      /\ hpc[h] = "match"
  <2>1. hbatch[h] \in Seq(PubEvents) /\ hnext[h] \in Nat /\ hpc[h] = "match"
    BY <1>0 DEF HandlerType, RouteEvent
  <2> QED
    BY <1>0, <2>1 DEF HandlerInv
<1>2. n \in 1 .. Len(hbatch[h]) /\ n \notin 1 .. hnext[h] /\ n \in Nat /\ n <= Len(hbatch[h])
  BY <1>1
<1>3. e \in PubEvents /\ e \in ToSet(hbatch[h]) /\ e = NextEvent(h)
  <2>1. e = NextEvent(h)
    BY DEF NextEvent
  <2> HIDE DEF e
  <2> QED
    BY <1>1, <2>1, NextTaken
<1>4. /\ route \subseteq routed /\ route \subseteq Subs
      /\ \A s \in route : KeyOf[e] \in Filters[s]
      /\ \A s \in (early[e] \intersect routed) \ Timed : KeyOf[e] \in Filters[s] => s \in route
      /\ hroute[h] = {} => \A s \in routed \ Timed : KeyOf[e] \in Filters[s] => s \in route
  <2>1. route = RouteFor(h)
    BY <1>3 DEF RouteFor
  <2>2. e = NextEvent(h)
    BY <1>3
  <2> HIDE DEF e, route
  <2>3. /\ route \subseteq routed /\ route \subseteq Subs /\ GoodRoute(route, e)
        /\ hroute[h] = {} => \A s \in routed \ Timed : KeyOf[e] \in Filters[s] => s \in route
    BY <1>1, <2>1, <2>2, RouteIsGood
  <2> QED
    BY <2>3 DEF GoodRoute
<1>5. /\ UNCHANGED <<stage, admission, channels, hbatch, leaving, listed, routed, publisher, copies, handedOver, early>>
      /\ hpairs' = [hpairs EXCEPT ![h] = @ \union new]
      /\ \/ routeCache' = routeCache
         \/ /\ hroute[h] = {}
            /\ routeCache' = {c \in routeCache : c[1] # KeyOf[e]} \union {<<KeyOf[e], route>>}
      /\ hroute' = [hroute EXCEPT ![h] = {}]
      /\ hnext' = [hnext EXCEPT ![h] = n]
      /\ hpc' = [hpc EXCEPT ![h] = IF n = Len(hbatch[h]) THEN "send" ELSE "route"]
  BY DEF RouteEvent, NextEvent, getCacheKey
<1>6. \A i \in 1 .. hnext[h] : hbatch[h][i] # e
  <2>1. DOMAIN hbatch[h] = 1 .. Len(hbatch[h]) /\ IsInjective(hbatch[h])
    BY <1>0, <1>1 DEF BatchesInv
  <2>2. \A i \in 1 .. hnext[h] : i \in 1 .. Len(hbatch[h]) /\ i # n
    BY <1>1, <1>2
  <2> QED
    BY <1>2, <2>1, <2>2 DEF IsInjective
<1>7. e \notin Routed(h) /\ \A g \in Handlers : e \notin Routed(g)
  <2>1. e \notin Routed(h)
    BY <1>6 DEF Routed
  <2>2. \A g \in Handlers : g # h => e \notin ToSet(hbatch[g])
    BY <1>0, <1>3 DEF BatchesInv
  <2> QED
    BY <2>1, <2>2, RoutedTaken
<1>8. stage[e] = "taken"
  BY <1>3, RoutedTaken
<1>9. \A s : <<e, s>> \notin handedOver
  <2>1. ASSUME NEW s, <<e, s>> \in handedOver PROVE FALSE
    <3>1. stage[<<e, s>>[1]] = "handled" \/ \E g \in Handlers : <<e, s>>[1] \in Routed(g)
      BY <1>0, <2>1 DEF PairsInv
    <3>2. <<e, s>>[1] = e
      OBVIOUS
    <3> HIDE DEF e
    <3> QED
      BY <1>7, <1>8, <3>1, <3>2
  <2> QED
    BY <2>1
<1>10. /\ hpairs \in [Handlers -> SUBSET (PubEvents \X Subs)] /\ hnext \in [Handlers -> Nat]
       /\ hpc \in [Handlers -> {"idle", "route", "match", "send", "exited"}]
  BY <1>0 DEF HandlerType
<1>11. new = {e} \X route
  OBVIOUS
<1> HIDE DEF new, route, e
<1>12. new \subseteq PubEvents \X Subs /\ \A p \in new : p[1] = e /\ p[2] \in route /\ p = <<e, p[2]>>
  BY <1>3, <1>4, <1>11
<1>13. \A s \in route : <<e, s>> \in new
  BY <1>11
<1>14. hroute \in [Handlers -> SUBSET SUBSET Subs]
  BY <1>0 DEF HandlerType
<1>15. /\ hnext'[h] = n /\ \A g \in Handlers : g # h => hnext'[g] = hnext[g]
       /\ hpairs'[h] = hpairs[h] \union new /\ \A g \in Handlers : g # h => hpairs'[g] = hpairs[g]
       /\ hpc'[h] = (IF n = Len(hbatch[h]) THEN "send" ELSE "route")
       /\ \A g \in Handlers : g # h => hpc'[g] = hpc[g]
       /\ hroute'[h] = {} /\ \A g \in Handlers : g # h => hroute'[g] = hroute[g]
  BY <1>5, <1>10, <1>14
<1>16. HandlerType'
  <2>1. hpairs' \in [Handlers -> SUBSET (PubEvents \X Subs)]
    BY <1>5, <1>10, <1>12
  <2>2. hnext' \in [Handlers -> Nat] /\ hpc' \in [Handlers -> {"idle", "route", "match", "send", "exited"}]
    BY <1>2, <1>5, <1>10
  <2>3. \A g \in Handlers : hnext'[g] <= Len(hbatch[g])
    BY <1>0, <1>2, <1>15 DEF HandlerType
  <2>4. hroute' \in [Handlers -> SUBSET SUBSET Subs]
    BY <1>5, <1>14
  <2> QED
    BY <1>0, <1>5, <2>1, <2>2, <2>3, <2>4 DEF HandlerType
<1>17. HandlerInv'
  <2>1. hpc'[h] = "route" => n < Len(hbatch[h])
    BY <1>1, <1>2, <1>15
  <2>2. hpc'[h] = "send" => n = Len(hbatch[h])
    BY <1>15
  <2>3. hpc'[h] \in {"route", "send"}
    BY <1>15
  <2> HIDE DEF n
  <2> QED
    BY <1>0, <1>5, <1>15, <2>1, <2>2, <2>3 DEF HandlerInv
<1>18. Routed(h)' = Routed(h) \union {e} /\ \A g \in Handlers : g # h => Routed(g)' = Routed(g)
  <2>1. \A g \in Handlers : g # h => Routed(g)' = Routed(g)
    BY <1>5, <1>15 DEF Routed
  <2>2. \A i \in 1 .. n : i \in 1 .. hnext[h] \/ i = n
    BY <1>1
  <2>3. (\A i \in 1 .. hnext[h] : i \in 1 .. n) /\ n \in 1 .. n
    BY <1>1
  <2>4. Routed(h)' = {hbatch[h][i] : i \in 1 .. n}
    BY <1>5, <1>15 DEF Routed
  <2>5. e = hbatch[h][n]
    BY DEF e
  <2> HIDE DEF n
  <2>6. {hbatch[h][i] : i \in 1 .. n} = {hbatch[h][i] : i \in 1 .. hnext[h]} \union {e}
    BY <2>2, <2>3, <2>5
  <2> QED
    BY <2>1, <2>4, <2>6 DEF Routed
<1>19. RouterType'
  <2>1. \A c \in routeCache' : c \in routeCache \/ c[2] = route
    BY <1>5
  <2>2. \A c \in routeCache : c[2] \subseteq Subs
    BY <1>0 DEF RouterType
  <2>3. \A c \in routeCache' : c[2] \subseteq Subs
    BY <1>4, <2>1, <2>2
  <2> QED
    BY <1>0, <1>5, <2>3 DEF RouterType
<1>20. RouterInv'
  <2> SUFFICES ASSUME NEW c \in routeCache'
               PROVE  /\ \A s \in c[2] : c[1] \in Filters[s]
                      /\ \A s \in routed \ Timed : c[1] \in Filters[s] => s \in c[2]
    BY <1>0, <1>5 DEF RouterInv
  <2>1. CASE c \in routeCache
    BY <1>0, <2>1 DEF RouterInv
  <2>2. CASE c \notin routeCache
    <3>1. hroute[h] = {} /\ c = <<KeyOf[e], route>>
      BY <1>5, <2>2
    <3>2. c[1] = KeyOf[e] /\ c[2] = route
      BY <3>1
    <3> QED
      BY <1>4, <3>1, <3>2
  <2> QED
    BY <2>1, <2>2
<1>21. PairsInv'
  <2>1. ASSUME NEW g \in Handlers, NEW p \in hpairs'[g]
        PROVE  p[1] \in Routed(g)' /\ KeyOf[p[1]] \in Filters[p[2]] /\ p \notin handedOver
    <3>1. CASE p \in hpairs[g]
      BY <1>0, <1>18, <3>1 DEF PairsInv
    <3>2. CASE p \notin hpairs[g]
      <4>1. g = h /\ p \in new
        BY <1>15, <2>1, <3>2
      <4> QED
        BY <1>4, <1>9, <1>12, <1>18, <4>1
    <3> QED
      BY <3>1, <3>2
  <2>2. \A p \in handedOver : /\ KeyOf[p[1]] \in Filters[p[2]]
                              /\ stage[p[1]] = "handled" \/ \E g \in Handlers : p[1] \in Routed(g)'
    BY <1>0, <1>18 DEF PairsInv
  <2> QED
    BY <1>5, <2>1, <2>2 DEF PairsInv
<1>22. CoverInv'
  <2>1. ASSUME NEW g \in Handlers, NEW f \in Routed(g)', NEW s \in (early[f] \intersect routed) \ Timed,
               KeyOf[f] \in Filters[s]
        PROVE  <<f, s>> \in handedOver \union hpairs'[g]
    <3>1. CASE f \in Routed(g)
      BY <1>0, <1>15, <2>1, <3>1 DEF CoverInv
    <3>2. CASE f \notin Routed(g)
      <4>1. g = h /\ f = e
        BY <1>18, <2>1, <3>2
      <4>2. s \in route
        BY <1>4, <2>1, <4>1
      <4> QED
        BY <1>13, <1>15, <4>1, <4>2
    <3> QED
      BY <3>1, <3>2
  <2> QED
    BY <1>5, <2>1 DEF CoverInv
<1>23. AdmissionType' /\ QueueType' /\ DeliveryType' /\ KafkaInv' /\ ChannelsInv' /\ BatchesInv' /\ HandledInv'
  BY <1>5, PubKeeps
<1>24. LookUpInv'
  BY <1>0, <1>5, <1>15, Zenon DEF LookUpInv, GoodRoute, NextEvent
<1> QED
  BY <1>16, <1>17, <1>19, <1>20, <1>21, <1>22, <1>23, <1>24, PubParts

\* Pairs of one transport are given to it; only its own subscriptions can get
\* copies, over Kafka at most one for each pair.
LEMMA SendKeeps ==
  ASSUME PubInv, NEW h \in Handlers, NEW ws \in BOOLEAN, hpc[h] = "send", SendDone(h, PairsOver(h, ws)),
         copies' \in [PubEvents -> [Subs -> Nat]],
         \A e \in PubEvents, s \in Subs \ OverWs :
             \/ copies'[e][s] = copies[e][s]
             \/ <<e, s>> \in PairsOver(h, ws) /\ copies'[e][s] = copies[e][s] + 1
  PROVE  PubInv'
<1> USE DEF admission, channels, handlers, subscriptions
<1> DEFINE pairs == PairsOver(h, ws)
<1>0. /\ HandlerType /\ DeliveryType
      /\ HandlerInv /\ BatchesInv /\ PairsInv /\ CoverInv /\ KafkaInv /\ HandledInv
  BY PubParts
<1>1. /\ UNCHANGED <<stage, admission, channels, hpc, hbatch, hnext, hroute, leaving, subscriptions, publisher, early>>
      /\ hpairs' = [hpairs EXCEPT ![h] = @ \ pairs]
      /\ handedOver' = handedOver \union pairs
  BY DEF SendDone
<1>2. hpairs \in [Handlers -> SUBSET (PubEvents \X Subs)]
  BY <1>0 DEF HandlerType
<1>3. pairs \subseteq hpairs[h] /\ pairs \subseteq PubEvents \X Subs
  BY <1>2 DEF PairsOver
<1> HIDE DEF pairs
<1>4. hpairs'[h] = hpairs[h] \ pairs /\ \A g \in Handlers : g # h => hpairs'[g] = hpairs[g]
  BY <1>1, <1>2
<1>5. HandlerType'
  <2>1. hpairs' \in [Handlers -> SUBSET (PubEvents \X Subs)]
    BY <1>1, <1>2
  <2> QED
    BY <1>0, <1>1, <2>1 DEF HandlerType
<1>6. HandlerInv'
  BY <1>0, <1>1, <1>4 DEF HandlerInv
<1>7. DeliveryType'
  BY <1>0, <1>1, <1>3 DEF DeliveryType
<1>8. \A g \in Handlers : Routed(g)' = Routed(g)
  BY <1>1 DEF Routed
<1>9. \A p \in pairs : p[1] \in Routed(h) /\ KeyOf[p[1]] \in Filters[p[2]] /\ p \notin handedOver
  BY <1>0, <1>3 DEF PairsInv
<1>10. \A g \in Handlers : g # h => Routed(g) \intersect Routed(h) = {}
  <2>1. \A g \in Handlers : g # h => ToSet(hbatch[g]) \intersect ToSet(hbatch[h]) = {}
    BY <1>0 DEF BatchesInv
  <2> QED
    BY <2>1, RoutedTaken
<1>11. PairsInv'
  <2>1. ASSUME NEW g \in Handlers, NEW p \in hpairs'[g]
        PROVE  p[1] \in Routed(g) /\ KeyOf[p[1]] \in Filters[p[2]] /\ p \notin handedOver'
    <3>1. p \in hpairs[g] /\ p[1] \in Routed(g) /\ KeyOf[p[1]] \in Filters[p[2]] /\ p \notin handedOver
      BY <1>0, <1>4 DEF PairsInv
    <3>2. p \notin pairs
      <4>1. CASE g = h
        BY <1>4, <2>1, <4>1
      <4>2. CASE g # h
        BY <1>9, <1>10, <3>1, <4>2
      <4> QED
        BY <4>1, <4>2
    <3> QED
      BY <1>1, <3>1, <3>2
  <2>2. ASSUME NEW p \in handedOver'
        PROVE  KeyOf[p[1]] \in Filters[p[2]] /\ (stage[p[1]] = "handled" \/ \E g \in Handlers : p[1] \in Routed(g))
    <3>1. CASE p \in handedOver
      BY <1>0, <3>1 DEF PairsInv
    <3>2. CASE p \in pairs
      BY <1>9, <3>2
    <3> QED
      BY <1>1, <2>2, <3>1, <3>2
  <2> QED
    BY <1>1, <1>8, <2>1, <2>2 DEF PairsInv
<1>12. CoverInv'
  <2>1. \A g \in Handlers : handedOver \union hpairs[g] \subseteq handedOver' \union hpairs'[g]
    BY <1>1, <1>4
  <2> QED
    BY <1>0, <1>1, <1>8, <2>1 DEF CoverInv
<1>13. KafkaInv'
  <2>1. ASSUME NEW e \in PubEvents, NEW s \in Subs \ OverWs
        PROVE  copies'[e][s] \in {0, 1} /\ (copies'[e][s] = 1 => <<e, s>> \in handedOver')
    <3>1. copies[e][s] \in {0, 1} /\ (copies[e][s] = 1 => <<e, s>> \in handedOver)
      BY <1>0 DEF KafkaInv
    <3>2. CASE copies'[e][s] = copies[e][s]
      BY <1>1, <3>1, <3>2
    <3>3. CASE <<e, s>> \in pairs /\ copies'[e][s] = copies[e][s] + 1
      <4>1. copies[e][s] = 0
        BY <1>9, <3>1, <3>3
      <4> QED
        BY <1>1, <3>3, <4>1
    <3> QED
      BY <3>2, <3>3 DEF pairs
  <2> QED
    BY <2>1, Zenon DEF KafkaInv
<1>14. HandledInv'
  BY <1>0, <1>1 DEF HandledInv
<1>15. AdmissionType' /\ QueueType' /\ RouterType' /\ ChannelsInv' /\ BatchesInv' /\ RouterInv' /\ LookUpInv'
  BY <1>1, PubKeeps
<1> QED
  BY <1>5, <1>6, <1>7, <1>11, <1>12, <1>13, <1>14, <1>15, PubParts

\* What the two ways of sending do to the copies.
LEMMA SendsCopy ==
  ASSUME PubInv, NEW h \in Handlers, SendKafka(h) \/ SendWs(h)
  PROVE  PubInv'
<1>0. /\ copies \in [PubEvents -> [Subs -> Nat]] /\ handedOver \subseteq PubEvents \X Subs
      /\ hpairs \in [Handlers -> SUBSET (PubEvents \X Subs)]
  BY PubParts DEF DeliveryType, HandlerType
<1>1. ASSUME NEW got, SendPairs(got)
      PROVE  /\ copies' \in [PubEvents -> [Subs -> Nat]]
             /\ \A e \in PubEvents, s \in Subs : copies'[e][s] = IF <<e, s>> \in got THEN copies[e][s] + 1 ELSE copies[e][s]
  BY <1>0, <1>1 DEF SendPairs
<1>2. CASE SendKafka(h)
  <2>1. PICK got \in {PairsOver(h, FALSE), {}} : SendPairs(got)
    BY <1>2 DEF SendKafka
  <2>2. \A e \in PubEvents, s \in Subs \ OverWs :
            \/ copies'[e][s] = copies[e][s]
            \/ <<e, s>> \in PairsOver(h, FALSE) /\ copies'[e][s] = copies[e][s] + 1
    <3>1. \A e \in PubEvents, s \in Subs : copies'[e][s] = IF <<e, s>> \in got THEN copies[e][s] + 1 ELSE copies[e][s]
      BY <1>1, <2>1, Zenon
    <3>2. \A e \in PubEvents, s \in Subs \ OverWs : <<e, s>> \in got => <<e, s>> \in PairsOver(h, FALSE)
      BY <2>1
    <3>3. ASSUME NEW e \in PubEvents, NEW s \in Subs \ OverWs
          PROVE  \/ copies'[e][s] = copies[e][s]
                 \/ <<e, s>> \in PairsOver(h, FALSE) /\ copies'[e][s] = copies[e][s] + 1
      <4>1. CASE <<e, s>> \in got
        BY <3>1, <3>2, <4>1
      <4>2. CASE <<e, s>> \notin got
        BY <3>1, <4>2
      <4> QED
        BY <4>1, <4>2
    <3> QED
      BY <3>3, Zenon
  <2>3. copies' \in [PubEvents -> [Subs -> Nat]]
    BY <1>1, <2>1
  <2>4. hpc[h] = "send" /\ SendDone(h, PairsOver(h, FALSE))
    BY <1>2 DEF SendKafka
  <2> QED
    BY <2>2, <2>3, <2>4, SendKeeps
<1>3. CASE SendWs(h)
  <2>0. hpc[h] = "send" /\ SendDone(h, PairsOver(h, TRUE))
    BY <1>3 DEF SendWs
  <2>1. \A p \in PairsOver(h, TRUE) : p[2] \in OverWs
    BY DEF PairsOver
  <2>2. ASSUME NEW got \in SUBSET PairsOver(h, TRUE), SendPairs(got) PROVE PubInv'
    <3>1. \A e \in PubEvents, s \in Subs \ OverWs : <<e, s>> \notin got
      BY <2>1
    <3>2. \A e \in PubEvents, s \in Subs \ OverWs : copies'[e][s] = copies[e][s]
      <4>1. \A e \in PubEvents, s \in Subs : copies'[e][s] = IF <<e, s>> \in got THEN copies[e][s] + 1 ELSE copies[e][s]
        BY <1>1, <2>2, Zenon
      <4> QED
        BY <3>1, <4>1
    <3>3. copies' \in [PubEvents -> [Subs -> Nat]]
      BY <1>1, <2>2
    <3> QED
      BY <2>0, <3>2, <3>3, SendKeeps
  <2>3. ASSUME NEW got \in SUBSET {p[2] : p \in PairsOver(h, TRUE)}, SendToAll(PairsOver(h, TRUE), got)
        PROVE  PubInv'
    <3> DEFINE count(e) == Cardinality({p \in PairsOver(h, TRUE) : p[1] = e})
    <3>1. got \subseteq OverWs
      BY <2>1
    <3>2. \A e \in PubEvents, s \in Subs \ OverWs : copies'[e][s] = copies[e][s]
      BY <2>3, <3>1 DEF SendToAll
    <3>3. ASSUME NEW e \in PubEvents PROVE count(e) \in Nat
      <4>1. IsFiniteSet({e} \X Subs)
        BY FS_Singleton, FS_Product
      <4>2. {p \in PairsOver(h, TRUE) : p[1] = e} \in SUBSET ({e} \X Subs)
        BY <1>0 DEF PairsOver
      <4>3. IsFiniteSet({p \in PairsOver(h, TRUE) : p[1] = e})
        BY <4>1, <4>2, FS_Subset
      <4> QED
        BY <4>3, FS_CardinalityType
    <3>4. copies' \in [PubEvents -> [Subs -> Nat]]
      <4>1. copies' = [e \in PubEvents |-> [s \in Subs |->
                          IF s \in got THEN copies[e][s] + count(e) ELSE copies[e][s]]]
        BY <2>3 DEF SendToAll
      <4> HIDE DEF count
      <4> QED
        BY <1>0, <3>3, <4>1
    <3> QED
      BY <2>0, <3>2, <3>4, SendKeeps
  <2> QED
    BY <1>3, <2>2, <2>3 DEF SendWs
<1> QED
  BY <1>2, <1>3

\* The batch is handled: everything in it was routed, and every pair sent.
LEMMA BatchDoneKeeps ==
  ASSUME PubInv, NEW h \in Handlers, BatchDone(h)
  PROVE  PubInv'
<1> USE DEF admission, channels, handlers, subscriptions
<1>0. /\ AdmissionType /\ HandlerType /\ DeliveryType
      /\ HandlerInv /\ ChannelsInv /\ BatchesInv /\ RouterInv /\ LookUpInv /\ PairsInv /\ CoverInv /\ HandledInv
  BY PubParts
<1>1. /\ hpc[h] = "send" /\ hpairs[h] = {}
      /\ stage' = [e \in PubEvents |-> IF \E i \in DOMAIN hbatch[h] : hbatch[h][i] = e THEN "handled" ELSE stage[e]]
      /\ hbatch' = [hbatch EXCEPT ![h] = <<>>]
      /\ hnext' = [hnext EXCEPT ![h] = 0]
      /\ \E l \in {"exited", "idle"} : hpc' = [hpc EXCEPT ![h] = l]
      /\ UNCHANGED <<admission, channels, hroute, hpairs, leaving, subscriptions, publisher, copies, handedOver, early>>
  BY DEF BatchDone
<1>2. /\ hbatch \in [Handlers -> Seq(PubEvents)] /\ hnext \in [Handlers -> Nat]
      /\ hpc \in [Handlers -> {"idle", "route", "match", "send", "exited"}]
      /\ stage \in [PubEvents -> Stages]
  BY <1>0 DEF HandlerType, AdmissionType
<1>3. /\ hbatch'[h] = <<>> /\ hnext'[h] = 0 /\ hpc'[h] \in {"exited", "idle"}
      /\ \A g \in Handlers : g # h => hbatch'[g] = hbatch[g] /\ hnext'[g] = hnext[g] /\ hpc'[g] = hpc[g]
  BY <1>1, <1>2
<1>4. hbatch[h] \in Seq(PubEvents) /\ Len(hbatch[h]) \in Nat /\ hnext[h] = Len(hbatch[h])
  <2>1. hbatch[h] \in Seq(PubEvents)
    BY <1>2
  <2> QED
    BY <1>0, <1>1, <2>1 DEF HandlerInv
<1>5. Routed(h) = ToSet(hbatch[h])
  <2>1. DOMAIN hbatch[h] = 1 .. Len(hbatch[h])
    BY <1>4
  <2> QED
    BY <1>4, <2>1 DEF Routed, ToSet
<1>6. \A e \in PubEvents : stage'[e] = IF e \in ToSet(hbatch[h]) THEN "handled" ELSE stage[e]
  <2>1. \A e : e \in ToSet(hbatch[h]) <=> \E i \in DOMAIN hbatch[h] : hbatch[h][i] = e
    BY DEF ToSet
  <2> QED
    BY <1>1, <2>1
<1>7. \A e \in ToSet(hbatch[h]) : e \in PubEvents /\ stage[e] = "taken"
  BY RoutedTaken
<1>8. AdmissionType'
  <2>1. stage' \in [PubEvents -> Stages]
    BY <1>1, <1>2 DEF Stages
  <2> QED
    BY <1>0, <1>1, <2>1 DEF AdmissionType
<1>9. BatchLimit(h) \in Nat /\ 0 < BatchLimit(h) /\ Len(<<>>) = 0
  BY DEF BatchLimit
<1>10. HandlerType'
  <2>1. /\ hbatch' \in [Handlers -> Seq(PubEvents)] /\ hnext' \in [Handlers -> Nat]
        /\ hpc' \in [Handlers -> {"idle", "route", "match", "send", "exited"}]
    BY <1>1, <1>2
  <2>2. \A g \in Handlers : Len(hbatch'[g]) <= BatchLimit(g) /\ hnext'[g] <= Len(hbatch'[g])
    <3>1. \A g \in Handlers : Len(hbatch[g]) <= BatchLimit(g) /\ hnext[g] <= Len(hbatch[g])
      BY <1>0 DEF HandlerType
    <3>2. Len(hbatch'[h]) = 0 /\ Len(hbatch'[h]) <= BatchLimit(h) /\ hnext'[h] <= Len(hbatch'[h])
      BY <1>3, <1>9
    <3> QED
      BY <1>3, <3>1, <3>2
  <2> QED
    BY <1>0, <1>1, <2>1, <2>2 DEF HandlerType
<1>11. HandlerInv'
  BY <1>0, <1>1, <1>3, <1>9 DEF HandlerInv
<1>12. ChannelsInv'
  <2>1. {e \in PubEvents : stage'[e] = "queued"} = {e \in PubEvents : stage[e] = "queued"}
    BY <1>6, <1>7
  <2> QED
    BY <1>0, <1>1, <2>1 DEF ChannelsInv
<1>13. BatchesInv'
  <2>1. \A e \in PubEvents : stage'[e] = "taken" <=> stage[e] = "taken" /\ e \notin ToSet(hbatch[h])
    BY <1>6, <1>7
  <2>2. ToSet(hbatch'[h]) = {} /\ IsInjective(hbatch'[h])
    BY <1>3, EmptyDistinct
  <2>3. \A g \in Handlers : g # h => ToSet(hbatch[g]) \intersect ToSet(hbatch[h]) = {}
    BY <1>0 DEF BatchesInv
  <2>4. \A e : (\E g \in Handlers : e \in ToSet(hbatch'[g])) <=> (\E g \in Handlers : e \in ToSet(hbatch[g])) /\ e \notin ToSet(hbatch[h])
    <3>1. \A g \in Handlers : g # h => ToSet(hbatch'[g]) = ToSet(hbatch[g])
      BY <1>3
    <3> QED
      BY <2>2, <2>3, <3>1
  <2>5. \A g \in Handlers : IsInjective(hbatch'[g])
    BY <1>0, <1>3, <2>2 DEF BatchesInv
  <2>6. \A g, k \in Handlers : g # k => ToSet(hbatch'[g]) \intersect ToSet(hbatch'[k]) = {}
    BY <1>0, <1>3, <2>2 DEF BatchesInv
  <2>7. \A e \in PubEvents : stage'[e] = "taken" <=> \E g \in Handlers : e \in ToSet(hbatch'[g])
    BY <1>0, <2>1, <2>4 DEF BatchesInv
  <2> QED
    BY <2>5, <2>6, <2>7 DEF BatchesInv
<1>14. RouterInv'
  BY <1>0, <1>1, <1>6 DEF RouterInv
<1>15. Routed(h)' = {} /\ \A g \in Handlers : g # h => Routed(g)' = Routed(g)
  <2>1. 1 .. hnext'[h] = {}
    BY <1>3
  <2>2. Routed(h)' = {}
    BY <2>1 DEF Routed
  <2> QED
    BY <1>3, <2>2 DEF Routed
<1>16. PairsInv'
  <2>1. ASSUME NEW g \in Handlers, NEW p \in hpairs[g]
        PROVE  p[1] \in Routed(g)' /\ KeyOf[p[1]] \in Filters[p[2]] /\ p \notin handedOver
    <3>1. g # h
      BY <1>1, <2>1
    <3> QED
      BY <1>0, <1>15, <3>1 DEF PairsInv
  <2>2. ASSUME NEW p \in handedOver
        PROVE  /\ KeyOf[p[1]] \in Filters[p[2]]
               /\ stage'[p[1]] = "handled" \/ \E g \in Handlers : p[1] \in Routed(g)'
    <3>1. p[1] \in PubEvents
      BY <1>0 DEF DeliveryType
    <3>2. KeyOf[p[1]] \in Filters[p[2]] /\ (stage[p[1]] = "handled" \/ \E g \in Handlers : p[1] \in Routed(g))
      BY <1>0 DEF PairsInv
    <3>3. CASE p[1] \in ToSet(hbatch[h])
      BY <1>6, <3>1, <3>2, <3>3
    <3>4. CASE p[1] \notin ToSet(hbatch[h])
      BY <1>5, <1>6, <1>15, <3>1, <3>2, <3>4
    <3> QED
      BY <3>3, <3>4
  <2> QED
    BY <1>1, <2>1, <2>2 DEF PairsInv
<1>17. CoverInv'
  BY <1>0, <1>1, <1>15 DEF CoverInv
<1>18. HandledInv'
  <2> SUFFICES ASSUME NEW e \in PubEvents, stage'[e] = "handled", NEW s \in (early[e] \intersect routed) \ Timed,
                      KeyOf[e] \in Filters[s]
               PROVE  <<e, s>> \in handedOver
    BY <1>1 DEF HandledInv
  <2>1. CASE e \in ToSet(hbatch[h])
    BY <1>0, <1>1, <1>5, <2>1 DEF CoverInv
  <2>2. CASE e \notin ToSet(hbatch[h])
    BY <1>0, <1>6, <2>2 DEF HandledInv
  <2> QED
    BY <2>1, <2>2
<1>19. QueueType' /\ RouterType' /\ DeliveryType' /\ KafkaInv'
  BY <1>1, PubKeeps
<1>20. LookUpInv'
  BY <1>0, <1>1, <1>3, Zenon DEF LookUpInv, GoodRoute, NextEvent
<1> QED
  BY <1>8, <1>10, <1>11, <1>12, <1>13, <1>14, <1>16, <1>17, <1>18, <1>19, <1>20, PubParts

-----------------------------------------------------------------------------
(* Subscriptions, and the rest *)

LEMMA SubscriptionKeeps ==
  ASSUME PubInv,
         \/ RouteForgotten
         \/ \E s \in Subs : Subscribe(s) \/ AddSubscription(s) \/ Unsubscribe(s) \/ RemoveSubscription(s)
  PROVE  PubInv'
<1> USE DEF admission, channels, handlers, subscriptions
<1>0. RouterType /\ RouterInv /\ LookUpInv /\ CoverInv /\ HandledInv
  BY PubParts
<1>1. UNCHANGED <<stage, admission, channels, handlers, publisher, copies, handedOver, early>>
  BY DEF RouteForgotten, Subscribe, AddSubscription, Unsubscribe, RemoveSubscription
<1>2. RouterType'
  BY <1>0, <1>1 DEF RouterType, RouteForgotten, Subscribe, AddSubscription, Unsubscribe, RemoveSubscription
<1>3. RouterInv'
  <2>1. CASE RouteForgotten
    BY <1>0, <2>1 DEF RouterInv, RouteForgotten
  <2>2. ASSUME NEW s \in Subs, Subscribe(s) PROVE RouterInv'
    BY <1>0, <2>2 DEF RouterInv, Subscribe
  <2>3. ASSUME NEW s \in Subs, AddSubscription(s) PROVE RouterInv'
    BY <1>0, <2>3 DEF RouterInv, AddSubscription
  <2>4. ASSUME NEW s \in Subs, Unsubscribe(s) PROVE RouterInv'
    BY <1>0, <2>4 DEF RouterInv, Unsubscribe
  <2>5. ASSUME NEW s \in Subs, RemoveSubscription(s) PROVE RouterInv'
    BY <1>0, <2>5 DEF RouterInv, RemoveSubscription
  <2> QED
    BY <2>1, <2>2, <2>3, <2>4, <2>5
<1>4. \A e \in PubEvents : early[e] \intersect routed' \subseteq early[e] \intersect routed
  BY <1>0 DEF RouterInv, RouteForgotten, Subscribe, AddSubscription, Unsubscribe, RemoveSubscription
<1>5. \A h \in Handlers : Routed(h)' = Routed(h) /\ Routed(h) \subseteq PubEvents
  BY <1>1, RoutedTaken DEF Routed
<1>6. CoverInv'
  BY <1>0, <1>1, <1>4, <1>5 DEF CoverInv
<1>7. HandledInv'
  BY <1>0, <1>1, <1>4 DEF HandledInv
<1>8. /\ AdmissionType' /\ QueueType' /\ HandlerType' /\ DeliveryType' /\ KafkaInv'
      /\ HandlerInv' /\ ChannelsInv' /\ BatchesInv' /\ PairsInv'
  BY <1>1, PubKeeps
<1>9. LookUpInv'
  <2> SUFFICES ASSUME NEW h \in Handlers, NEW route \in hroute[h]
               PROVE  hpc[h] = "match" /\ GoodRoute(route, NextEvent(h))'
    BY <1>1 DEF LookUpInv
  <2>1. hpc[h] = "match" /\ GoodRoute(route, NextEvent(h))
    BY <1>0 DEF LookUpInv
  <2>2. NextEvent(h) \in PubEvents /\ NextEvent(h)' = NextEvent(h)
    BY <1>1, <2>1, NextTaken DEF NextEvent
  <2> QED
    BY <1>1, <1>4, <2>1, <2>2 DEF GoodRoute
<1> QED
  BY <1>2, <1>3, <1>6, <1>7, <1>8, <1>9, PubParts

LEMMA PubStep ==
  ASSUME PubInv, [PubNext]_pubVars
  PROVE  PubInv'
<1>1. ASSUME NEW e \in PubEvents, ContextDone(e) PROVE PubInv'
  <2>1. AdmissionType'
    BY <1>1, PubParts DEF ContextDone, AdmissionType
  <2> QED
    BY <1>1, <2>1, PubKeeps, PubParts DEF ContextDone, admission, channels, handlers, subscriptions
<1>2. CASE Cancel \/ CloseTransports
  <2>1. RouterType'
    BY <1>2, PubParts DEF Cancel, CloseTransports, RouterType, subscriptions
  <2> QED
    BY <1>2, <2>1, PubKeeps, PubParts DEF Cancel, CloseTransports, admission, channels, handlers, subscriptions
<1>3. CASE UNCHANGED pubVars
  BY <1>3, PubKeeps, PubParts DEF pubVars, admission, channels, handlers, subscriptions
<1>4. ASSUME NEW h \in Handlers, HandlerStep(h) PROVE PubInv'
  BY <1>4, TakeKeeps, LookUpKeeps, RouteKeeps, SendsCopy, BatchDoneKeeps, FlushAndExitKeep DEF HandlerStep
<1> QED
  BY <1>1, <1>2, <1>3, <1>4, PublishKeeps, EnqueueKeeps, FlushAndExitKeep, SubscriptionKeeps DEF PubNext

LEMMA PubInitial ==
  ASSUME PubInit
  PROVE  PubInv
<1> USE DEF PubInit
<1>1. ToSet(<<>>) = {} /\ IsInjective(<<>>)
  BY EmptyDistinct
<1>2. <<>> \in Seq(PubEvents) /\ Len(<<>>) = 0
  OBVIOUS
<1>3. \A h \in Handlers : BatchLimit(h) \in Nat /\ 0 < BatchLimit(h)
  BY DEF BatchLimit
<1>4. AdmissionType /\ RouterType
  BY DEF AdmissionType, RouterType, Stages
<1>5. QueueType
  BY <1>2 DEF QueueType
<1>6. HandlerType
  <2>1. /\ hpc \in [Handlers -> {"idle", "route", "match", "send", "exited"}] /\ leaving \in BOOLEAN
        /\ hnext \in [Handlers -> Nat] /\ hpairs \in [Handlers -> SUBSET (PubEvents \X Subs)]
        /\ hroute \in [Handlers -> SUBSET SUBSET Subs]
    OBVIOUS
  <2>2. hbatch \in [Handlers -> Seq(PubEvents)]
    BY <1>2
  <2>3. \A h \in Handlers : Len(hbatch[h]) = 0 /\ hnext[h] = 0
    BY <1>2
  <2> QED
    BY <1>3, <2>1, <2>2, <2>3 DEF HandlerType
<1>7. DeliveryType /\ KafkaInv
  BY DEF DeliveryType, KafkaInv
<1>8. HandlerInv
  BY <1>2, <1>3 DEF HandlerInv
<1>9. ChannelsInv /\ BatchesInv
  BY <1>1 DEF ChannelsInv, BatchesInv
<1>10. RouterInv /\ LookUpInv /\ HandledInv
  BY DEF RouterInv, LookUpInv, HandledInv
<1>11. \A h \in Handlers : Routed(h) = {}
  BY DEF Routed
<1>12. PairsInv /\ CoverInv
  BY <1>11 DEF PairsInv, CoverInv
<1> QED
  BY <1>4, <1>5, <1>6, <1>7, <1>8, <1>9, <1>10, <1>12, PubParts

-----------------------------------------------------------------------------
(* What the invariant says *)

\* An event that two places would count is in one place of its stage.
LEMMA PlacesCounted ==
  ASSUME PubInv
  PROVE  AcceptedOnce
<1> SUFFICES ASSUME NEW e \in PubEvents
             PROVE  Cardinality(Places(e)) = IF stage[e] \in {"queued", "taken"} THEN 1 ELSE 0
  BY DEF AcceptedOnce
<1> DEFINE R == {i \in DOMAIN eventQueue : eventQueue[i] = e}
           C == {i \in DOMAIN criticalQueue : criticalQueue[i] = e}
           H == {p \in (1 .. BatchSize) \X Handlers : p[1] <= Len(hbatch[p[2]]) /\ hbatch[p[2]][p[1]] = e}
<1>1. Places(e) = (R \X {"regular"}) \union (C \X {"critical"}) \union H
  BY DEF Places
<1>2. /\ IsInjective(eventQueue) /\ IsInjective(criticalQueue)
      /\ ToSet(eventQueue) \intersect ToSet(criticalQueue) = {}
      /\ ToSet(eventQueue) \union ToSet(criticalQueue) = {f \in PubEvents : stage[f] = "queued"}
  BY PubParts DEF ChannelsInv
<1>3. R # {} <=> e \in ToSet(eventQueue)
  BY DEF ToSet
<1>4. C # {} <=> e \in ToSet(criticalQueue)
  BY DEF ToSet
<1>5. (\A i, j \in R : i = j) /\ (\A i, j \in C : i = j)
  BY <1>2 DEF IsInjective
<1>6. ASSUME NEW h \in Handlers
      PROVE  /\ hbatch[h] \in Seq(PubEvents) /\ Len(hbatch[h]) \in Nat /\ DOMAIN hbatch[h] = 1 .. Len(hbatch[h])
             /\ Len(hbatch[h]) <= BatchSize /\ IsInjective(hbatch[h])
  <2>1. hbatch[h] \in Seq(PubEvents) /\ Len(hbatch[h]) <= BatchLimit(h)
    BY PubParts DEF HandlerType
  <2>2. Len(hbatch[h]) \in Nat /\ DOMAIN hbatch[h] = 1 .. Len(hbatch[h])
    BY <2>1
  <2>3. Len(hbatch[h]) <= BatchSize
    BY <2>1, <2>2 DEF BatchLimit
  <2> QED
    BY <2>1, <2>2, <2>3, PubParts DEF BatchesInv
<1>7. ASSUME NEW p \in H PROVE p[2] \in Handlers /\ p[1] \in DOMAIN hbatch[p[2]] /\ e \in ToSet(hbatch[p[2]])
  <2>1. p[2] \in Handlers /\ p[1] \in 1 .. BatchSize /\ p[1] <= Len(hbatch[p[2]]) /\ hbatch[p[2]][p[1]] = e
    OBVIOUS
  <2>2. Len(hbatch[p[2]]) \in Nat /\ DOMAIN hbatch[p[2]] = 1 .. Len(hbatch[p[2]])
    BY <1>6, <2>1
  <2>3. p[1] \in DOMAIN hbatch[p[2]]
    BY <2>1, <2>2
  <2> QED
    BY <2>1, <2>3 DEF ToSet
<1>8. \A p, q \in H : p = q
  <2> SUFFICES ASSUME NEW p \in H, NEW q \in H PROVE p = q
    OBVIOUS
  <2>1. p[2] = q[2]
    <3>1. \A g, k \in Handlers : g # k => ToSet(hbatch[g]) \intersect ToSet(hbatch[k]) = {}
      BY PubParts DEF BatchesInv
    <3>2. p[2] \in Handlers /\ q[2] \in Handlers /\ e \in ToSet(hbatch[p[2]]) /\ e \in ToSet(hbatch[q[2]])
      BY <1>7
    <3> QED
      BY <3>1, <3>2
  <2>2. p[1] = q[1]
    <3>1. IsInjective(hbatch[p[2]]) /\ hbatch[p[2]][p[1]] = e /\ hbatch[p[2]][q[1]] = e
      BY <1>6, <1>7, <2>1
    <3> QED
      BY <1>7, <2>1, <3>1 DEF IsInjective
  <2> QED
    BY <2>1, <2>2
<1>9. H # {} <=> stage[e] = "taken"
  <2>1. ASSUME H # {} PROVE stage[e] = "taken"
    BY <1>7, <2>1, RoutedTaken
  <2>2. ASSUME stage[e] = "taken" PROVE H # {}
    <3>1. PICK h \in Handlers : e \in ToSet(hbatch[h])
      BY <2>2, PubParts DEF BatchesInv
    <3>2. PICK i \in DOMAIN hbatch[h] : hbatch[h][i] = e
      BY <3>1 DEF ToSet
    <3>3. i \in 1 .. BatchSize /\ i <= Len(hbatch[h])
      BY <1>6, <3>2
    <3>4. <<i, h>> \in H
      BY <3>2, <3>3
    <3> QED
      BY <3>4
  <2> QED
    BY <2>1, <2>2
<1>10. R # {} \/ C # {} <=> stage[e] = "queued"
  BY <1>2, <1>3, <1>4
<1>11. ~ (R # {} /\ C # {})
  BY <1>2, <1>3, <1>4
<1> HIDE DEF R, C, H
<1>12. \A x, y \in Places(e) : x = y
  <2>1. \A x \in R \X {"regular"} : R # {} /\ x[1] \in R /\ x = <<x[1], "regular">>
    OBVIOUS
  <2>2. \A x \in C \X {"critical"} : C # {} /\ x[1] \in C /\ x = <<x[1], "critical">>
    OBVIOUS
  <2>3. \A x, y \in R \X {"regular"} : x = y
    BY <1>5, <2>1
  <2>4. \A x, y \in C \X {"critical"} : x = y
    BY <1>5, <2>2
  <2> QED
    BY <1>1, <1>8, <1>9, <1>10, <1>11, <2>1, <2>2, <2>3, <2>4
<1>13. Places(e) # {} <=> stage[e] \in {"queued", "taken"}
  <2>1. R \X {"regular"} # {} <=> R # {}
    <3>1. \A i \in R : <<i, "regular">> \in R \X {"regular"}
      OBVIOUS
    <3> QED
      BY <3>1
  <2>2. C \X {"critical"} # {} <=> C # {}
    <3>1. \A i \in C : <<i, "critical">> \in C \X {"critical"}
      OBVIOUS
    <3> QED
      BY <3>1
  <2>3. Places(e) # {} <=> R # {} \/ C # {} \/ H # {}
    BY <1>1, <2>1, <2>2
  <2> QED
    BY <1>9, <1>10, <2>3
<1>14. CASE Places(e) = {}
  BY <1>13, <1>14, FS_EmptySet
<1>15. CASE Places(e) # {}
  <2>1. PICK x \in Places(e) : Places(e) = {x}
    BY <1>12, <1>15
  <2> QED
    BY <1>13, <1>15, <2>1, FS_Singleton
<1> QED
  BY <1>14, <1>15

LEMMA DeliveryFollows ==
  ASSUME PubInv
  PROVE  DeliveredAsSubscribed
<1> SUFFICES ASSUME NEW e \in PubEvents, NEW s \in Subs \ OverWs
             PROVE  copies[e][s] <= (IF KeyOf[e] \in Filters[s] THEN 1 ELSE 0)
  BY PubParts DEF DeliveredAsSubscribed, HandledInv
<1>1. copies[e][s] \in {0, 1} /\ (copies[e][s] = 1 => <<e, s>> \in handedOver)
  BY PubParts DEF KafkaInv
<1>2. <<e, s>> \in handedOver => KeyOf[e] \in Filters[s]
  <2>1. <<e, s>>[1] = e /\ <<e, s>>[2] = s
    OBVIOUS
  <2> QED
    BY <2>1, PubParts DEF PairsInv
<1> QED
  BY <1>1, <1>2

\* The invariant of the publisher's handlers, channels and router holds in
\* every reachable state.
THEOREM PublisherInvariant == PubSpec => []PubInv
<1>1. PubInit => PubInv
  BY PubInitial
<1>2. PubInv /\ [PubNext]_pubVars => PubInv'
  BY PubStep
<1> QED
  BY <1>1, <1>2, PTL DEF PubSpec

\* The queues and the handlers' batches stay within their capacities, and a
\* handler never routes past the end of its batch.
THEOREM PubTypeCorrect == PubSpec => []PubTypeOK
<1>1. PubInv => PubTypeOK
  BY DEF PubInv
<1> QED
  BY <1>1, PublisherInvariant, PTL

\* Workers and batch processor partition the accepted events: each is in
\* exactly one queue or batch until it is handled, whatever the capacities and
\* however many handlers compete.
THEOREM AcceptedOnceHolds == PubSpec => []AcceptedOnce
<1>1. PubInv => AcceptedOnce
  BY PlacesCounted
<1> QED
  BY <1>1, PublisherInvariant, PTL

\* The route cache, looked up outside the router's lock while subscriptions
\* come and go, hides no subscription without a TimeRange from an event it was
\* made for, and Kafka subscribers get an event at most once and only one that
\* their filters on type, severity, entity and user match.
THEOREM DeliveredAsSubscribedHolds == PubSpec => []DeliveredAsSubscribed
<1>1. PubInv => DeliveredAsSubscribed
  BY DeliveryFollows
<1> QED
  BY <1>1, PublisherInvariant, PTL
=============================================================================
