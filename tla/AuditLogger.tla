---------------------------- MODULE AuditLogger ----------------------------
(***************************************************************************)
(* The audit logger: LogEvent fills a bounded buffer, which the event      *)
(* workers and the batch coordinator drain concurrently; the batches go    *)
(* through a second buffer to the batch workers.  Every one of them stores *)
(* what it holds with StoreBatch, which numbers the events and links them  *)
(* into the hash chain of the audit_events table, and then publishes it.   *)
(*                                                                         *)
(* The in-memory chain of computeBatchHashChain is left out: it does not   *)
(* make an event immutable, so StoreBatch numbers and hashes it again.     *)
(***************************************************************************)
EXTENDS Integers, Sequences, FiniteSets, SequencesExt

CONSTANTS
  Events,         \* the events callers log
  Workers,        \* event workers
  BatchWorkers,   \* batch workers
  Coordinator,    \* the batch coordinator
  BufferSize,     \* capacity of eventBuffer
  BatchSize,      \* the size at which a batch is sent
  Threshold,      \* failures that open the circuit
  Faults,         \* whether hashing or storing may fail
  MaxCrashes      \* bound: process crashes

ASSUME SizeAssumption ==
  BufferSize \in Nat \ {0} /\ BatchSize \in Nat \ {0} /\ Threshold \in Nat \ {0}
ASSUME CrashAssumption == MaxCrashes \in Nat /\ Faults \in BOOLEAN
ASSUME WorkerAssumption == IsFiniteSet(BatchWorkers)

\* The capacity of batchBuffer.
QueueSize == 2 * Cardinality(BatchWorkers)

Processors == Workers \cup BatchWorkers \cup {Coordinator}

VARIABLES
  running,     \* cleared by Close, which then cancels the context
  cancelled,   \* the context is done
  caller,      \* how far the LogEvent call of each event is
  buffer,      \* eventBuffer
  batch,       \* the batch the coordinator is filling
  queue,       \* batchBuffer
  flushing,    \* a FlushEvents goroutine is draining eventBuffer
  pc, work,    \* the next step of each processor, and the events it holds
  exiting,     \* the coordinator returns after the batch it holds
  base, prev,  \* what StoreBatch read: the highest number, the latest hash
  circuit, failed, blocked,  \* the circuit breaker; blocked: before nextRetry
  trail,       \* the audit_events table, a set of rows
  published,   \* events handed to the publisher
  crashes

lifecycle == <<running, cancelled, crashes>>
channels == <<buffer, batch, queue, flushing>>
processing == <<pc, work, exiting>>
store == <<base, prev, trail, published>>
breaker == <<circuit, failed, blocked>>
vars == <<lifecycle, caller, channels, processing, store, breaker>>

First == 1   \* FirstSequenceNumber, the highest number of an empty table

\* A hash stands for all it was computed from: the event, its number, and the
\* previous hash.  The empty sequence is the hash before the first event.
Hash == Seq(Events \X Nat)
NoHash == << >>
HashOf(e, n, previous) == Append(previous, <<e, n>>)

Numbers(rows) == {r.number : r \in rows}
Highest(rows) == IF rows = {} THEN First ELSE Max(Numbers(rows))
LatestHash(rows) == IF rows = {} THEN NoHash ELSE (CHOOSE r \in rows : r.number = Highest(rows)).hash

\* The hash after linking the first i events of es, numbered from n + 1.
ChainHash(es, n, previous) ==
  LET h[i \in 0 .. Len(es)] == IF i = 0 THEN previous ELSE HashOf(es[i], n + i, h[i - 1])
  IN  h
Rows(es, n, previous) ==
  {[event |-> es[i], number |-> n + i,
    previous |-> ChainHash(es, n, previous)[i - 1],
    hash |-> ChainHash(es, n, previous)[i]] : i \in 1 .. Len(es)}

Init ==
  /\ running = TRUE
  /\ cancelled = FALSE
  /\ buffer = << >> /\ batch = << >> /\ queue = << >>
  /\ flushing = FALSE
  /\ pc = [p \in Processors |-> "idle"]
  /\ work = [p \in Processors |-> << >>]
  /\ exiting = FALSE
  /\ base = [p \in Processors |-> 0]
  /\ prev = [p \in Processors |-> NoHash]
  /\ circuit = "closed" /\ failed = 0 /\ blocked = FALSE
  /\ caller = [e \in Events |-> "new"]
  /\ trail = {} /\ published = {}
  /\ crashes = 0

-----------------------------------------------------------------------------
(* LogEvent, FlushEvents and Close *)

\* The running check, before the event is built, enriched and validated.
LogEvent(e) ==
  /\ caller[e] = "new"
  /\ running
  /\ caller' = [caller EXCEPT ![e] = "checked"]
  /\ UNCHANGED <<lifecycle, channels, processing, store, breaker>>

BufferEvent(e) ==
  /\ caller[e] = "checked"
  /\ Len(buffer) < BufferSize
  /\ buffer' = Append(buffer, e)
  /\ caller' = [caller EXCEPT ![e] = "buffered"]
  /\ UNCHANGED <<lifecycle, batch, queue, flushing, processing, store, breaker>>

\* The buffer is full: the event is dropped or, without graceful degradation,
\* refused.
DropEvent(e) ==
  /\ caller[e] = "checked"
  /\ Len(buffer) = BufferSize
  /\ caller' = [caller EXCEPT ![e] = "dropped"]
  /\ UNCHANGED <<lifecycle, channels, processing, store, breaker>>

FlushEvents ==
  /\ ~flushing
  /\ flushing' = TRUE
  /\ UNCHANGED <<lifecycle, caller, buffer, batch, queue, processing, store, breaker>>

\* "Event processed": it is received and let go.
FlushTakes ==
  /\ flushing
  /\ buffer # << >>
  /\ buffer' = Tail(buffer)
  /\ UNCHANGED <<lifecycle, caller, batch, queue, flushing, processing, store, breaker>>

FlushTimeout ==
  /\ flushing
  /\ flushing' = FALSE
  /\ UNCHANGED <<lifecycle, caller, buffer, batch, queue, processing, store, breaker>>

Close ==
  /\ running
  /\ running' = FALSE
  /\ UNCHANGED <<cancelled, crashes, caller, channels, processing, store, breaker>>

Cancel ==
  /\ ~running /\ ~cancelled
  /\ cancelled' = TRUE
  /\ UNCHANGED <<running, crashes, caller, channels, processing, store, breaker>>

-----------------------------------------------------------------------------
(* The event workers, the coordinator and the batch workers *)

TakeEvent(w) ==
  /\ pc[w] = "idle"
  /\ buffer # << >>
  /\ buffer' = Tail(buffer)
  /\ work' = [work EXCEPT ![w] = <<Head(buffer)>>]
  /\ pc' = [pc EXCEPT ![w] = "execute"]
  /\ UNCHANGED <<lifecycle, caller, batch, queue, flushing, exiting, store, breaker>>

TakeBatch(b) ==
  /\ pc[b] = "idle"
  /\ queue # << >>
  /\ queue' = Tail(queue)
  /\ work' = [work EXCEPT ![b] = Head(queue)]
  /\ pc' = [pc EXCEPT ![b] = "execute"]
  /\ UNCHANGED <<lifecycle, caller, buffer, batch, flushing, exiting, store, breaker>>

\* sendBatch: the batch is queued, or stored by the coordinator itself when the
\* queue is full; either way a new one is begun.  With exits, the coordinator
\* returns after it.  Its callers never pass an empty batch.
SendBatch(es, exits) ==
  /\ batch' = << >>
  /\ exiting' = exits
  /\ IF Len(queue) < QueueSize
     THEN /\ queue' = Append(queue, es)
          /\ pc' = [pc EXCEPT ![Coordinator] = IF exits THEN "stopped" ELSE "idle"]
          /\ UNCHANGED work
     ELSE /\ work' = [work EXCEPT ![Coordinator] = es]
          /\ pc' = [pc EXCEPT ![Coordinator] = "execute"]
          /\ UNCHANGED queue

\* Mutant: the coordinator goes on filling the batch it has just sent.
CollectEvent_KeepsBatch ==
  /\ pc[Coordinator] = "idle"
  /\ buffer # << >>
  /\ buffer' = Tail(buffer)
  /\ batch' = Append(batch, Head(buffer))
  /\ queue' = IF Len(batch') >= BatchSize /\ Len(queue) < QueueSize THEN Append(queue, batch') ELSE queue
  /\ UNCHANGED <<processing, lifecycle, caller, flushing, store, breaker>>

CollectEvent ==
  /\ pc[Coordinator] = "idle"
  /\ buffer # << >>
  /\ buffer' = Tail(buffer)
  /\ LET es == Append(batch, Head(buffer))
     IN  IF Len(es) >= BatchSize THEN SendBatch(es, FALSE)
         ELSE batch' = es /\ UNCHANGED <<queue, processing>>
  /\ UNCHANGED <<lifecycle, caller, flushing, store, breaker>>

\* Mutant: the ticker sends what there is, be it nothing.
BatchTimeout_SendsEmpty ==
  /\ pc[Coordinator] = "idle"
  /\ SendBatch(batch, FALSE)
  /\ UNCHANGED <<lifecycle, caller, buffer, flushing, store, breaker>>

\* Mutant: the ticker waits for a full batch.
BatchTimeout_WhenFull ==
  /\ pc[Coordinator] = "idle"
  /\ Len(batch) >= BatchSize
  /\ SendBatch(batch, FALSE)
  /\ UNCHANGED <<lifecycle, caller, buffer, flushing, store, breaker>>

BatchTimeout ==
  /\ pc[Coordinator] = "idle"
  /\ batch # << >>
  /\ SendBatch(batch, FALSE)
  /\ UNCHANGED <<lifecycle, caller, buffer, flushing, store, breaker>>

\* Mutant: the return is inside the test for a remaining batch.
CoordinatorStops_OnlyWithBatch ==
  /\ pc[Coordinator] = "idle"
  /\ cancelled
  /\ batch # << >>
  /\ SendBatch(batch, TRUE)
  /\ UNCHANGED <<lifecycle, caller, buffer, flushing, store, breaker>>

CoordinatorStops ==
  /\ pc[Coordinator] = "idle"
  /\ cancelled
  /\ IF batch # << >> THEN SendBatch(batch, TRUE)
     ELSE pc' = [pc EXCEPT ![Coordinator] = "stopped"] /\ UNCHANGED <<batch, queue, work, exiting>>
  /\ UNCHANGED <<lifecycle, caller, buffer, flushing, store, breaker>>

WorkerStops(p) ==
  /\ pc[p] = "idle"
  /\ cancelled
  /\ pc' = [pc EXCEPT ![p] = "stopped"]
  /\ UNCHANGED <<lifecycle, caller, channels, work, exiting, store, breaker>>

-----------------------------------------------------------------------------
(* processBatch inside the circuit breaker's Execute *)

Goto(p, l) == pc' = [pc EXCEPT ![p] = l] /\ UNCHANGED <<work, exiting>>
Done(p) ==
  /\ pc' = [pc EXCEPT ![p] = IF p = Coordinator /\ exiting THEN "stopped" ELSE "idle"]
  /\ work' = [work EXCEPT ![p] = << >>]
  /\ base' = [base EXCEPT ![p] = 0]
  /\ prev' = [prev EXCEPT ![p] = NoHash]
  /\ UNCHANGED exiting

\* An open circuit refuses until nextRetry: the events are lost.
Refused(p) ==
  /\ pc[p] = "execute"
  /\ circuit = "open" /\ blocked
  /\ Done(p)
  /\ UNCHANGED <<lifecycle, caller, channels, trail, published, breaker>>

Admitted(p) ==
  /\ pc[p] = "execute"
  /\ ~(circuit = "open" /\ blocked)
  /\ Goto(p, "read")
  /\ UNCHANGED <<lifecycle, caller, channels, store, breaker>>

\* GetLatestSequenceNumber, on a connection of its own.
ReadNumber(p) ==
  /\ pc[p] = "read"
  /\ ~cancelled
  /\ base' = [base EXCEPT ![p] = Highest(trail)]
  /\ Goto(p, "readHash")
  /\ UNCHANGED <<lifecycle, caller, channels, prev, trail, published, breaker>>

\* getLatestHashTx: the transaction reads what is committed by now.
ReadHash(p) ==
  /\ pc[p] = "readHash"
  /\ ~cancelled
  /\ prev' = [prev EXCEPT ![p] = LatestHash(trail)]
  /\ Goto(p, "insert")
  /\ UNCHANGED <<lifecycle, caller, channels, base, trail, published, breaker>>

\* Mutant: the rows are inserted without the check for a taken number.
Insert_NoUnique(p) ==
  /\ pc[p] = "insert"
  /\ ~cancelled
  /\ trail' = trail \cup Rows(work[p], base[p], prev[p])
  /\ Goto(p, "publish")
  /\ UNCHANGED <<lifecycle, caller, channels, base, prev, published, breaker>>

\* The inserts and the commit.  A number that is already in the table violates
\* its unique constraint, and the whole batch fails.
Conflict(p) == Numbers(Rows(work[p], base[p], prev[p])) \cap Numbers(trail) # {}

Insert(p) ==
  /\ pc[p] = "insert"
  /\ ~cancelled
  /\ ~Conflict(p)
  /\ trail' = trail \cup Rows(work[p], base[p], prev[p])
  /\ Goto(p, "publish")
  /\ UNCHANGED <<lifecycle, caller, channels, base, prev, published, breaker>>

\* The commit takes effect, but its answer is lost or too late: StoreBatch
\* returns an error for rows that are in the table.
CommitUnacknowledged(p) ==
  /\ Faults
  /\ pc[p] = "insert"
  /\ ~Conflict(p)
  /\ trail' = trail \cup Rows(work[p], base[p], prev[p])
  /\ Goto(p, "failed")
  /\ UNCHANGED <<lifecycle, caller, channels, base, prev, published, breaker>>

\* Mutant: the error of StoreBatch is logged, and processBatch goes on.
StoreFails_GoesOn(p) ==
  /\ pc[p] \in {"read", "readHash", "insert"}
  /\ Faults \/ cancelled \/ (pc[p] = "insert" /\ Conflict(p))
  /\ Goto(p, "publish")
  /\ UNCHANGED <<lifecycle, caller, channels, store, breaker>>

\* Hashing fails, the database does, a number is taken, or the context is done.
StoreFails(p) ==
  /\ pc[p] \in {"read", "readHash", "insert"}
  /\ Faults \/ cancelled \/ (pc[p] = "insert" /\ Conflict(p))
  /\ Goto(p, "failed")
  /\ UNCHANGED <<lifecycle, caller, channels, store, breaker>>

\* The cache and the publisher; their errors are only logged.
Publish(p, es) ==
  /\ pc[p] = "publish"
  /\ published' = published \cup es
  /\ Goto(p, "succeeded")
  /\ UNCHANGED <<lifecycle, caller, channels, base, prev, trail, breaker>>

\* Execute counts a failure and opens a closed circuit at the threshold.
RecordFailure(p) ==
  /\ pc[p] = "failed"
  /\ Done(p)
  /\ failed' = IF failed < Threshold THEN failed + 1 ELSE failed
  /\ IF failed' >= Threshold /\ circuit = "closed"
     THEN circuit' = "open" /\ blocked' = TRUE
     ELSE UNCHANGED <<circuit, blocked>>
  /\ UNCHANGED <<lifecycle, caller, channels, trail, published>>

RecordSuccess(p) ==
  /\ pc[p] = "succeeded"
  /\ Done(p)
  /\ IF circuit = "open"
     THEN circuit' = "closed" /\ failed' = 0 /\ blocked' = FALSE
     ELSE UNCHANGED breaker
  /\ UNCHANGED <<lifecycle, caller, channels, trail, published>>

RetryTimeReached ==
  /\ blocked
  /\ blocked' = FALSE
  /\ UNCHANGED <<lifecycle, caller, channels, processing, store, circuit, failed>>

\* The process dies and is started again: only the database keeps its state.
Crash ==
  /\ crashes < MaxCrashes
  /\ crashes' = crashes + 1
  /\ running' = TRUE
  /\ cancelled' = FALSE
  /\ buffer' = << >> /\ batch' = << >> /\ queue' = << >>
  /\ flushing' = FALSE
  /\ pc' = [p \in Processors |-> "idle"]
  /\ work' = [p \in Processors |-> << >>]
  /\ exiting' = FALSE
  /\ base' = [p \in Processors |-> 0]
  /\ prev' = [p \in Processors |-> NoHash]
  /\ circuit' = "closed" /\ failed' = 0 /\ blocked' = FALSE
  /\ caller' = [e \in Events |-> IF caller[e] = "checked" THEN "lost" ELSE caller[e]]
  /\ UNCHANGED <<trail, published>>

-----------------------------------------------------------------------------

Clients ==
  \/ \E e \in Events : LogEvent(e) \/ BufferEvent(e) \/ DropEvent(e)
  \/ FlushEvents \/ FlushTakes \/ FlushTimeout
  \/ Close

Process(p) ==
  \/ Refused(p) \/ Admitted(p)
  \/ ReadNumber(p) \/ ReadHash(p) \/ Insert(p) \/ CommitUnacknowledged(p) \/ StoreFails(p)
  \/ \E es \in SUBSET ToSet(work[p]) : Publish(p, es)
  \/ RecordFailure(p) \/ RecordSuccess(p)

RunWorker(w) == TakeEvent(w) \/ WorkerStops(w) \/ Process(w)
RunBatchWorker(b) == TakeBatch(b) \/ WorkerStops(b) \/ Process(b)
RunCoordinator == CollectEvent \/ BatchTimeout \/ CoordinatorStops \/ Process(Coordinator)

Next ==
  \/ Clients
  \/ Cancel
  \/ \E w \in Workers : RunWorker(w)
  \/ \E b \in BatchWorkers : RunBatchWorker(b)
  \/ RunCoordinator
  \/ RetryTimeReached
  \/ Crash

Spec == Init /\ [][Next]_vars

\* The goroutines are scheduled and the database answers or times out; the
\* batch ticker is one of the coordinator's cases.  Nothing is assumed of the
\* clients, of the flushers or of the order in which select serves its cases.
Fairness ==
  /\ WF_vars(Cancel)
  /\ \A w \in Workers : WF_vars(RunWorker(w))
  /\ \A b \in BatchWorkers : WF_vars(RunBatchWorker(b))
  /\ WF_vars(RunCoordinator)

FairSpec == Spec /\ Fairness

-----------------------------------------------------------------------------

Steps == {"idle", "execute", "read", "readHash", "insert", "publish", "failed", "succeeded", "stopped"}

\* The channels stay within their capacities, no batch that is queued is empty,
\* a processor holds events exactly while it works, and the coordinator only starts to exit when the context of
\* Close is done.
TypeOK ==
  /\ running \in BOOLEAN /\ cancelled \in BOOLEAN /\ (cancelled => ~running)
  /\ caller \in [Events -> {"new", "checked", "buffered", "dropped", "lost"}]
  /\ buffer \in Seq(Events) /\ Len(buffer) <= BufferSize
  /\ batch \in Seq(Events) /\ Len(batch) < BatchSize
  /\ queue \in Seq(Seq(Events) \ {<< >>}) /\ Len(queue) <= QueueSize
  /\ flushing \in BOOLEAN
  /\ pc \in [Processors -> Steps]
  /\ work \in [Processors -> Seq(Events)]
  /\ \A p \in Processors : work[p] = << >> <=> pc[p] \in {"idle", "stopped"}
  /\ exiting \in BOOLEAN /\ (exiting => cancelled)
  /\ base \in [Processors -> Nat] /\ prev \in [Processors -> Hash]
  /\ circuit \in {"closed", "open"} /\ failed \in 0 .. Threshold /\ blocked \in BOOLEAN
  /\ trail \subseteq [event : Events, number : Nat, previous : Hash, hash : Hash]
  /\ \A r \in trail : r.number > First
  /\ published \subseteq Events
  /\ crashes \in 0 .. MaxCrashes

\* Where an event still waits to be stored, each place as often as it is there.
Occurrences(e, s) == Cardinality({i \in 1 .. Len(s) : s[i] = e})
Waiting(p) == IF pc[p] \in {"execute", "read", "readHash", "insert"} THEN work[p] ELSE << >>
Copies(e) ==
  Occurrences(e, buffer \o batch \o FlattenSeq(queue))
    + Cardinality({p \in Processors : e \in ToSet(Waiting(p))})
    + Cardinality({r \in trail : r.event = e})

\* An event the callers logged once is never in two places: workers and
\* coordinator compete for it, a batch that did not fit the queue is stored by
\* the coordinator, and no failure makes a stored event be stored again.
OneCopy == \A e \in Events : Copies(e) <= 1

\* Subscribers only ever hear of an event that is in the audit trail, whatever
\* failed and wherever the process died: processBatch returns before the
\* publisher when the store fails.
PublishedIsStored == published \subseteq {r.event : r \in trail}

\* What VerifyChainIntegrity expects of the table: consecutive numbers, and
\* every row linked to the hash of the row before it, although number and hash
\* are read separately, before and inside the transaction, and nothing locks
\* them until the insert.
TrailLinked ==
  /\ Numbers(trail) = First + 1 .. First + Cardinality(trail)
  /\ \A r \in trail :
       r.previous = LatestHash({q \in trail : q.number < r.number})

\* The inductive strengthening of OneCopy.  Its parts: no place holds an event
\* twice; the five kinds of place have no event in common; and only events
\* that were buffered are anywhere.
Queued == UNION {ToSet(queue[k]) : k \in 1 .. Len(queue)}
Working == UNION {ToSet(Waiting(p)) : p \in Processors}
Stored == {r.event : r \in trail}

DistinctInv ==
  /\ IsInjective(buffer) /\ IsInjective(batch)
  /\ \A k \in 1 .. Len(queue) : IsInjective(queue[k])
  /\ \A p \in Processors : IsInjective(Waiting(p))
  /\ \A k, l \in 1 .. Len(queue) : k # l => ToSet(queue[k]) \cap ToSet(queue[l]) = {}
  /\ \A p, q \in Processors : p # q => ToSet(Waiting(p)) \cap ToSet(Waiting(q)) = {}
  /\ \A r, q \in trail : r.event = q.event => r = q

PlacesInv ==
  /\ ToSet(buffer) \cap (ToSet(batch) \cup Queued \cup Working \cup Stored) = {}
  /\ ToSet(batch) \cap (Queued \cup Working \cup Stored) = {}
  /\ Queued \cap (Working \cup Stored) = {}
  /\ Working \cap Stored = {}
  /\ ToSet(buffer) \cup ToSet(batch) \cup Queued \cup Working \cup Stored
       \subseteq {e \in Events : caller[e] = "buffered"}

\* What holds while the events of a processor are stored: the rows of a batch
\* about to be published are in the table.
StoredInv == \A p \in Processors : pc[p] = "publish" => ToSet(work[p]) \subseteq Stored

\* The inductive strengthening of TrailLinked.  A number that was read is never
\* above the highest; whoever read a number that is still the highest has the
\* latest hash, because any insert since would have raised it.
NumbersInv == IsFiniteSet(trail) /\ \A r, q \in trail : r.number = q.number => r = q

ReadInv ==
  \A p \in Processors :
    /\ pc[p] \in {"readHash", "insert"} => base[p] \in First .. Highest(trail)
    /\ pc[p] = "insert" /\ base[p] = Highest(trail) => prev[p] = LatestHash(trail)

TrailInv == NumbersInv /\ ReadInv /\ TrailLinked

Held(e) == Copies(e) = 1 /\ e \notin {r.event : r \in trail}

\* While the logger runs no event stays in its buffers, not even in a batch
\* that never fills: it is stored or given up.
EventsDrain == \A e \in Events : Held(e) ~> (~Held(e) \/ ~running)

Stopped == \A p \in Processors : pc[p] = "stopped"

\* The goroutines Close waits for all return, whatever they hold.
CloseCompletes == ~running ~> (Stopped \/ running)

\* FlushEvents "forces immediate processing of buffered events": while the
\* process lives, an event that leaves the buffer is taken by a worker or by
\* the coordinator.
FlushProcesses ==
  [][\A e \in ToSet(buffer) :
       \/ e \in ToSet(buffer')
       \/ e \in ToSet(batch') \cup UNION {ToSet(q) : q \in ToSet(queue')}
       \/ \E p \in Processors : e \in ToSet(work'[p])
       \/ crashes' # crashes]_vars
=============================================================================
