# TLA+ models of the Dependable Call Exchange backend

The backend is a pay-per-call exchange in Go. Sellers bring calls, buyers bid on
them, an auction decides, the call is routed, carried and billed. Around this path
stand the legal requirements: do-not-call (DNC) checks, consent, and an audit trail
whose rows are linked by hashes. The services share a PostgreSQL database and
otherwise talk through goroutines, channels and timers. Most of their operations
read rows, compute, and write whole rows back without a version check. What can go
wrong is therefore mostly a matter of order, and a unit test fixes one order.

These modules model the parts that carry the exchange's own logic at the level of
the code's own steps: auctions, calls and their routing, consents, the DNC registry
and its breaker, the audit trail with its publisher, hubs, integrity service and
archive. TLC checks them, and the main results are proved with TLAPS. `PROJECT.json` ties every
definition to the lines it models, every property to a mutation of the code that
breaks it, and every hazard to its line.

## Inventory

| Component | State | Operations | Interacts with | Hard behaviour | What makes it correct |
|---|---|---|---|---|---|
| Auction engine (`service/bidding/auction.go`) | map call -> running auction; status, close timer and monitor of each | RunAuction, HandleNewBid, CloseAuction, finalizeAuction, two timers | bid repository; called by PlaceBid | finalizations of an auction overlap; timers race with bids; an update of several fails | one running auction per call, one highest winner, closed is final, an armed auction ends |
| Bidding service (`service/bidding/service.go`) | rate counters; rows in the table | PlaceBid, UpdateBid, CancelBid, ProcessExpiredBids | repositories, fraud check, auction engine | read, check, write back | a decided bid is not changed by a request |
| Bid repository | `bids` table | Create, Update, queries | all of bidding and routing | none of its own: no versions, no locks | status filters of the queries |
| DNC circuit breaker (`service/dnc/circuit_breaker.go`) | five atomics | Execute, Reset | DNC providers | every load and store interleaves | no missed trip, open ends, half-open ends |
| Audit logger (`service/audit/logger.go`, `types.go`) | two channels, workers, a batch, a circuit breaker | LogEvent, FlushEvents, Close, worker loops | audit repository, cache, publisher | competing consumers, full channels, shutdown, crash | no copy, nothing published unstored, buffers drain, Close ends |
| Audit repository (`database/audit_repository.go`) | `audit_events` | StoreBatch, queries, verification | logger | number and hash are read without a lock | consecutive numbers, linked hashes |
| Call routing (`service/callrouting`) | routing rules | RouteCall, UpdateRoutingRules | calls, bids, consent | accepts bids the auction decides too; writes the call unconditionally | a revoked number is not routed |
| Buyer routing, seller distribution, marketplace | tracked auctions | RouteCallToBuyer, DistributeCall, ProcessIncomingCall, ExecuteCallRouting | calls, bids, telephony | a conditional update among unconditional ones; failure between call and bid | one claim per call, one buyer named, a settled bid is final |
| Telephony, call lifecycle | active calls; `calls` table | Initiate, Terminate, GetCallStatus, Transfer, Bridge | provider, call repository | provider call between read and write; lost answers | a call shown as ended has ended |
| Consent (`service/consent`) | consumers, aggregates, versions | Grant, Revoke, Update, Check, Import | repositories, event publisher, call routing | get, modify, save | versions are evidence; the pointer is sound; an uncontested revocation holds |
| DNC registry (`service/dnc`, its two repositories) | entries by source, providers | add, remove, update, bulk writes, cleanup, sync | providers, caches | partial upserts, soft deletes, crash in a sync | a number stays suppressed as asked; a late request undoes nothing; syncing ends |
| Event publishing (`infrastructure/events`) | two queues, batch, subscriptions, route cache, backpressure | Publish, Subscribe, Unsubscribe, Close | transports, audit logger | competing consumers, full queues, stale routes, cancelled callers, shutdown | an accepted event is held once and handled; no subscription hidden |
| WebSocket hubs (`api/websocket`, `api/rest/websocket_handler.go`) | clients, send channels | register, broadcast, ping, cleanup, shutdown, pumps | services that broadcast | channels closed while others send | the hub does not panic; dead clients leave |
| Audit integrity (`service/audit/integrity.go`, `scheduler.go`, `worker_pool.go`) | two channels, workers, ticker | Start, Stop, periodic checks | audit repository | Stop does not wait for two loops; restart on closed channels | only those loops may panic; Stop ends |
| Archive (`infrastructure/archive`) | rows, S3 files, manifests | ArchiveEvents, DeleteExpiredArchives, restore, verify | audit repository, S3 | crash or failure between upload, manifest and marking | a marked row is stored; duplicates have a cause |
| Accounts, financial | balances, transactions | UpdateBalance, transfers | `accounts` rows under locks | repeatable read, retries | no money created |
| Caches, sessions, rate limiter | Redis | Allow, Get, Set | everything | windows, expiry | limit per window |
| DNC performance layer | worker pool, caches | submit, dispatch, recycle | nothing wires it | queue closed while in use | tasks are not lost |
| Dead letters, webhooks, streaming, alerts | queues, sessions | add, retry, stream | transports | retries, full queues | a failed event is kept |
| Bid orchestration services | windows, limits | alternative bidding path | not wired by the factories | as the auction engine | as the auction engine |
| Compliance, fraud, analytics, queries, exports | little or none | rules, scores, reports | repositories | little | their algorithms |
| REST, middleware, commands, configuration, telemetry | - | transport and start-up | services | request contexts end early | - |

## Modules

| Module | What it is |
|---|---|
| `AuctionOutcome` | abstract specification: an auction declares at most one winner, and none once closed |
| `Auction` | the bids of one call, the bidding service and the auction engine |
| `MCAuction` | its TLC instances |
| `AuctionProofs` | its theorems |
| `DncCircuitBreaker` | the DNC breaker of one provider, atomic by atomic |
| `MCDncCircuitBreaker`, `DncCircuitBreakerProofs` | its TLC instances, its theorems |
| `AuditLogger` | the audit logger with the store below it |
| `MCAuditLogger`, `AuditLoggerProofs` | its TLC instances, its theorems |
| `Consent` | the consent service over its three tables |
| `CallExchange` | the calls table with routing, marketplace, distribution and telephony; composed with `Consent`, whose CheckConsent RouteCall asks |
| `DncRegistry` | suppression entries of a number and the providers they come from |
| `AuditPublisher` | the audit event publisher, its router and transports |
| `AuditPublisherProofs` | its theorems |
| `EventHub` | the WebSocket hubs, in three flavours |
| `AuditArchive` | rows, files and manifests of the audit archive |
| `IntegrityService` | Start, Stop, loops and worker pool of the integrity service |
| `MCServices` | TLC instance of the read, work and write-back services, one profile per component and one for the composition |
| `MCProgress` | TLC instance of the goroutines that hand events on, with fairness |
| `CallExchangeProofs` | theorems about the consents, the calls and the two composed |
| `ServicesProofs` | theorems about the DNC registry, the archive and the specification of `MCServices` |
| `ProgressProofs` | theorems about the hubs, the integrity service and the specification of `MCProgress` |
| `SequenceFacts` | lemmas about sequences without repetition, and induction over the naturals |

### Auction

`db` is the bids table restricted to one call; calls share only the engine's map,
which is keyed by call. `registered` is the map entry, and the auction objects are
numbered in the order of their allocation because the interesting races are between
an auction and its successor. A goroutine is either a *run* (it executes
finalizeAuction for the close timer, the maximum-duration timer or CloseAuction) or
a *session* (it serves PlaceBid, UpdateBid, CancelBid or ProcessExpiredBids). `pc`,
`target` and `rows` are their local state: the next step, the auction they hold a
pointer to, and the copies of rows they have read. Each repository call and each
critical section is one step. The engine's two locks are released between the steps.

`decided` is a history variable: the rows each auction's finalizations wrote.
sort.Slice is not stable, so any of the highest bids may come first. A repository
error is a separate action (`FinalizeFails`, `RejectLoserFails`, `PlaceBidFails`,
the second case of `WriteRow`), allowed when `Faults` is TRUE. CloseAuction and
ProcessExpiredBids are in the service interfaces although only tests call them
today. The rate counter and the fraud check of PlaceBid only refuse requests and
are left out; a bid is placed with the default duration.

`Exclusive` names a timing assumption. finalizeAuction tests for "closed" only, so
two triggers may run it at once. They are five seconds (closeDelay) or more apart
unless a bid arrives at the wrong moment or CloseAuction is called, while a
finalization takes a few database calls. With `Exclusive` TRUE a run enters only
when no other run of its auction is in progress. Some properties hold only then,
and `auction_two_open` shows that this is not an accident of the model.

### DncCircuitBreaker

The fields of the breaker are atomics that Execute and Reset load and store one at
a time; so every load, store, add and compare-and-swap is an action. `elapsed` is the
time since lastFailureTime, cut off just beyond the timeout. Reset holds a mutex, but
only against other Resets, and is five steps. checkShouldOpen's early return on the
failure threshold makes it skip only a comparison with the total it already loaded,
so both causes lead to one `Trip`. The map of breakers by provider and the callbacks
are not modelled.

### AuditLogger

LogEvent is two steps (the running test, then the channel send or drop), because a
Close fits in between. Event workers and the coordinator compete for `buffer`; the
coordinator sends batches to `queue`, or stores one itself when the queue is full.
All of them end in processBatch under the logger's own circuit breaker. StoreBatch is
three steps: the highest number (read on another connection), the latest hash (read
inside the transaction), and the inserts with the commit. A hash is modelled by what
it is computed from, so two rows have one hash only if they agree on everything
below them. The unique number of the migration makes a commit fail when the number is
taken; the model takes the constraint as declared in
`migrations/20250114_audit_events_partitioned.sql` (the table is partitioned by
timestamp, and PostgreSQL accepts a unique constraint on a partitioned table only
if it contains the partition key, so the deployed constraint deserves a look:
`TrailLinked` rests on it). The in-memory chain of computeBatchHashChain does not
make an event immutable, so StoreBatch numbers and hashes again; that chain and its
cache entry are left out. A crash keeps the table and what was published, and
nothing else. Faults covers hashing errors, database errors and
timeouts, and a commit that takes effect although its answer is lost
(`CommitUnacknowledged`).

### Consent

One phone number and one consent type. A request reads the aggregate (`cagg`, `cver`),
appends versions to its copy (`cnew`) and saves. Save updates the row, which locks
it, and inserts the versions whose numbers have no row: a number somebody else took
meanwhile is skipped without an error, and the pointer moves to the copy's last
number. `withdrawn`, `alone` and `overtaken` are history: an acknowledged revocation
with no grant under way since it began, and whether a save found a number taken or
the number has more than one consumer or aggregate. An unconditional "an acknowledged
revocation holds" is false: a stale grant or update saved after it moves the pointer
to a granted version. What holds is `UncontestedRevocationHolds`. An update's new
versions carry proofs whose ids are already primary keys, so its save commits only
when it inserts nothing (`UpdateSave`). GetByConsumerAndType and its siblings have no
implementation in the repository and are external.

### CallExchange

A request goroutine (`xpc`, `xop`) holds a copy of the row (`xbuyer`, `xsid`, `xst`)
and writes the whole copy back; only RouteCallToBuyer's write is conditional
(UpdateWithStatusCheck). `leg` is the provider's side. A provider call may take effect
although its answer is lost (`DialFails`, `HangupFails`). mapProviderStatus turns a
status it does not list into pending, and a stored canceled comes back as failed:
both conversions are modelled. The buyer routers dereference the seller of the call, so
a call without one makes them panic, and the request ends (`GiveUp`). ExecuteCallRouting
ends by handing the call to telephony, whose answer it stores nowhere (`HandOver`).

The bids have writers of their own. A bidding request builds or reads rows
(`PlaceBid`, `ProcessBuyerBid`, `EditBid`, `ProcessExpiredBids`) and writes them later
(`WriteBid`, which may fail); an auction reads the open bids, stores the winner and
then each loser (`AuctionReads`, `AuctionAccepts`, `AuctionRejects`). Every one of
these writes is unconditional. `Auction` models the engine and its overlaps in full;
here an auction is a writer that races with the routers. PlaceBid's bid is active,
ProcessBuyerBid's pending.

Facts the model shows and no property hides: RouteCall's unconditional write lets a
call have two winning bids; a loser written late by an auction, or a stale edit, takes
the won status from the bid of the buyer the call names, which is why the properties
are about what buyer routing accepted (`OneBuyerNamed`) and about bids of which nobody
holds a copy any more (`SettledBidIsFinal`); a late poll can reopen a terminated row; a
failing update after Dial leaves a leg nobody knows; seller distribution refuses exactly
the calls ProcessSellerCall sends it, so no auction is ever tracked and
HandleAuctionCompletion finds none; RouteID is never stored; the calls buyer routing can
claim have no SID, so that no poll makes a claimed call pending again (`ClaimedOnce`).

### DncRegistry

Rows by list source for one number. Save and Upsert write every column except
deleted_at, hence `released`: a number that was removed and added again is not
suppressed although the addition is acknowledged, and `SuppressedAsAsked` leaves it
out. The same clause is what keeps an UpdateSuppressionEntry that read its row before a
removal from bringing the entry back; that, and that a removal spares a row inserted
since it was decided, is `LateRequestsKeepRows`. A provider's last_sync_at is not
written either, so NeedsSync depends on the status alone. `DncCrash` ends every
goroutine and keeps the tables. Only the internal provider type is implemented; the
others end in error.

### AuditPublisher

Publish waits for backpressure, then offers the event to a queue. Workers and the
batch processor receive from the same regular queue. A caller whose context ends while
it is delayed or enqueues is refused (`WaitCancelled`, `EnqueueCancelled`). Route looks
into its cache first (`LookUp`) and takes the router's lock after (`RouteEvent`), so
subscriptions may come and go in between. `KeyOf` is what the cache key holds of an
event: type, severity, entity and user. `Filters` is, of each subscription, the keys for
which an index leads to it and its filters agree; a subscription with nothing but a
TimeRange or custom filters is in no index and has none, and custom filters are not
evaluated. `InRange` is its TimeRange, which the key knows nothing of: a cached route
can hide such a subscription from an event in range, or bring it one out of range, so
`DeliveredAsSubscribed` is about the others. A batch goes over WebSocket as one message
to every subscriber it concerns, so a WebSocket subscriber may get events it does not
want and get them twice; `DeliveredAsSubscribed` claims single delivery for Kafka
only. A failed send is never retried. Depth is given back when the caller's context
ends, because Release has no caller.

### EventHub

The audit and DNC hubs share one structure ("stream": Run beside a client manager, a
broadcaster, a health monitor and a cleanup worker), the consent and REST hubs have
one loop each. Broadcasts pick any subset of clients (roles and filters). A panic ends
the process. Unregistering closes the client's channel, on which the client's own
ReadPump, or the REST handler's welcome, may still send: that panic exists and is
recorded in `panicked`; the hub's own sends and closes never panic. Stop of the stream
hubs closes a channel only HealthCheck reads, and Stop of the consent hub leaves its
clients as they are. Not modelled: the REST hub ranges over a topic's client map after
it has released subMu (`websocket_handler.go:510-527`), while subscribe and unsubscribe
write that map; Go may end the process for it.

### AuditArchive

Events are numbered by age. An archiver reads the oldest unmarked batch, uploads file
and manifest and marks the rows; a failed marking is only logged, and the loop archives
the same rows again. (Under the migration `20250114` the marking names a column that
does not exist, so it always fails there.) Retention deletes an archive by the age of
its first event. A crash is `ArchiverFails` or `DeleterStops`.

### IntegrityService

Every Start is a life with its own scheduler and background loop; context and channels
are made once, so after a Stop they stay cancelled and closed. Stop holds the mutex,
waits for the pool and not for the two loops. `crashed` names the goroutine whose panic
ended the process.

Two of the packages do not compile as they are: `infrastructure/events` declares a
generic method (`event_router.go:307`), and `service/audit` uses counters that WorkerPool
does not have (`worker_pool.go:95`, `integrity.go:108-115`). `AuditPublisher`,
`AuditLogger` and `IntegrityService` follow what those lines are evidently meant to do: remove a
subscription from an index, and count tasks.

## Runs

| Run | Bounds | What it shows |
|---|---|---|
| `auction_races` | 2 bids, 2 auctions, 2 runs, 1 session, errors, edits, overlapping runs | types and references; a closed auction is not left in the map; closed is final |
| `auction_prompt` | 2 bids, 2 amounts, 2 sessions, clock to 1, errors, exclusive runs | one running auction, one highest winner, no bid decided by two auctions, refinement of `AuctionOutcome` |
| `auction_live` | 2 bids, 2 auctions, clock to 2, no errors, exclusive runs | an armed auction closes |
| `auction_two_open` | 3 bids, 3 auctions, overlapping runs | **violated**: the second finalization deletes the next auction's entry |
| `auction_stale_edit` | as `auction_races` | **violated**: a stale edit overwrites a decided bid |
| `breaker_races` | 2 callers, thresholds 2, MaxRequests 3 | no missed trip; an open circuit ends |
| `breaker_stuck` | 2 callers, MaxRequests 4, no Reset | **violated**: half-open can refuse for ever |
| `audit_trail` | 3 events, 2 workers, 1 batch worker, buffer 2, batch 2, 1 crash, errors | one copy, published is stored, trail linked |
| `audit_live` | 3 events, 1 worker, 1 batch worker, threshold 1; stores fail by conflict or cancellation only, no crash | buffers drain, Close completes |
| `services` | seven profiles: 1 call, 2 bids, 2 requests and 1 of the bidding service, 3 operations; 2 consumers, 2 aggregates, 4 versions, 5 operations; the two composed with 3 consent and 2 call operations; 2 sources, 2 providers, 4 operations; 2 events, 2 archivers, 2 archives; 3 published events with 2 keys, 2 subscriptions, one with a TimeRange | what the tables and the route cache promise under stale copies, failures and crashes |
| `progress` | three profiles: 2 events, one critical, 2 subscriptions, queues of 1, batch of 2, thresholds of 1; 1 client, 2 broadcasts, buffers of 1, each flavour; 1 worker, 2 tasks, channels of 1, 2 lives | events held once and handled, no panic of the hub, causes of crashes; handlers, dead clients and Stop come to an end |
| `audit_flush` | as `audit_live`, with errors | **violated**: flushed events are discarded |

Two bids are the least that have a winner and a loser; two auctions the least where
one can be mistaken for its successor, and the third of `auction_two_open` is
the one that runs beside it. Two runs are what closeDelay, the maximum duration and
CloseAuction can make overlap in pairs. Two callers suffice for every pair of
atomics to interleave, and the breaker's thresholds of 2 need both. Three events fill
a buffer of 2, make a batch and leave one over; they also fill a queue of two batches
sent by the ticker, so that the coordinator stores the third. In `services` two
requests are a stale writer and the one that overtakes it, and the three operations of a
call its creation and theirs (the steps of bids and auctions are not counted); four versions let an
update append two over a re-grant; two aggregates and consumers are the least that
contest a number; a second archiver and a second id are the least that archive an
event twice; three published events are two that share a cached route and one that does
not. In `progress` buffers and thresholds of one are reached by two events,
and two lives are the least with a restart. Bids and requests are
interchangeable, so `services` uses symmetry over them (it checks no liveness). The theorems below hold
without the bounds.

Deadlock checking is off for the auction, where a call that is over and a stopped
clock leave nothing to do, for `breaker_stuck`, whose property is what matters, and
for `services` and `progress`, where operations are bounded and a process that
panicked takes no step.

### Fairness

`Auction`: a started goroutine runs on and an armed timer fires; the Go scheduler and
runtime timers give both. Nothing is assumed of requests, of the monitor (it ends with
its request) or of the clock. `DncCircuitBreaker`: goroutines run on, the HTTP
client's timeout ends every provider request, time passes, and checks keep arriving,
since every outbound call makes one; nobody has to call Reset. `AuditLogger`: Close
goes on to cancel, and each worker, batch worker and coordinator keeps running; its
store ends because of the write timeout. Nothing is assumed of the order in which
select serves its cases. `AuditPublisher`: handlers are scheduled, sends end by
SendTimeout, the batch ticker ticks. `EventHub`: a read reaches its deadline, the ping
ticker ticks, and the manager takes clients offered to it; nothing is assumed of the
write pumps or of broadcasts. `IntegrityService`: Stop, workers and the result
processor run on; nobody has to call Start or Stop, and the tickers need not tick.

### Disagreements found

* `auction_two_open`: finalizeAuction deletes by call, not by auction, so a call can
  have two running auctions despite RunAuction's check.
* `auction_stale_edit`: UpdateBid and CancelBid overwrite a decision made after their
  read.
* `breaker_stuck`: totals are not cleared on the way to half-open and a failing probe
  adds to them without opening the circuit again. The caller that ends the open period is
  let through whatever the total, the others only below MaxRequests; failing probes use
  up what is left, and from then on half-open refuses every request, for ever.
* `audit_flush`: FlushEvents discards what it is to process.

Two more have no run of their own. "Route finds all subscriptions that match the given
event" (`event_router.go:121`) does not hold of subscriptions with a TimeRange, whose
timestamps the cache key leaves out; `DeliveredAsSubscribed` excepts them. And
AddToSuppressionList "adds a phone number to internal suppression"
(`service/dnc/service.go:284`) but leaves a number that was removed before unsuppressed;
`SuppressedAsAsked` excepts it.

## Proofs

`AuctionProofs` proves, for every set of bids, runs, sessions and every bound:

* `TypeCorrect`, `ClosedForGood`, `ListedAuctionsRun`: TypeOK, ClosedIsFinal and
  ListedUntilClosed, with no assumption on timing. TypeOK is inductive because it
  says that whatever a goroutine, timer or monitor refers to has been allocated.
  `AuctionSteps` splits Next once for all theorems, and `StatusChange` says how each
  step may change a status.
* `OneOpenAuctionHolds`, `OneHighestWinnerHolds`, `AuctionImplementsOutcome`, under
  `Exclusive`. None of these is inductive. `RunsInv` adds that one run at a time is
  in progress on an auction, which is then closing; that a run about to delete the
  map entry deletes its own closed auction; and that an auction that is not closed is the
  one listed. `DecisionInv` adds that an auction with a decision is closed or has its
  one run past the winner, and that the losers still to be written are undecided and
  bid no more than the winner. Together they are `ExclusiveInv`. The refinement
  follows: a winner is only written by a run whose auction has none and is not closed.

* `BidDecidedOnceHolds`, under `Exclusive` and with no edits (`Extensions = {}`). The
  second condition is needed, not convenient: UpdateBid writes the status it read back,
  and a decided bid that becomes active again may be decided by the next auction; that
  is `auction_stale_edit`. `DecidedOnceInv` adds what the requests hold that may
  still write: a row about to be created is not in the table and one session creates
  it, a row about to be written cancels or expires (`RowsInv`); and that a decided bid
  is never active again, while a run's rows are decided by no auction yet
  (`UndecidedInv`).

`DncCircuitBreakerProofs` proves TypeOK and `NoMissedTrip` for every number of
callers and all thresholds. The invariant is inductive given TypeOK: whoever raises
the failure count is itself on the way to the check, and whoever closes the circuit
is on the way to clearing the count.

`AuditLoggerProofs` proves, for any events, workers and channel sizes, with failures,
lost answers and crashes:

- `TypeCorrect`: TypeOK with the capacities, and what a processor holds at each step.
- `TrailLinkedHolds`. A processor reads the highest number and the latest hash in two
  steps, and other processors commit in between. `ReadInv` is what remains true: a
  number that was read is not above the highest, and whoever read a number that still
  is the highest has the latest hash, because every insert since would have raised
  it. The unique number makes all other commits fail (`UniqueNumbers`), so
  an insert always extends the table at its end (`ExtendTable`). The hashes of a batch
  are a recursive function of the batch (`ChainHash`).
- `PublishedIsStoredHolds`, from "the rows of a batch about to be published are in the
  table" (`StoredInv`).
- `OneCopyHolds`. `DistinctInv` says that no channel, batch, queue entry, processor or
  table holds an event twice and no two queue entries or processors share one,
  `PlacesInv` that the five kinds of places share none and hold only events LogEvent has
  buffered. That the count of copies is then at most one is a second argument: buffer,
  batch and all queued batches in one sequence have no repetition (`FlattenDistinct`,
  `ConcatDistinct`), at most one processor waits with the event, and at most one row is
  of it.

`AuditPublisherProofs` proves, for any events, subscriptions, filters, workers, queue
and batch sizes:

- `PubTypeCorrect` and `AcceptedOnceHolds`. `ChannelsInv` and `BatchesInv`: no queue and
  no batch holds an event twice, no two share one, and together they hold exactly
  the events of their stage; `HandlerInv` says what a handler's batch and position are
  at each of its steps.
- `DeliveredAsSubscribedHolds`. `RouterInv`: a cached route holds only what the filters
  on its key let pass and misses no subscription without a TimeRange (Add and
  RemoveSubscription clear the cache under the lock that Route takes to fill it), and a
  subscription that is not yet with the router was not there when any event was
  published. `LookUpInv`: what a handler found in the cache before it had the lock is
  still good for its event, because a subscription added since is not owed that event
  (`RouteIsGood`). `PairsInv` and `CoverInv`: what a handler has routed is on its
  way to, or has reached, all who were to have it, and nothing is on its way twice.
  `KafkaInv`: a Kafka copy arrives only of what was handed over, once.

`CallExchangeProofs` proves the consent service, the calls table and the two composed.

- Consent: `ConsentTypeCorrect`, `PointersAreSound`, `HistoryIsKept`. `HistoryInv` adds
  to the type and the property that a request's copy is of a stored consent up to the
  version it read (`CopiesStored`) and that an aggregate without an owner has no
  versions (`RowsTogether`). Its heart is `SaveEffect`: what a save from a copy of any
  age does to the rows and the pointer.
- `RevocationsHold`. `RevocationInv` adds that while nobody was overtaken the number
  has one consumer and one aggregate whose pointer is at its last version
  (`OneConsent`), that a withdrawn consumer has no grant under way and a revoked
  version in force (`WithdrawnOK`), and the same of a revocation still to be saved
  (`AloneOK`). `SaveBehindPointer`: a save that is not overtaken appends right behind
  the pointer, so only a revocation can follow a revocation.
- Calls: `CallTypeCorrect`, `CallsAreClaimedOnce`, `CallsHaveOneBuyer`,
  `EndedRowsAreRight`. `CallInv` says of every request what
  its steps rest on (`At`: the leg a copy names exists and its call has no seller, a copy
  marked to end was of an ended leg, the buyer in a copy was accepted), that one
  request dials a call (`OneDials`), of every row that its leg and buyer agree with them
  and that a claimed call has a seller and is not pending (`RowOK`), and that a claim has
  one claimer and one accepted bid at most (`ClaimsOK`). `WorldMoves` is why
  copies do not go stale in what matters: the leg of a call without a seller never comes
  back, an accepted bid stays accepted, a row is never deleted.
- `SettledBidsAreFinal`, from `BidTypeOK` and the step lemmas `BidStepSettled` and
  `RequestBids`: a copy of a bid is only taken while the bid is open, so a decided bid
  nobody holds gets no new writer.
- The composition: `RevokedCallsAreNotRouted`, from `CallInv`, `RevocationInv` and
  "a barred request exists only while a revocation stands" (`BarredOK`).

`ServicesProofs`, on the DNC registry: `DncTypeCorrect`, `AdditionHolds`,
`LateRequestsAreHarmless`, `SyncingExplained`. `DncInv` adds which copies a request can hold at each of its steps
(`CopiesOK`), that nobody counts on a source while an update of its row is under way,
and that a deleted row was released (`UpdatesAnnounced`).

On the archive: `ArchiveTypeCorrect`, `MarkedEventsAreStored`,
`DuplicatesExplained`. `ArchiveInv` adds what each archiver's batch is made of at each
of its steps (`BatchesOK`), that what is being dropped is known as deleted and marks
name ids that were used (`DeletionOrdered`), and that an event in a file is marked,
about to be, or known not to be (`FilesAccounted`).

`ProgressProofs`, on the hubs: `HubTypeCorrect`, `HubNeverPanics`, from
`OpenInMap`: with the property itself, a client still to be registered is not in the
map and its channel is open, so the hub sends on and closes only open channels.

On the integrity service: `IntegrityTypeCorrect`, `CrashesExplained`, from "a worker
that reports has a task" (`TasksHeld`), that only Stop closes anything and cancels the
context first (`CancelledFirst`), and that in the first life each channel is closed
once, when nobody is left to send on it (`ClosedInOrder`).

On the compositions that the runs check, `ServicesProofs` and `ProgressProofs` prove
`ServicesTypesCorrect` and `ProgressTypesCorrect` (the two TypesOK), `ServicesSafe` and
`ProgressSafe` (the runs' other invariants, of the runs' own specifications). A step of a
profile is a step of one component, or of the composition of calls and consents, and a
stutter of the others, so the invariants above are kept one by one. Two things are new:
the initial state with a consent in force has the invariants too (`InForceInitial`), and
in the profile of consents alone nothing is ever barred.

The constants' assumptions are the named ASSUMEs of the modules: amounts, times
and thresholds are natural numbers; thresholds, channel sizes, the minimum bid and the
largest version are not zero; runs and sessions are different goroutines; the null
values are not members of the sets they complete; batch workers and subscriptions are
finitely many, because the queue's size and a message's copies are counted by them; `MCServices` has a consumer and an
aggregate for its consent in force.

`SequenceFacts` holds what the two proofs about channels share. The library's induction
theorems take an operator, which no installed backend instantiates; `NatSetInduction`
states induction for a set instead, from the well-foundedness of < on the naturals. It is
what the facts about `ChainHash` and about concatenations rest on.

Only model-checked: every liveness property (`ArmedAuctionCloses`, `OpenEnds`,
`EventsDrain`, `CloseCompletes`, `AcceptedIsHandled`, `HandlersExit`,
`DeadClientLeaves`, `StopCompletes`), because fairness and ENABLED are beyond TLAPS
here. Every invariant and every other action property of the passing runs is stated by a
theorem.

## Plan

1. Done: `Auction` with `AuctionOutcome`; `DncCircuitBreaker`; `AuditLogger`;
   `Consent` and `CallExchange` composed; `DncRegistry`; `AuditPublisher`; `EventHub`;
   `AuditArchive`; `IntegrityService`.
2. Proofs: no safety property of a passing run is left without its theorem. What the
   prover can still add are step lemmas towards the liveness arguments: that each fair
   step lowers a measure (the events still in a channel, the goroutines still to exit).
3. Models still to write: account balances under row locks, the sliding-window rate
   limiter, dead letters and webhooks, the audit event streamer.

## Not modelled

Reports, exports, scores, formatting, transport, configuration and metrics: they keep
no state that another part relies on. The repository has 116 thousand lines of Go, most
of them of this kind or parallel implementations that nothing wires (the orchestration
services beside the bidding service, the DNC performance layer, whose SubmitTask may
send on a queue that Stop closed); the mapped lines are the small part that holds the
shared state and its order. Within modelled components, what is left out is listed
with each component in `PROJECT.json`.
