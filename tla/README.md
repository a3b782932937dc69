# Go system design patterns: TLA+ models, checks and proofs

The repository is a catalogue of 26 groups of Go patterns (`src/patterns/01_lifecycle`
to `26_advanced`), each a small program with its test and a document. This directory
holds TLA+ modules of the patterns that have behaviour over time, TLC configurations
that check them on small instances, and TLAPS proofs of what matters most for every
value of the constants. Every definition is translated from the Go code; the documents
are only quoted where the code disagrees with them.

Contents: 1 the system, 2 how the modules are organised, 3 the modules and the code,
4 the runs, 5 bounds, 6 fairness, 7 proofs, 8 disagreements between code and
documents, 9 limits of the code met on the way, 10 what is not modelled, 11 plan.

## 1. The system

The groups are libraries, and few import another: the stampede cache (14) and the stale
fallback (26) use the singleflight group (09) and the memory cache (14), the polling
outbox publisher (26) the store of 15, the payment pipeline (26) the state machine of
23. These compositions are modelled, and three more that the documents describe: the chain of
middlewares (07, 11, 20), a client that retries (08) against a server with idempotency keys
(10), and a rollout with splitter, probes and hook (21, 01). Everything else that interacts is
inside a pattern: goroutines that share a struct under a mutex, channels,
condition variables, timers and contexts, and the outside world (database, broker,
gateway, storage, router) behind function values and interfaces. So the project has one family
of modules per kind of interaction, with those compositions, instead of one global one.

### Components with behaviour over time

| Component (source under `src/patterns`) | State | Operations | What is hard | Correct means |
|---|---|---|---|---|
| Weighted semaphore, `09_concurrency/semaphore.go` | `current`, FIFO of waiter channels | Acquire, TryAcquire, Release, cancellation | Release pops and charges a waiter whose context ends at the same time | FIFO well formed, nobody sleeps beside the units it asked for; the bound, but for what Release does not charge, and units that come back, but for a lost grant (see 8) |
| Bounded queue, `09/backpressure_queue.go` | items, two condition variables, dropped count | Push with three strategies, Pop, cancellation | wakeups of `sync.Cond` used up by someone else | order, nothing lost or doubled, no lost wakeup, a Push that ends with its context (see 8) |
| Worker pool, `09/worker_pool.go` | two channels, WaitGroup, context | Submit, workers, Shutdown, parent cancellation | closing channels that others send on; results nobody reads | each task once, no panic of a worker, Shutdown returns while results have room or a reader (see 8) |
| Channel stages, `09/fanout_fanin.go`, `09/channel_ownership.go`, `05_context/cancellation_pipeline.go` | channels, item in each goroutine's hand | generate, work, forward, close, read, cancel | closing what others send on; cancellation of one stage before the next | nothing lost or doubled unless cancelled, the reader ends |
| Groups, startup validation, scheduled runner, `09/errgroup.go`, `01/graceful_startup.go`, `24/scheduled_runner.go` | first error, cancel cause, WaitGroup, ticker | Go, Wait; ValidateAll; Start, Stop | errors that race, cancellation by parent or error, a tick against Stop | the first error returned, nobody runs after the wait |
| Shutdown manager, signals, composition root, `01_lifecycle/graceful_shutdown.go`, `signal_handling.go`, `composition_root.go` | hooks, closed flag, signal channel, contexts, server | Register, Shutdown, s.loop, Build, Start | timeout between hooks, second signal or crash at any time | each hook once, in order; Start returns |
| Batch loader, `13_database/batch_loader.go` | pending requests, timer | Load, timer callback, flush | a timer that fired late meets the next batch | each request in one batch, every Load returns |
| Resource tracker, `22_resourcemanagement/resource_lifecycle.go` | map of open resources | Track, Release, CloseAll | closing after the map was changed; a name tracked twice | closed once, by one goroutine; lost in two ways only; bounded (see 8) |
| Keyed mutex, `23_dataintegrity/pessimistic_lock.go` | map key to counted mutex | Lock, unlock closure | entry deleted and created again while a third goroutine arrives | one lock per key, exact registry, every Lock granted |
| Singleflight, `09/singleflight.go` | map of calls in flight | Do, panic of fn | joiner between `wg.Done` and `delete` | one execution in flight, everyone wakes |
| Stampede cache, `14_caching/stampede_prevention.go`; stale fallback, `26_advanced/singleflight_cache.go` | cache item, group, stale copy | GetOrCompute, Fetch | caller that missed before a store and leads after it | no redundant fetch, answers never go back, fallback exists |
| Cache-aside, `14/cache_aside.go` | database and cache item with ttl | Get, Set, expiry | Get populates what it read before a Set | staleness has one cause and ends |
| LRU cache, `14/bounded_lru.go`; negative cache, `14/negative_caching.go` | list and map; entry with one of two ttls | Get, Put; GetOrFetch | list and map changed together; a fetch that writes "missing" after the object came | the last keys used; staleness bounded by a fetch and the ttl of its kind |
| Read-write splitter, `13_database/read_write_splitter.go` | mark in the session's context | Write, WithRecentWrite, Read | endpoint chosen by the clock, queried later, on a replica that lags | a session reads its writes |
| Keyset paginator, `04_persistence/keyset_pagination.go` | cursor | FetchPage | rows come and go between pages, ties in time | every row that stayed, once, in order |
| Outbox and relay, `15_messaging/outbox_pattern.go`; polling publisher, `26/reliable_outbox_publisher.go` | outbox rows, broker | SaveTx, fetch, publish, mark; polling | death between publish and mark; two publishers of one row | saved events handled exactly once behind an idempotent consumer |
| Idempotent consumer, `15/idempotent_consumer.go` | processed IDs | ProcessMessage | check and mark in separate critical sections | handled once (see 8) |
| Inbox, `15/inbox_pattern.go` | status per message | register, process, complete, fail | worker dies while PROCESSING | at most once, failed ones again |
| Retry with backoff, `08_httpclient/retry_backoff.go`; idempotency keys, `10_apidesign/idempotency_keys.go` | attempt; locks and cached responses | ExecuteWithRetry; LockKey, SaveResponse | a retry overtakes or outlives its predecessor; a handler dies with the key | the operation runs once, one response for all, every call returns |
| Dead letter queue, `15/dead_letter_queue.go`; job retry, `24_backgroundjobs/job_retry.go` | attempts, isolated messages; attempts and delay | ProcessWithDLQ; HandleJobFailure | an attempt counted before the handler runs, cleared after it, redelivery; a shift that overflows | isolated after exactly the allowed attempts; delays grow until they overflow (see 8) |
| Graceful consumer, `15/consumer_lifecycle.go` | channel, mutex, closed flag, WaitGroup | Enqueue, workers, Shutdown, timeout | Enqueue holds the mutex while it waits for a slot | drained before Shutdown says so, Shutdown returns (see 8) |
| Partitioned router, `15/message_ordering.go` | channel per partition | Route, workers, Stop | Stop while messages are queued | order per key, drained when stopped |
| Distributed lock, `16_distributed/distributed_lock.go` | lease per resource, token counter | Acquire, Release, expiry, storage | late writes and releases of an expired holder | one live lease, fenced writes |
| Leader elector, `16/leader_election.go` | leader and expiry | TryAcquireOrRenew, IsLeader, Resign | candidates crash, come back and believe | one believer, leadership turns over |
| Visibility queue, `24/job_queue.go` | jobs, hidden-until times, receipts | Enqueue, Dequeue, Heartbeat, Ack | a job times out while its worker works | one live receipt, every job done |
| Saga, `16/saga_orchestrator.go` | completed steps | Execute | failing compensations | all done, or all compensated but the failed ones, in reverse order |
| Payment pipeline, `26/idempotent_payment_pipeline.go`, `23/state_machine.go` | responses, keys in flight, state machine | ProcessPayment | retries and rivals around the gateway call | charged once (see 8), answered alike |
| Unit of work, optimistic locking, `04/unit_of_work.go`, `04/optimistic_locking.go` | wallets and ledger, staged copies; item with version | ExecuteTx; Get, UpdateStock | overlapping read, compute, write | ledger and balances agree but for lost updates (see 8), no versioned update lost |
| Checkout with deadlock retries, `13/transaction_boundary.go`, `13/deadlock_retry.go` | attempt; order and inventory in the database | Checkout, ExecuteWithDeadlockRetry | a commit whose answer is lost, conflicts, a charge that has already happened | charged once, order and units booked once and together |
| Reconciliation, `16/reconciliation.go` | two stores, two snapshots | Reconcile, Upsert, Delete | snapshots that are old when used, dropped errors | the target converges |
| Traffic splitter, prestop hook, readiness probe, `21_deployment/traffic_splitter.go`, `21/prestop_draining.go`, `01/health_probes.go` | weight, colour; ready flag | SetCanaryWeight, SwitchActiveColor, RouteTarget; PreStopHook; ReadinessHandler | a probe that has seen the flag answers after the hook cleared it; endpoints follow later | no request meets a pod that has stopped |
| Token rotation, `12_auth/token_rotation.go` | current and used tokens of a family | CreateFamily, Rotate | answers that are lost, tokens that are shared | revoked when, and only when, a token comes twice |
| Token buckets, `08/retry_budget.go`, `09/rate_limiter.go` | tokens, time of last update | RecordRequest, TryAcquireRetry; Allow, Wait | time credited twice or lost by refused calls; capacity overrun | equal to a bucket filled continuously; Wait returns |
| Circuit breaker, `08/circuit_breaker.go` | state, counters, deadline | Execute, State | results of calls begun in an earlier state | an outage is contained, the breaker closes after it |
| Connection pool, `04/pool_limiter.go` | permits, idle connections, released flag | Acquire, Close, release | two channels looked at one after the other; flag reset on reuse | permits conserved, one user per connection (see 8), nobody starves |
| Priority load shedder, `16/load_shedder.go`; latency shedder, `26/adaptive_shedder.go` | counter in flight; moving average, counter | Allow, release; Allow, done | counter added before it is compared; average moves only when admitted work ends | each priority keeps its room; exact counter, readmission (see 8) |
| Bulkheads: by workload, `26/multi_bulkhead.go`; by token, `08/bulkhead.go`, `20_reliability/bulkhead_shield.go` | queue and workers per type; channel of tokens per dependency | Dispatch, Stop; Register, Execute | one type hangs; a dependency is registered again while calls hold tokens of the old channel | the others go on, Stop returns; tokens conserved per channel (see 8) |
| Middlewares and overload protection, `07_httpserver`, `11_middleware`, `20/overload_protection.go` | counter of active requests, response writer, counters per status | one request through recovery, metrics, overload protection, timeout, handler | the handler runs beside the timeout and outlives it; two first requests of a status | one true answer per request, exact counter and metrics, panics reported (see 8) |

`PROJECT.json` names every source file of every component, the ones of section 10 too.

## 2. How the modules are organised

- One module per component or group of small ones of one kind, named for it, with the component's types as CONSTANTS,
  its fields as VARIABLES under the names of the source, one action per critical
  section or channel operation, `Fairness` where liveness is claimed, and its
  properties at the end.
- Abstract specifications: `ExclusiveLocks` (what a keyed lock promises),
  `ExactlyOnce` (what a pipeline of messages promises), `IdealBucket` (what a
  rate limit promises). The detailed modules implement them by INSTANCE ... WITH a
  refinement mapping.
- Composition: `MessagePipeline` puts the outbox, its relay and poller, a broker that
  delivers again and again, and the idempotent consumer together. `Singleflight` puts
  the two caches around the actions of the group. `Retries` (its
  requests), `RequestChain` and `Rollout` compose files of several groups.
- `MC*` modules hold one suite per family, `MCConcurrency`, `MCCaches`, `MCMessaging`,
  `MCCoordination` and `MCResilience`: each EXTENDS one component and INSTANCEs the
  others. Their constants are general, the .cfg files give the small sets, and the ASSUME `Parameters`
  of each collects what the components ask of them, so that a theorem about a suite holds for every instance and
  each run evaluates its assumptions. The components of a suite share no state, so their
  interleavings would add nothing: a variable `part`, chosen in the initial state and
  never changed, says which component a behaviour exercises, and the others stay as
  they started. `SuiteNext` has one disjunct per part. The fairness of each component
  is part of `SuiteSpec` as it stands: its actions are disabled where the component is
  not exercised, so that the conjunct is true there. Goroutines that start by themselves
  (channel stages, reconciliation) are the exception: their fairness and their
  liveness are asked where they are exercised.
- The proofs of a suite and its components are in a module of their own that extends the suite
  (`ConcurrencyProofs`, `CachesProofs`, `MessagingProofs`, `CoordinationProofs`, `ResilienceProofs`); three shorter ones stand at the end
  of the component's module (`PaymentPipeline`, `TokenRotation`, `ReadPaths`).

Histories (what was fetched, charged, written, granted, presented) are variables of the models
that no guard reads; they are marked in the modules. Time is mostly relative: a lease or a
cooldown is the time left, decreased by `Tick`, which keeps the state space finite
without changing any comparison the code makes. `ReadPaths` and the negative cache have an
absolute clock with a bound, because their properties compare moments far apart. Requests without identity are counted,
not named. Operators that only differ from their neighbour by a mistake (`OneTTL` beside
`TTL`) are the mistakes that section 4 speaks of; nothing else uses them.

## 3. The modules and the code

**Semaphore.** `Take` is the fast path of Acquire and TryAcquire, `Enqueue` the slow
one, up to the select. `Release` does everything under its mutex: it subtracts, clamps
at zero, and pops and charges waiters from the front (`Popped`, `Woken`, `Charge`). The
select is two actions: `Granted` takes the closed channel, `ChooseDone` the context and
`Withdraw` then locks the mutex and removes the channel if it is still queued. When
both are ready Go chooses either, and so does the model. Callers ask for any of the `Weights`; the history
`uncharged` adds up what the waiters that Release woke hold without having been charged for it (`Unpaid`).

**BoundedQueue.** A critical section of Push or Pop from one lock or wakeup to the next
wait or return is one action. A goroutine is idle, asleep in `Cond.Wait`, or woken and
not yet running; `Signal` moves some sleeper to woken. Strategies are a variable fixed at the
start, as in `NewBoundedQueue`.

**WorkerPool.** Channels are sequences with capacity and a closed flag. Submit, the
two selects of a worker, Shutdown (close, wait for the WaitGroup, close results), the
cancellation and the reader are actions. A send on a closed channel sets `panicked`. A
pool is used in one of two ways per behaviour: with cancellation and submitters who
come late, or disciplined with a reader.

**KeyedMutex.** `RegisterFound` and `RegisterNew` are the registry's critical section at
the start of Lock, `Enter` locks the entry's own mutex, `Unlock` and `Unregister` are the
two halves of the unlock closure. Entries are
addresses: a new one may take an address again once neither the map nor a goroutine
refers to it, and only then.

**Singleflight, CacheAside.** `Lead` or `Join`
is the critical section of Do, `Finish` stores the result and releases the WaitGroup,
`Forget` deletes the key under the mutex, `Wake` and `Panic` end the others. The caches
add their lookups, the double check, the query, the stores and the answers around these.
Values are versions: the number of the fetch that made them. `CacheAside` has
a database version, a cached version and an expiry; a Get's database read and its
populate are two steps, and so are a Set's write and its invalidation.

**BoundedCaches.** The LRU cache against the order of use: `evictList` and `items` are the
code's, `recent` is the list of all keys by last use, which no guard reads. The negative cache
looks (`Live`), fetches (`Fetch`) and writes what it found with the ttl of its kind (`Set`), while
the object comes and goes and its entry may be deleted.

**ReadPaths.** A session's `Write`, the context of `WithRecentWrite`, the choice of the endpoint
(`Read`) and the query (`Query`) are steps of their own; the replica applies writes in
order, each within `Lag`. A walk (`Begin`, `FetchPage`) is modelled on sets: the caller hands FetchPage a sorted
slice, so that a page is the set of the rows with fewer than `limit` before them
(`Precedes`), and the cursor is the row it was made from. Rows are inserted and deleted between pages.

**Outbox, MessagePipeline, Consumers.** A call of the store or of the broker is one step.
Relay and poller fetch a batch (`Flush`), `Publish` one event, `MarkPublished` it; a
relay may crash and a poller may be cancelled between any two. The broker is
external: it delivers what it has taken any number of times, up to `MaxRuns`
handler runs. `Consumers` holds the inbox, the graceful consumer and the partitioned router, which share no state. The inbox's critical
sections are one action each, with the handler between them.
The consumer's Enqueue is three actions (lock,
send or give up), because it holds the mutex in between; its channel, its `closed` flag
and Shutdown's goroutine, timer and select are explicit. The router has a channel per
partition and a map from keys to partitions in place of the hash.

**Retries.** Three parts. Requests: each client is in ExecuteWithRetry (`Check`, `Send`, `Succeed`,
`Fail`, `FailForGood`, `Elapse`, `AbortBackoff`), each of its attempts is a request at the server that goes through
`LockKey`, `Execute` and `SaveResponse`, also when the client has stopped waiting for it,
or dies. Dead letters: `Count` and the branches after the handler. Jobs: `HandleJobFailure` with the
shift and the product in `Width` bits (`Wrapped`).

**Leases, Repairs, PaymentPipeline.** `Leases` holds the distributed lock, the leader elector and the
visibility queue, `Repairs` the saga and the reconciliation. Each method of lock, elector and queue
runs under one mutex and is one action. Clients keep what the method returned to them
(`lease`, `believes`, `receipt`) and use it later, whatever happened meanwhile. The
storage with fencing is external: it takes a write whose token is at least the largest
it has seen. The saga chooses at each step whether an action or a compensation fails.
`PaymentPipeline` takes the key, calls the gateway with no lock held, stores the
response and frees the key as separate steps; `LosesAnswers` adds a gateway that
charges and reports an error.

**TokenBucket.** Both buckets are the same algorithm: a call credits the time that has
passed since the last update (`Replenished`), caps it, and takes a token if there is
one; the retry budget also deposits a fraction per request. `One` is the price of a
token in the units of the rate, so that fractions are integers. `Wait` polls.

**CircuitBreaker, Limits.** `Begin` is the first critical section of Execute with
`CheckStateTransition`, `EndFailed` and `EndSucceeded` the second; fn runs in between with
no lock held, and a call keeps whether it met a sound or a sick service. `Break` and
`Recover` are the service's. `Limits` has three parts. The connection pool: Acquire's three selects are
`LookIdle`, `LookTokens` and the wait of `Receive` or `GiveUp`; `Close` is the
CompareAndSwap, `Release` the send or the return of the permit. The shedders:
`Allow` adds and compares, and a refused request is taken off again by `Drop`, later; the latency
shedder's average is in integers. The bulkheads: a queue and a set of
workers per type, whose select may choose the cancelled context although a job waits; and channels of
tokens, named by dependency and registration, which a call goes back to (`ReturnTo`).

**RequestChain.** One request passes `Arrive` (the counter), `Select` (of the timeout),
`TimeoutLooks` and `TimeoutWrites`, `Recover` or `Leave`, and `RecordLooks`, `RecordCreates`, `RecordCounts` of
the metrics; its handler's goroutine writes, panics or closes `done` whenever it likes. A
goroutine that sleeps in its select is woken by the first event (at `"parked"`), one that reaches
it later finds any number of cases ready. A handler may never return.

**Rollout.** `SetCanaryWeight`, `SwitchActiveColor` and `RouteTarget`, whose loads of weight and
colour are two steps; `PreStopHook`, which ends by its delay (`HookReturns`) or its context
(`HookCut`); `ReadinessHandler`, which looks at the flag, and `ExecuteChecks`, which answers
later. Router, prober and operator are external: endpoints follow the
answers within `Propagation`, a pod is probed again within `ProbeTime`, and the operator moves
traffic only to a colour with a pod that is going to stay.

**TokenRotation.** `CreateFamily` and `Rotate` (`Rotate` the exchange, `Reuse` the other
branches) under the mutex; clients `Ask`, `Receive`, lose an answer or share their token.

**Lifecycles.** Of the termination: `Signal`, the two receives and the deadline of `s.loop`; `Start`
takes ctx.Done (and then calls `Shutdown`) or the server's error. `Shutdown` is the
critical section with its insertion sort (`Sorted`, hook by hook); then `RunHook` and
`HookReturns` alternate, and `TimeUp` matters between two hooks only. A manager is the
composition root's, with the server's hook and one caller, or stands alone with
`Register` and several callers. Of the resource tracker: the map is changed under the mutex
(`Track`, `Release`, `CloseAll`), what was taken out of it is `inHand` until `Close` was called on it.

**ChannelStages.** The goroutines of FanOut, FanIn and of the cancellation pipeline with
the item each has in hand; an unbuffered send and its receive are one step, a
buffered channel is a sequence. Both selects of each goroutine may prefer ctx.Done.

**BatchLoader.** `Load` is the critical section, with `LoadFull` and `LoadPending` as its
branches. A timer has fired before its `Callback` gets the mutex, and `Stopped` stops
only a timer that has not. Flushes run concurrently and end in `BatchReturns`.

**TaskGroups.** Three users of a WaitGroup, as three kinds: `Go`, `Report` (the critical section of
`errMu`) and `Wait` of a group, `ValidateAll` of a startup, `Start`, `Ticks`, `RunTask` and
`Wait` (for Stop) of a runner. `Returns` is the end of the wait and the cancellation after it.

**ConcurrentUpdates.** Transactions stage copies (`GetWallet`), change them (`Transfer`:
two UpdateWallets with two ledger entries) and `Commit` or `Rollback`. Stock updates read
(`Get`) and write with the version they have read (`UpdateStock`). A checkout charges
(`Checkout`), then runs its transaction in turns of ExecuteWithDeadlockRetry (`Try`,
`TxFails`, `Backoff`); the database is external and serializable: it commits only what it has
read and nobody has changed since (`Serial`), may abort at any statement, and the answer of a commit may be
lost.

Of the reconciliation (`Repairs`), `ReadSource` and `ReadTarget` are the two GetAlls, `Repair` and
`DeleteOrphan` one turn of the two loops each, which the store may refuse (`Applied`); several
`Reconcile` calls and a writer of the source run at once. Deliveries of the
synchronisation whose drift it repairs are not modelled: the initial stores differ arbitrarily.

## 4. The runs

| Run | Question | Answer |
|---|---|---|
| `concurrency` | Do semaphore, queue, pool, stages and batches keep bounds, order and wakeups, does a service end in order, are resources closed once, do waits for goroutines return the first error, and do blocked calls return? | yes: with mixed weights, the units that Release leaves uncharged are the only ones over the bound; for Shutdown of the pool while somebody reads, the results fit in their channel or the context is cancelled; for hooks that heed their context |
| `caches` | Does the counted registry of the keyed mutex implement one exclusive lock per key? Are concurrent misses one fetch, do answers never go back, when is a value stale and for how long? Are reads consistent over several calls? | yes, no entry is left behind and every Lock is granted; one fetch; never; only after a Get that overlapped a Set, until the ttl; yes, if the window is longer than the lag |
| `messaging` | Is each saved event handled exactly once through crashes and redelivery, does a retried request run once, are poison messages isolated, do consumers drain and keep order? | yes, with one delivery of a message at a time (`OneConsumer`) |
| `coordination` | Is each lease held by one and taken over, are late writes fenced out, is a saga atomic, is a payment charged once, which updates are lost, do reconciled stores converge, does a rollout lose a request, is a session revoked for cause only? | yes, if an error of the gateway means no charge; just what commits overwrite without having read it, and no versioned one and no checkout; yes, once writes and errors are over; none, if the delay exceeds two probes and the propagation; yes |
| `resilience` | Do the protecting components admit neither too much nor too little, and is each request counted, answered and measured once? | yes, while users close a connection once and fn does not go on for ever |
| `semaphore_cancel` | Do all units come back? | no: finding 1 |
| `idempotent_duplicates` | Is a message handled once if two deliveries overlap? | no: finding 2 |
| `consumer_shutdown` | Does Shutdown return within its timeout? | no: finding 3 |
| `payment_lost_answer` | Is a payment charged once if the gateway's answer is lost? | no: finding 4 |
| `shedder_readmits` | Does the latency shedder admit again after a slow spell? | no: finding 5 |
| `pool_double_close` | Is a second Close harmless? | no: finding 6 |
| `chain_panic` | Is a handler's panic answered with 500? | no: finding 7 |

What the properties of the passing runs say, beyond the types (`SuiteTypeOK`). A property of a suite
is often the conjunction of what its components promise of one kind; the names in brackets
are theirs.

- `concurrency`: `QueueWellFormed` (a queued channel is open, once, and of a suspended
  caller), `OnlyUnchargedExceed` (the units held exceed the capacity by no more than what Release granted
  without charging it), `NobodyForgotten` (no sleeper beside what it waits for unless a
  wakeup is under way, for semaphore and queue; no pending load without a timer), `FifoConserved`
  (what was removed followed by what is queued is what was accepted), `WorkSound` (each task is in
  one place, workers send on no closed channel; stages deliver each item once and all of them unless
  cancelled; a load is in one batch; a group returns its first error, which is what its context was
  cancelled with, and nobody runs after a wait), `TerminationOrderly` (one Shutdown, hooks by
  priority and registration, all of them before it reports success, forced exit after two signals),
  `ResourcesOwned` (one goroutine closes a resource, once, `OwnedOnce`; an open one without an owner was
  displaced by another of its name or dropped by a CloseAll that timed out, `LossExplained`; what is open beyond the
  bound is in somebody's hand or such a loss, `ExcessExplained`), `AllCallsReturn` (for Push and Pop: a
  sleeper goes on while there is what it waits for, `SleepersProceed`).
- `caches`: `MutualExclusion`, `RegistryExact` (the map has the entries in use, each with
  its count, and no other) and the refinement `ImplementsExclusiveLocks` of the keyed mutex;
  `AnswersSound` (one execution in flight; no answer older than one that was given before the call; a stale
  value rather than an error once there was a value: `OneInFlight`, `MonotonicAnswers`,
  `FallbackAvailable`); `NoRedundantFetch`; `StaleOnlyFromRacingGet` (an action property: the only
  step after which a superseded version is served); `CachesBounded` (`LRUExact`: just the keys used
  last, with the values put last; `StaleBounded`: a wrong answer lives no longer than a fetch and the ttl of
  its kind); `ReadsConsistent` (`ReadYourWrites`; `ScanComplete`: every row that stayed during the walk,
  once and in order); `WaitsEnd` (`LockGranted`, `CallsReturn`, `StalenessEnds`).
- `messaging`: `HandledExactlyOnce` (pipeline and inbox refine `ExactlyOnce`), `RetriedOnce` (under retries
  that overtake or outlive one another the operation runs at most once, all who succeed got its one
  response, the lock has one owner, a cancelled client begins at most the attempt it had checked for),
  `AllSettled` (every saved event that can be published is handled, `EventsHandled`; every
  ExecuteWithRetry returns, `RetriesEnd`; every message is handled or isolated after exactly the allowed
  number of failures, `PoisonIsolated`; no delay of a job passes the maximum, and one shrinks only where the arithmetic overflowed, `BackoffGrows`), `DrainsComplete` (nothing
  accepted is left when a drain is reported), `PerKeyFifo`.
- `coordination`: `OneHolderPerLease` for the lock, the leader and the dequeued job;
  `FencedWrites`; `SagaAtomic`; `PaidOnce` (at most one charge per key, and a
  response never changes); `UpdatesKept` (every wallet's balance differs from its
  ledger by exactly what commits have overwritten unread, `LedgersAgree`; the versioned stock loses no
  sale; `CheckoutAtomic`: charged once, order and units booked once and together, and a failed checkout is
  booked only if the answer of its commit was lost); `ZeroDowntime` (a request finds a pod of its colour that serves, and still
  does when it arrives); `RotationSound` (a family is revoked exactly when a token came twice, and never
  without a lost answer or a shared token); `LostGroundRegained` (`LeaderReturns`, `JobsComplete`,
  `TargetConverges`).
- `resilience`: `LimitsHold` (permits and tokens conserved and one user per connection; a dependency exceeds its
  limit only by calls from before its latest registration, `ExcessIsStale`; room per priority in spite of the late comparison, exact counter of the latency shedder and no
  shedding without a slow spell), `OutageContained` (a bound on the calls that hit a dead
  service), `RequestsAccounted` (exact counter of active requests, panics and timeouts included; what a client is
  told is true; no count of a status is lost: `ActiveBounded`, `AnswersTrue`, `MetricsExact`),
  `ImplementsIdealBucket`, `NobodyStarves` (Wait, Acquire of the pool, jobs
  beside a hanging workload, Stop, requests whose handler hangs, and a breaker whose service recovered).

Deadlock is not checked: in every suite the environment's budgets (tasks, events,
grants, faults) run out, and a component then rests in a final state. That nobody is
left waiting is stated by the liveness properties instead.

Each property of a passing run has at least one mutant in `PROJECT.json`: a plausible mistake
in one mapped definition (a waiter charged twice, an entry reclaimed too early, a
double check left out, events marked before they are published) under which the
property fails in the same run.

## 5. Bounds

| Suite | Instance | Why it is enough |
|---|---|---|
| concurrency | semaphore: 3 callers that ask for 1 or 2 of 2 units, 2 cancellable; queue: 2 producers, 2 consumers, 2 slots, 2 pushes each, 3 strategies; pool: 3 tasks, 2 workers, channels of 1; stages: 2 workers, 3 items; termination: 4 hooks, two of one priority, 3 callers, 3 signals; loads: 3 callers, batches of 2; tracker: 3 resources, two of one name, bound 2, 2 releasers, 2 closers; groups: 3 functions or dependencies, one of them critical, one tick in the channel | a release can meet two waiters of which one is leaving, and wake one that asked for more than is free; a wakeup can be taken by a third party; every channel can be full with a worker blocked on results; a timer that fired late meets the next batch; a name is tracked again while its old resource is being closed; two functions fail, in either order, while a third runs |
| caches | keyed mutex: 3 goroutines, 2 keys, 3 entries; 3 callers, 3 executions, 1 expiry; 2 readers, 2 writers, 3 versions; LRU: 4 keys of 2 values, capacity 2; negative: 2 readers, ttls 3 and 1, fetches of 1, 2 changes, clock to 5; router: 2 sessions, window 2, lag 1, 2 writes, clock to 3; pages: 5 rows, timestamps tied, ids not in the order of time, limits 0, 1 and 2 | one unlocks, one waits, one arrives at a key whose entry is gone; leader, joiner and latecomer; a Get that straddles two Sets; two evictions of keys that come back; a fetch that straddles a change and a delete; a read chosen in the window and queried after it; a page that ends between tied rows, the cursor's row deleted |
| messaging | 3 events (one unpublishable), relay and poller with batch 2, 2 faults, 2 handler runs, 1 failure; inbox 2 events and 2 workers; requests: 2 clients with 2 attempts, one cancellable; dead letters 3 messages, 2 attempts; job: base 3, maximum 40, 11 attempts, 8 bits; consumer 3 tasks, 2 workers, 1 slot; router 3 keys on 2 partitions, 2 messages per key | two publishers hold the same row while one dies; a batch larger than one so that an error leaves a remainder; a second attempt that arrives while the first holds the key, or after it was answered; a delay that reaches its maximum, then one whose product is negative, zero or a remainder; two keys that share a partition |
| coordination | 3 clients, 2 resources, ttl 2, 4 grants; 3 candidates, 3 crashes; 2 workers, 2 jobs, 2 faults; 4 steps, one without compensation; 3 clients, 2 keys, 2 charges; 2 clients, 2 wallets, 3 commits, 3 sales; 2 checkouts of up to 2 of 2 units, 3 attempts each; 1 record of 2 values in any two versions, 2 runs of Reconcile, 1 write, 1 error; rollout: 2 pods of any colours, 1 request, delay 4, probes and propagation 1; sessions: 3 clients, 1 family, 3 tokens | a grant that expires, a second that is written under, and the first holder's late write; a crash of each leader in turn; a commit over another; a repair from a snapshot that a write and a whole second run have overtaken (records do not depend on each other, so one is enough); two checkouts that read the same units; a probe that answers after the hook began, then the next one, then the endpoints; a third client with a token that two others have exchanged |
| resilience | bucket of 4 units, token of 2, 2 waiters, 3 polls; 3 callers, thresholds 2, cooldown 2, 2 outages; 3 users, 2 connections; 6 requests of limit 4; 3 requests, 2 spikes; 2 workloads with 2 jobs; tokens: 3 callers, 2 dependencies, each registered up to twice, 1 token; chain: 2 requests, 1 let in | results of one outage arrive in the next; a permit is freed between the two looks; refusals of one priority delay another; a call holds a token of a channel that was replaced; a request is refused, or let in after a timeout, while the first one's handler still runs |

Counters that would grow for ever have a named bound in the guards: `MaxPush`,
`MaxExec`, `MaxExpiry`, `MaxVersion`, `MaxRuns`, `MaxFaults`, `MaxFailures`,
`MaxMessages`, `MaxCrashes`, `MaxCharges`, `MaxOutages`, `MaxConns`, `MaxRequests`,
`MaxSpikes`, `MaxIdle`, `MaxSignals`, `MaxTx`, `MaxSales`, `MaxWrites`, `MaxErrors`, `MaxRegistrations`, `MaxTokens`,
`MaxTime`, `MaxChanges`, and `MaxGrants` of the lock. (`MaxTries`, `MaxAttempts`, `MaxJobAttempts` and `MaxRetries`
are the code's own.) They are guards of
actions, so the theorems hold for every value of them.

## 6. Fairness

- Weak fairness of each goroutine's next step, where it has one: the Go scheduler runs
  runnable goroutines. A sleeper of the bounded queue that was signalled is one: it gets the mutex
  in the end. Calls by clients are not fair unless stated below.
- Holders release: `Release`, `Unlock`, `Close` of a used connection, the end of a handler or of
  fn. The code requires it of its callers (`defer unlock()`); the liveness properties
  say nothing of callers who do not.
- Strong fairness of `Enter` of the keyed mutex and of Shutdown's lock in the graceful
  consumer: `sync.Mutex` hands over to a starving waiter after a millisecond. Strong
  fairness of `Receive` of the connection pool: receivers of a channel are served in
  their order. Strong fairness of `LoopEnds` of the scheduled runner: select chooses at
  random among ready cases, so it does not prefer a tick to ctx.Done for ever.
- Time passes (`Tick`, `Expire`): leases, visibility timeouts, cooldowns, ttls and the sleep of
  Wait end.
- The breaker recovers because somebody calls while it is not closed; without calls
  it stays where it is, as the code only tests its deadline in calls. Requests keep coming
  to the latency shedder in `shedder_readmits`: even then it does not recover.
- A client in ExecuteWithRetry goes on and its attempts end in time, a broker delivers what is queued
  (`LoopFairness`, `DlqFairness`); nothing is asked of the server, whose handler may die with the key. Of a request in
  the chain the goroutine runs and the deadline passes; nothing is asked of its handler. Rollouts, sessions,
  checkouts, bounded caches and reads have safety properties only.
- A hook returns at the latest when its context is done, as `http.Server.Shutdown` does; a
  batch function returns; Reconcile is run periodically (`reconciliation.md` asks for a loop).
- Failures have budgets rather than fairness: a relay may fail or die `MaxFaults` times and
  not for ever, which is what eventual delivery assumes.
- No fairness is asked of crashes, cancellations, failures, new work or timeouts that
  need not happen.

## 7. Proofs

All proofs are checked by TLAPS to their last leaf. Assumptions on constants are named: ASSUMEs
in the modules that a suite extends, operators (`...Parameters`) that a theorem about a component assumes and that the
suite's ASSUME `Parameters` collects, so that each run evaluates them. A theorem of the form `SuiteSpec => ...` states a
property that a run checks, for every value of the suite's constants; it combines the theorems or invariants of the
components (a step of the suite is a step of one of them and leaves the others alone).

`ConcurrencyProofs`

| Theorem | For every | Argument |
|---|---|---|
| `QueueCorrect` | finite set of callers, capacity, weights, cancellations (`SemaphoreAssumption`) | `TypeOK` and `QueueWellFormed` are inductive with `WantOK` (each holder has a positive weight, so that Release's clamp never hides anything). Lemmas on sequences say what popping a prefix and removing an element leave |
| `OnlyUnchargedExceedHolds` | the same | `Charged`: the units held are at most `current` and `uncharged` together, counted as pairs of a caller and a number up to its weight (`UnitsHeld`). `GivenBound`: what the woken callers get is one unit each, which Release charges, and the pairs of `Unpaid`; the other steps take pairs out or charge them |
| `SuiteForgetsNobody` | the same, with any queue and batches | of the semaphore: Release stops popping when no unit is free, and a fast path or a cancellation frees none. Of the queue: `NoLostWakeup` is inductive with the count of signals under way (`Counted`). Of the loader: `TimerKnown`, a pending load has an armed timer or a flush coming |
| `SuiteConservesItems` (`QueueSound`) | producers, consumers, capacities, each strategy | `Matches`: what left, then what is queued, is what was accepted, kept by a lemma per operation on the sequences |
| `SuiteWorksSoundly` (`PoolSound`, `StagesSoundHolds`, `LoaderSound`, `GroupsSoundHolds`) | tasks, workers, capacities, items, callers, groups | pool: `OneOwner`, a task is in one of six places, and `Closing`, the channels are closed in an order that no worker crosses. Stages: `OnePlace`, `Produced`, `Ends`. Loader: `Requests`, `Sizes`. Groups: `ErrorsKept`, `Waited` |
| `SuiteOwnsResources` | resources, names, bound, goroutines | `TrackerInv`: the map has what nobody took, so that taking an entry is becoming its owner; a CloseAll has something in hand only while it is closing. `LossStep`: case by case, a step leaves a resource without an owner only by displacing or dropping it |
| `SuiteTerminatesOrderly` (`TerminationOrderlyHolds`) | hooks, priorities, callers, number of signals (`TerminationParameters`) | `TerminationInv`: who found the manager open is alone, two signals precede a forced exit. `SortedHooks`: the insertion sort yields every registered hook, in the order of priorities and of registration, by induction on the hooks inserted so far; `InsertStep` says that the place found by the inner loop (`Place`) keeps that order. `HookInv`: what ran, then what is left, is that order, and the first one left is the one that runs (`HooksOrdered`, `HooksPlaced`); the root has no hook but the server's (`ServerDown`) |
| `SuiteKeepsTypes` | all of these | the invariants above; `StagesFlags` and `SignalsTyped` for what no property needs |

`CachesProofs`, `ReadPaths`

| Theorem | For every | Argument |
|---|---|---|
| `MutualExclusionHolds`, `RegistryExactHolds` | finite set of goroutines, any keys, any set of addresses (`KeyedMutexAssumption`) | the invariant adds that an entry's count is the number of goroutines that point to it, that entries of different keys differ, and that a critical goroutine's entry is locked; without the count an entry in use could be reclaimed |
| `Implementation` | the same | each step maps to a step of `ExclusiveLocks` or a stutter, by `OwnerLocked` |
| `SuiteAnswersSoundly` (`CachesSound`) | callers, executions, failures, panics, expiries | `GroupInv`: the leader is the one whose call is in the map. `CacheOrdered`: nothing that is kept or was returned is fresher than what is cached, or what the call in flight will return (`Freshest`), and a joiner's floor is below its call's value |
| `SuiteFetchesOnce` | the same | `ProtectedInv`: a leader that is about to fetch has looked again after it led, and only a leader stores |
| `SuiteStaleOnlyFromRacingGet` | readers, writers, versions | a populate is stale only if its Get began before a Set that is over |
| `SuiteBoundsCaches` (`LRUExactHolds`, `StaleBoundedHolds`) | keys, values, capacity; readers, ttls, changes, clock | `LRUInv`: the list is a prefix of the keys by last use, the map its set. `NegativeInv`: an answer is as old as its fetch, and its deadline that of its kind |
| `ReadPaths!ReadYourWritesHolds`, `SuiteReadsConsistently` | sessions, any lag, any longer window, writes and clock (`RouterParameters`) | `OnTime`: what is not on the replica was executed no longer ago than the lag. `Marked`: a session's mark outlasts its last write by the window, and who was sent to the replica finds that write there already, so that it does not matter when it queries. Without `Lag < Window` the theorem is false |
| `ReadPaths!ScanCompleteHolds` | rows, limits, insertions and deletions, finite tables (`PagingParameters`) | `Walked`: a row that stayed is among the pages so far or after the cursor, and nothing that was returned is. `RowOrder`: the comparison with the cursor is the order of the slice; a page that does not hold all of the rest has a last row, and is closed under what precedes it |
| `SuiteKeepsTypes` | all of these | the invariants above |

`MessagingProofs`

| Theorem | For every | Argument |
|---|---|---|
| `SuiteHandlesOnce` (`PipelineHandlesOnce`, `InboxHandlesOnce`) | events, publishers, batches, faults; one consuming goroutine (`OneConsumer`); any workers of the inbox | refinements of `ExactlyOnce`, step by step. Outbox: what is in a batch, in the topic or about to be marked was saved (`Offered`), and saving is the only step that adds to that. Consumer: a handled event is processed or about to be marked (`Handles`), which with a second goroutine would not keep the first check from passing (finding 2). Inbox: a busy worker's record is PROCESSING and its own (`InboxWork`, `InboxAlone`), so that a second delivery is refused and a dead worker's record stays closed; a free record was never handled (`InboxFree`) |
| `SuiteRunsOnce` | clients, attempts, cancellations, handlers that die | `KeyOwned`: the key is locked by exactly one request until its response is kept, and by a dead one for ever. `Ran`: a free key without a response means that the operation has not run. `Unsent`: an attempt sends one request, so that no request overwrites one that has the key. `Overdue`: a client looks at its context between two attempts |
| `SuiteDrains` (`DrainHolds`) | tasks, workers, slots; partitions | `Accounted`: an accepted task is queued, runs or has run. `Locked`: Enqueue keeps the mutex in its select, so that nothing is sent after the close. `Left`: a worker leaves an empty closed channel only. Router: `Drained` |
| `SuiteKeepsOrder` (`RouterKeepsOrder`) | keys, hash, partitions, buffer, messages, cancellation | `Ordered`: of what a partition has in hand and queued, the messages of a key have the numbers after the ones handled, in order. Two lemmas say that joining a line and leaving it keep this (`JoinsInOrder`, `LeavesInOrder`), and `Placed` that a key's messages are on its own partition |
| `BackoffGrowsHolds` | base, maximum, width, attempts (`JobParameters`) | `ShiftDoubles`: a shift by one more doubles, by induction on the doublings; `Fits`: what fits does not wrap; `Wraps`: what wraps is a value of the width. `Delays`: so the next delay is the double or the maximum, unless the double leaves the width; `JobTyped` keeps the delay of the last attempt |
| `SuiteKeepsTypes` | all of these | `DlqCounted`: an entry of the dead-letter counter is the number of failed runs, and below the maximum while the message is queued; the others above. |

`CoordinationProofs`, `PaymentPipeline`, `TokenRotation`

| Theorem | For every | Argument |
|---|---|---|
| `OneHolderPerLeaseHolds` (`OneLiveLeaseHolds`, `OneBelieverHolds`, `OneLiveReceiptHolds`) | resources, clients, ttl, grants; candidates, lease, crashes; workers, jobs, late calls | `LeasesBacked`: an unexpired lease of a client is the one the manager has for that resource, so that two of them are the same and have one owner; `ElectorInv`, `VisibilityInv` say the same of the leader and of a job's receipt |
| `FencedWritesHolds` | the same | `StoredByToken`: a token is the number of its grant, so that comparing tokens compares grants |
| `SuiteSagaAtomic` | steps, failures of actions and compensations | `StepsInOrder`: what is done is what precedes the step at hand, going forward and back. `EffectsKnown`: of each step before it |
| `SuiteHasNoDowntime` | pods, colours, probe times, propagation, cutovers, requests, for a delay that exceeds two probes and the propagation | `RolloutInv`: the endpoints lag behind a pod's state by at most what is left of the probe and the propagation (`Behind`), and the delay of a stopping pod outlasts that. `ColorsInService`: a colour that gets requests has a pod |
| `UpdatesKeptHolds`, `SuiteKeepsUpdates` | finite sets of clients and wallets, any units, sales and retries | three invariants (`SessionsKnown`, `CopiesKnown`, `CheckoutsKnown`): what a session has staged is what it read and its entries; an item read is current if its version is. `EntriesPaired`: the entries that a session has staged sum to zero, and a commit adds them to the ledger's (`SumAdds`). `OrdersCounted`: what the inventory has given are the quantities of the booked orders; a Checkout that may commit has read what is there (`OrdersKnown`) |
| `SuiteKeepsTypes` | all of these | per component, with its invariant. `PaymentPipeline!TypesHold` needs no hypothesis about the gateway: what is cached was charged (`CallsKnown`) |
| `PaymentPipeline!PaidOnceHolds`, `SuitePaysOnce` | clients, keys and retries, under the hypothesis `AnswersArrive` that an error of the gateway means it did not charge | `KeyLocked`: one client works on a key. `ChargeKnown`: a key that was charged is cached or belongs to the client that is about to cache it. Finding 4 shows that the hypothesis is needed |
| `TokenRotation!RotationSoundHolds`, `SuiteRotatesSoundly` | clients, families and number of tokens (`RotationParameters`) | `Line`: the tokens before the current one are the used ones, and of a family that is not revoked no other was presented. `OneToken`: a client keeps one. `Alone`: without a mishap one client has the current token or the answer with it, so that nobody can present a used one |

`ResilienceProofs`

| Theorem | For every | Argument |
|---|---|---|
| `BucketImplementation` | capacity, rate, ratio and price of a token (`TokenBucketParameters`) | the level of the ideal bucket is what the real one would hold if it were credited now (`Replenished`). Crediting lazily and capping twice equals capping once (`CappedTwice`). The parities of ticks, requests and admissions tie each accrual of the ideal bucket to one tick and each take to one admission, so that a step cannot be explained by another |
| `SuiteContainsOutages` (`OutageContainedHolds`) | callers, thresholds, cooldown, outages | `BreakerInv`: the failures of a phase are counted, and the calls under way are one of each caller |
| `SuiteLimitsHold` (`PoolSound`, `ShedderSound`, `TokensConservedHolds`) | users, connections, requests, priorities, limits, registrations, if no connection is closed twice (`~MayCloseTwice`; finding 6 shows that the hypothesis is needed) | pool: `ConnsApart`, a connection is idle, with one user or on its way, and `ConnsCounted`, permits and connections make up the capacity. Shedders: each priority's requests that passed are within its room, although refused ones are still counted; the average of a server that was never slow is below the threshold. Tokens: those of a channel and those its calls hold |
| `SuiteAccountsRequests` (`ChainSound`) | requests, limit, handlers that panic, return late or never | `ActiveInv`: the counter is the number of requests between its two updates. `MetricsInv`: a status has its counter before it is counted, and each count is one request |
| `SuiteKeepsTypes` | all of these | the invariants above |

The layout is the same everywhere: the invariant as a conjunction of named parts, a lemma per action that
disturbs it, one lemma for the step, one for what follows from it, and the temporal
step at the end. The property was checked by TLC on the run's instance before its proof was begun; the parts that
strengthen it are established by the proof alone. A leaf uses few facts: typing, arithmetic and the
effect on the one element that changed are steps of their own, so that no proof depends on the time the provers are
given (each leaf is found with a fifth of the default limits).

Only model-checked:

- All liveness (`AllCallsReturn`, `WaitsEnd`, `AllSettled`, `LostGroundRegained`, `NobodyStarves`): TLAPS has no support for
  ENABLED and fairness in this setting.

The safety part of `AllSettled`, `BackoffGrows`, is proved for every width, the overflow included; every invariant that a passing run checks is stated by a theorem.

Sums over a set of any size need induction. The library's induction theorems take an operator as a parameter, which
no backend can instantiate; `CoordinationProofs` proves what it needs with sets instead: `Induction` (in `ConcurrencyProofs` and
`MessagingProofs` too, for the sort of the hooks and the shifts) and `SubsetInduction` follow from the least element of a well-founded order (`WFMin`), `Recursion` says that the equation of a fold over the subsets of a
finite set has a solution, so that the CHOOSE in the community modules' fold finds one, and `SumEquations`,
`SumRemoves`, `SumAdds` are what the two invariants use.

## 8. Disagreements between the code and its documents

Each is refuted by TLC. The first seven are runs that must end in a counterexample.

1. `semaphore.go:51`: a waiter that Release has popped and charged may still take the
   `ctx.Done` branch; Acquire returns an error and the unit stays charged.
   `semaphore.md:70` says that the semaphore was never acquired then. (`UnitsComeBack`)
2. `idempotent_consumer.go:36`: the mutex is released between the check and the handler,
   so a second delivery in between is handled too. Line 16 says "only once". (`HandledOnce`)
3. `consumer_lifecycle.go:65`: Enqueue waits for a slot with `c.mu` locked; if the tasks that run
   do not return, Shutdown waits for that mutex before its timeout exists. Line 73 says that
   it waits or times out. (`ShutdownReturns`)
4. `idempotent_payment_pipeline.go:79`: every error of the gateway counts as "not charged", so
   that the retry after a lost answer charges again; the document's line 49 says never, and
   its line 4 names the lost answer as the case to handle. (`ChargedOnce`)
5. `adaptive_shedder.go:43`: the average moves only when admitted work ends. When it is above
   the target and nothing is in flight it stays there and everything is refused for ever;
   the document's line 28 says traffic is admitted again. (`ReAdmits`)
6. `pool_limiter.go:32`: Acquire resets the flag of a recycled connection, so that a second
   Close by the previous user takes it from the present one; the document's line 61 calls that
   Close safe. (`ConnsExclusive`)
7. `timeout_middleware.go:38`: a handler that panics sends the recovered value and then closes `done`; if
   both happen before the select is reached, Go may take `done`, the panic is dropped and the client gets
   an empty 200. Line 37 says the panic is raised again for the recovery, and so does the
   document's line 64. (`PanicsReported`, in the order of `HandlerPanics`, `ClosesDone`, `Select`)
The others have a configuration of their own each, which ends in a counterexample too
(`tlc -config <cfg> <module>`), and a property of a passing run says how far the code departs from
the claim, and that it departs no further:

8. `semaphore.go:98`: Release pops a waiter as soon as one unit is free and charges it one, whatever it asked
   for; line 33 says "Acquire acquires n units of weight". (`WeightsHonoured`, `Semaphore_weights.cfg` of `MCConcurrency`.
   What holds is `OnlyUnchargedExceed`: by the units that Release did not charge.)
9. `backpressure_queue.go:71`: the context is looked at before `Cond.Wait`, and its end wakes nobody; line 18 says
   "until space is available or ctx canceled", the document's line 10 the same. (`CancelEndsPush`, `Queue_cancel.cfg` of `MCConcurrency`.
   What holds is `SleepersProceed` in `AllCallsReturn`: a Push whose context is done returns once it is woken.)
10. `worker_pool.go:96`: Shutdown waits for the workers before it closes the results or cancels; if nobody reads
    meanwhile and the results do not fit, it waits for ever. The document's line 13 says "without deadlocks or
    goroutine leaks". (`NeverDeadlocks`, `Pool_unread.cfg` of `MCConcurrency`.
    What holds is `AllCallsReturn`: Shutdown returns with a reader, a cancelled context, or room for the results.)
11. `resource_lifecycle.go:49`: Track overwrites the entry of its name, and entries leave the map before they are closed
    (line 66), so that more are open than `maxResources`; line 22 says "Upper bound on open resources", the document's
    line 10 "Hard Upper Bound". (`OpenBounded`, `Tracker_bound.cfg` of `MCConcurrency`.
    What holds is `ResourcesOwned`: what is open beyond the bound is in hand, or lost in one of two ways.)
12. `job_retry.go:57`: the delay is computed in 64 bits before it is compared with the maximum; with a base of one second it
    wraps from the 35th attempt on and a job runs again at once. The document's line 48 says
    "min(Base * 2^(att-1), Max)". (`BackoffExact`, `Messaging_backoff.cfg` of `MCMessaging`.
    What holds is `BackoffGrows` in `AllSettled`: a delay shrinks only where the arithmetic overflowed.)
13. `bulkhead.go:44`: a name that is registered again gets a full semaphore while calls still hold tokens of the old
    one; line 37 says "defines maximum concurrency for a named workload". (`CallsBounded`, `Resilience_register.cfg` of `MCResilience`.
    What holds is `ExcessIsStale` in `LimitsHold`: by calls from before the latest registration.)
14. `unit_of_work.go:135`: the commit writes every staged wallet over the stored one, also one that was only read, so that
    overlapping transactions lose updates; the document's line 4 speaks of "the resolution of concurrency
    problems". (`NoLostUpdate`, `Transactions_lost_update.cfg` of `MCCoordination`.
    What holds is `UpdatesKept`: by exactly what commits have overwritten without having read it.)

## 9. Limits of the code met on the way

Behaviour that the models show or take into account and that no document denies, or that
a caller has to respect:

- Worker pool: a Submit that comes late can panic on the closed queue (the model has it; the property is about
  workers), and the results of tasks that were running when the context ended are dropped.
- Bounded queue: Pop never looks at its context, and no document says that it does.
- Singleflight: a caller that joins between `wg.Done` and `delete` gets a result that was
  complete before it asked. Answers of the caches are monotonic all the same.
- Cache-aside: a Get that read before a Set and populates after its invalidation
  leaves the old value until the ttl passes. `StaleOnlyFromRacingGet` says that this is the only way.
- LRU cache: a capacity of 0 or less becomes 100, which is not modelled. Negative cache:
  `negative_caching.md:60` has creators delete the entry; a fetch that found nothing may write its entry after
  that all the same. `StaleBounded` bounds how long it lives, given how long a fetch takes.
- Read-write splitter: only the context that WithRecentWrite returned is protected, not that of the
  session's next request, and it is made after the write has returned. After the window a
  session may read from the replica what is older than what it read from the primary. A lag as long as the window
  defeats it; the document asks for probes that take such replicas out.
- Keyset pages: the caller sorts; a row inserted before the cursor is not seen, as the document's page drift allows.
- Dead letters: the property is for one delivery of a message at a time; different
  messages are concurrent. Inbox: a message whose worker died stays PROCESSING.
- Idempotency keys: a handler that dies between LockKey and SaveResponse leaves the key locked for ever, and
  every later request gets a conflict; the hash of the payload is stored and never compared.
- Deadlock retry: in `deadlock_retry.go:63` a delay that wrapped
  would make `rand.Int64N` panic.
- Graceful consumer: a second Shutdown returns nil at once. Outbox: when as many
  events as a batch holds cannot be published, later ones are never fetched; the run has
  fewer.
- Checkout: `order.Status` is set to PAID inside the transaction's function, in memory, and stays so when the
  transaction fails; the compensation that the document asks for is the text of the error. A commit whose answer
  was lost is reported as failed though it is booked (`CheckoutAtomic` says that only these are).
- Saga: an action that fails is assumed to have no effect; a failed compensation is
  recorded and the rest go on.
- Visibility queue: a late heartbeat hides a job from others though its worker's time
  is over; Ack goes by ID, so a late one removes a job that runs elsewhere; the maximal
  number of attempts is never looked at.
- Rollout: the document (line 69) asks for a draining delay longer than the propagation. That is not enough, for a probe that has
  loaded the flag answers later and the next one comes a period after it: the delay must exceed two probe
  times and the propagation (with both 1 a delay of 3 fails and 4 holds). The hook does not wait for active requests, though
  `prestop_draining.go:14` announces it; `http.Server.Shutdown` does. RouteTarget
  may combine the weight of one setting with the colour of another; the test's order of a cutover (weight 0, then the
  colour) sends traffic back for a moment. `health_probes.md:68` says that checks run concurrently, the code
  runs them one after the other under one deadline.
- Token rotation: a client that retries after a lost answer, or two that share a token, are logged out; the
  document's lines 20 and 83 speak of a grace period, which the code does not have. `UsedTokens` grows without bound.
- Chain: after a timeout the handler goes on, off the counter; the status recorded can differ from the one
  that was sent when handler and timeout write at once; requests that panic are not recorded, though `middleware_chain.md:23`
  says that logs are still emitted.
- Circuit breaker: results of calls begun in an earlier state count in the present
  one, and probes in HALF_OPEN are not limited in number (`circuit_breaker.md:10` says
  "limited"). `OutageContained` bounds the calls by the number of callers, not by a number of
  probes.
- Rate limiter: Wait polls, so callers of Allow may take each token first; it returns
  while they leave tokens over.
- Load shedder: a request about to be refused counts until it is taken off and
  may cause the refusal of a critical one. `LayeredAdmission` is about what is admitted.
- Shutdown manager and composition root: the timeout is looked at between hooks; a hook that ignores
  its context holds Shutdown up. A signal after the deadline of the first is received by nobody.
  If the context ends and the server has crashed, Start may report either. `TerminationOrderly`
  lets hooks be left out on a timeout, those of the lowest priorities.
- Resource tracker: CloseAll drops what it has not closed when its context ends, and the map has forgotten it
  (`LossExplained` names this and the second Track of a name as the only losses); a nil Closer is skipped by Release and
  panics in CloseAll (the model's resources have one).
- Groups: a group made without WithContext cancels nothing and is left out. A runner is started once,
  before Stop: a `Start` during Stop's Wait would be a misuse of the WaitGroup. `WaitsEnd` assumes that
  functions, pings and tasks heed the context; ValidateAll's timeouts bound nothing else.
- Batch loader: a batch runs with the context of the caller that filled it or armed its timer, and
  fails for all when that caller is cancelled; a late callback clears `b.timer` of a younger
  timer, which costs an early or an empty flush and strands nobody.
- Reconciliation: a repair may put an older record over a newer one, or delete a record that was
  created between the two snapshots; `RepairedCount` counts repairs that failed. The next run
  repairs it (`TargetConverges`).
- Workload bulkhead: Dispatch may accept a job after Stop, and queued jobs are
  dropped by it. `WorkloadsIsolated` therefore ends at the cancellation.

## 10. What is not modelled, and why

- Without behaviour over time: configuration (02), dependency injection (03), errors (06),
  API formats (10, but for idempotency keys), authorization (12, but for token rotation), observability (17), testing
  helpers (18), input handling and cryptography (19), code organization (25), jitter formulas (26).
- Boundary of `net/http`: servers (07) and clients (08), but for recovery and retries; of the middlewares (11) security headers,
  composition, and the limiter per address, which keeps token buckets in a map.
- Wrappers of the standard library: context utilities (05), buffer pool (22, `sync.Pool`).
- Single operations under one mutex or calls without state of their own: repositories and soft delete (04), expand and
  contract (13), jittered and tagged caches (14), graceful degradation (20), domain invariants (23).
- Parts of modelled components: `Stats`, `Current`, `Len`, `IsProcessed` and other pure reads; the
  history list of the payment's state machine (23); the `closed` flags of the bounded queue and the
  connection pool, which nothing sets; liveness and startup probes and the registration of checks (01); the hook's
  counter of requests (21), which it never reads; encoding of cursors (04); keys other than the one in question where keys share
  nothing but a mutex.
- Data: values are versions or identities, errors are one value, the moving average is
  in integers and the token buckets in multiples of the rate's unit in place of floats; tokens that are generated are
  fresh; amounts of jitter are any.
- Data races: the patterns guard their fields with one mutex each. The one exception is the response writer
  that handler and timeout share (`RequestChain`), whose look and write are separate steps.
- TLC does not see more than the bounds of section 5; where a theorem of section 7
  exists it does not depend on them.

## 11. Plan

Done, in this order: semaphore, queue, pool; keyed mutex with its refinement; caches on
singleflight; messaging; coordination; resilience; termination, tracker, stages, batches, groups, concurrent updates,
reconciliation; bulkheads by token, the chain of middlewares, retries with idempotency keys, rollouts, token rotation,
reads over several calls, bounded caches, checkouts; the proofs of section 7.

Next, in modules and suites that exist: documents whose delayed upsert brings back what was deleted (04), the limiter per
address, whose map of buckets only grows (11), startup probes beside readiness (01).

Then proofs: that the poison message is isolated after exactly `MaxAttempts` failures as an invariant of its own, beside
the liveness that is checked.
