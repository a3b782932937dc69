---------------------------- MODULE MCConcurrency ----------------------------
(***************************************************************************)
(* Goroutines and what they share inside one process, checked in one run:  *)
(* semaphore, bounded queue, worker pool and channel stages of             *)
(* 09_concurrency (with the pipeline of 05_context), the service's         *)
(* termination of 01_lifecycle, the batch loader of 13_database, the       *)
(* resource tracker of 22_resourcemanagement and groups of goroutines that *)
(* somebody waits for.  They share no state with one another, so           *)
(* interleaving them would add nothing: a behaviour exercises one of them, *)
(* the others stay as they started.                                        *)
(***************************************************************************)
EXTENDS Semaphore

CONSTANTS Producer, Consumer, QueueSize, Strategies, MaxPush, \* of the queue
          Task, Worker, QueueCapacity, Uses,                  \* the pool
          Count, Nothing, Ended,                              \* the stages
          Hook, Priority, ServerHook, Stopper, Root, MaxSignals, \* the termination
          Loader, Leaver, MaxBatchSize, None,                 \* the loader
          Resource, IdOf, Releaser, Closer, MaxResources,     \* the tracker
          Critical, Parent,                                   \* and the groups
          Exercised

VARIABLES part,                                              \* the component exercised
          strategy, items, droppedCount, qpc, pushed, qdone, \* the queue's
          queued, removed,
          use, taskQueue, queueClosed, results, resultsClosed, cancelled, \* the pool's
          submitting, accepted, wpc, wtask, shutdown, received, panicked,
          shape, next, source, sourceClosed, worker, forwarder, \* the stages'
          merged, mergedClosed, stopped, collected, reader,
          composed, sigChan, loop, signalled, forceExit, sent,  \* the termination's
          server, hooks, isClosed, left, spc, timedOut, ran,
          pending, timer, timers, batches, gone, answer, lpc,   \* the loader's
          active, inHand, cpc, expired, tracked, closes,        \* the tracker's
          kind, state, failures, err, cause, ticking, tick, waiter, verdict \* the groups'

Q == INSTANCE BoundedQueue WITH
       Capacity <- QueueSize, pc <- qpc, done <- qdone, accepted <- queued
P == INSTANCE WorkerPool
C == INSTANCE ChannelStages WITH cancelled <- stopped, received <- collected
T == INSTANCE Lifecycles WITH
       Caller <- Stopper, use <- composed, cancelled <- signalled
L == INSTANCE BatchLoader WITH
       Caller <- Loader, Cancellable <- Leaver, done <- gone, pc <- lpc
W == INSTANCE TaskGroups WITH loop <- ticking, answer <- verdict

ASSUME Parameters ==
  /\ Q!QueueParameters /\ P!PoolParameters /\ C!StageParameters /\ L!LoaderParameters
  /\ T!TerminationParameters /\ T!TrackerParameters /\ W!TaskParameters

\* Values for the constants: two uses of the pool, resources two of which have one name, and
\* two hooks of one priority between a lower and the server's higher one.
CONSTANTS t1, t3, h1

MCUnit == {1}
MCMixed == {1, 2}
MCUses == {[canCancel |-> TRUE, disciplined |-> FALSE, eagerReader |-> FALSE],
           [canCancel |-> FALSE, disciplined |-> TRUE, eagerReader |-> TRUE]}
MCShared == [r \in Resource |-> IF r = t3 THEN t3 ELSE t1]
MCPriority == [h \in Hook |-> IF h = ServerHook THEN 3 ELSE IF h = h1 THEN 1 ELSE 2]
OnlySemaphore == {"semaphore"}
OnlyQueue == {"queue"}
OnlyPool == {"pool"}
OnlyTracker == {"tracker"}
AllParts ==
  {"semaphore", "queue", "pool", "stages", "termination", "loader", "tracker", "groups"}

queueVars == <<strategy, items, droppedCount, qpc, pushed, qdone, queued, removed>>
poolVars == <<use, taskQueue, queueClosed, results, resultsClosed, cancelled, submitting,
              accepted, wpc, wtask, shutdown, received, panicked>>
stageVars == <<shape, next, source, sourceClosed, worker, forwarder, merged, mergedClosed,
               stopped, collected, reader>>
terminationVars == <<composed, sigChan, loop, signalled, forceExit, sent, server, hooks,
                     isClosed, left, spc, timedOut, ran>>
loaderVars == <<pending, timer, timers, batches, gone, answer, lpc>>
trackerVars == <<active, inHand, cpc, expired, tracked, closes>>
groupVars == <<kind, state, failures, err, cause, ticking, tick, waiter, verdict>>
suiteVars == <<part, vars, queueVars, poolVars, stageVars, terminationVars, loaderVars,
               trackerVars, groupVars>>

SuiteInit ==
  /\ part \in Exercised
  /\ Init /\ Q!Init /\ P!Init /\ C!Init /\ T!Init /\ L!Init /\ T!TrackerInit /\ W!Init
  /\ part # "queue" => strategy = CHOOSE s \in Strategies : TRUE
  /\ part # "pool" => use = CHOOSE u \in Uses : TRUE
  /\ part # "stages" => shape = "fan"
  /\ part # "termination" => composed = "alone"
  /\ part # "groups" => kind = "group"

Rests(name, v) == IF part = name THEN TRUE ELSE UNCHANGED v

SuiteNext ==
  /\ UNCHANGED part
  /\ \/ part = "semaphore" /\ Next
     \/ part = "queue" /\ Q!Next
     \/ part = "pool" /\ P!Next
     \/ part = "stages" /\ C!Next
     \/ part = "termination" /\ T!Next
     \/ part = "loader" /\ L!Next
     \/ part = "tracker" /\ T!TrackerNext
     \/ part = "groups" /\ W!Next
  /\ Rests("semaphore", vars) /\ Rests("queue", queueVars) /\ Rests("pool", poolVars)
  /\ Rests("stages", stageVars) /\ Rests("termination", terminationVars)
  /\ Rests("loader", loaderVars) /\ Rests("tracker", trackerVars)
  /\ Rests("groups", groupVars)

SuiteOnly == SuiteInit /\ [][SuiteNext]_suiteVars

\* The goroutines of the stages start by themselves: Fairness of the part, while it is the
\* one exercised.
StagesFairness ==
  /\ WF_stageVars(part = "stages" /\ C!Generate)
  /\ WF_stageVars(part = "stages" /\ C!CloseMerged)
  /\ WF_stageVars(part = "stages" /\ C!ReaderStep)
  /\ \A w \in Worker : /\ WF_stageVars(part = "stages" /\ C!WorkerStep(w))
                       /\ WF_stageVars(part = "stages" /\ C!ForwarderEnds(w))

\* The fair steps of any other part that nobody uses are disabled.
SuiteSpec ==
  /\ SuiteOnly
  /\ Fairness /\ Q!Fairness /\ P!Fairness /\ T!Fairness /\ L!Fairness /\ W!Fairness
  /\ StagesFairness

\* Every variable of the components keeps its type.
SuiteTypeOK ==
  /\ TypeOK /\ Q!TypeOK /\ P!TypeOK /\ C!TypeOK /\ T!TypeOK /\ L!TypeOK /\ T!TrackerTypeOK
  /\ W!TypeOK

\* Nobody sleeps beside what it waits for: waiters of the semaphore beside the free
\* units they ask for, pushes and pops of the queue beside a slot or an item, unless a wakeup is
\* on its way, nor loads of a batch that neither a timer nor a caller will flush.
NobodyForgotten == NoForgottenWaiter /\ Q!NoLostWakeup /\ L!NotStranded

\* The pool runs each task once, loses none and sends on no closed channel; stages
\* deliver each item once or were cancelled; a load is in one batch until it is
\* answered; a group's first error is returned after everybody has ended.
WorkSound ==
  /\ P!EachTaskOnce /\ P!WorkersNeverPanic /\ C!StagesSound /\ L!OneBatchEach
  /\ W!GroupsSound

\* Acquire returns while holders release, Shutdown of the pool while somebody reads,
\* the reader of a pipeline and every Load always, Start after a signal, the Wait of a group
\* whose context ends; sleepers of the queue go on while there is what they wait for.
AllCallsReturn ==
  /\ AcquireReturns /\ P!ShutdownReturns /\ L!LoadReturns /\ T!StartReturns /\ W!WaitsEnd
  /\ part = "stages" => C!StagesEnd
  /\ Q!SleepersProceed

\* The other properties, stated and explained in their modules.
FifoConserved == Q!FifoConserved
TerminationOrderly == T!TerminationOrderly
ResourcesOwned == T!ResourcesOwned
OpenBounded == T!OpenBounded
CancelEndsPush == Q!CancelEndsPush
NeverDeadlocks == P!NeverDeadlocks

=============================================================================
