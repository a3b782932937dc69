----------------------------- MODULE MCMessaging -----------------------------
(***************************************************************************)
(* 15_messaging with the outbox publisher of 26_advanced, checked in one   *)
(* run: the pipeline from outbox to idempotent consumer, the inbox, the    *)
(* graceful consumer and the partitioned router; and what is tried again:  *)
(* requests with an idempotency key (08, 10), messages that may be         *)
(* dead-lettered, and jobs of 24_backgroundjobs.  They share no state, so  *)
(* a behaviour exercises one of them.                                      *)
(***************************************************************************)
EXTENDS MessagePipeline, TLC

CONSTANTS InboxEvent, InboxWorker,                              \* of the inbox
          Client, Cancellable, MaxTries,                        \* of what is tried again
          Message, Healthy, MaxAttempts,
          BaseBackoff, MaxBackoff, MaxJobAttempts, Width,
          Task, Worker, Slots, Endless, NoTask,                 \* the graceful consumer
          Key, Partition, HashKey, Buffer, MaxMessages,         \* and the router
          Exercised

VARIABLES part,                                                  \* the part exercised
          record, wpc, job, iruns,                               \* the inbox
          stage, attempt, givenUp, late,                         \* requests tried again
          request, keyLocked, cache, executed, response,
          attempts, dlqStore, dpc, curr, failures, managed,      \* messages and a job
          mu, closed, msgQueue, done, tpc, running, returned, spc, ended, \* graceful consumer
          queue, hand, worker, rcancelled, stop, routed, log     \* the router

D == INSTANCE Retries WITH
       cancelled <- givenUp, locked <- keyLocked, pc <- dpc, job <- managed
K == INSTANCE Consumers WITH CanCancel <- Endless = {}, cancelled <- rcancelled

ASSUME Parameters ==
  /\ PipelineParameters /\ D!RetryParameters /\ D!JobParameters /\ K!ConsumerParameters

\* Values for the constants: every partition is the one of some key.
MCHashKey ==
  CHOOSE h \in [Key -> Partition] : \A p \in Partition : \E k \in Key : h[k] = p
AllParts == {"pipeline", "inbox", "requests", "dlq", "job", "graceful", "router"}
OnlyPipeline == {"pipeline"}
OnlyGraceful == {"graceful"}
OnlyJob == {"job"}

inboxVars == <<record, wpc, job, iruns>>
callVars == <<stage, attempt, givenUp, late, request, keyLocked, cache, executed, response>>
dlqVars == <<attempts, dlqStore, dpc, curr, failures>>
gracefulVars == <<mu, closed, msgQueue, done, tpc, running, returned, spc, ended>>
routerVars == <<queue, hand, worker, rcancelled, stop, routed, log>>
suiteVars == <<part, outboxVars, consumerVars, inboxVars, callVars, dlqVars, managed,
               gracefulVars, routerVars>>

SuiteInit ==
  /\ part \in Exercised
  /\ PipelineInit /\ K!InboxInit /\ D!Init /\ K!GracefulInit /\ K!RouterInit

Rests(name, v) == IF part = name THEN TRUE ELSE UNCHANGED v

SuiteNext ==
  /\ UNCHANGED part
  /\ \/ part = "pipeline" /\ PipelineNext
     \/ part = "inbox" /\ K!InboxNext
     \/ part = "requests" /\ D!CallNext
     \/ part = "dlq" /\ D!DlqNext
     \/ part = "job" /\ D!JobNext
     \/ part = "graceful" /\ K!GracefulNext
     \/ part = "router" /\ K!RouterNext
  /\ Rests("pipeline", <<outboxVars, consumerVars>>) /\ Rests("inbox", inboxVars)
  /\ Rests("requests", callVars) /\ Rests("dlq", dlqVars) /\ Rests("job", managed)
  /\ Rests("graceful", gracefulVars) /\ Rests("router", routerVars)

\* The fair steps of a part that nobody uses are disabled, so that fairness need
\* not ask which part is exercised.
SuiteSpec ==
  /\ SuiteInit /\ [][SuiteNext]_suiteVars
  /\ Fairness /\ ConsumerFairness /\ D!LoopFairness /\ D!DlqFairness /\ K!GracefulFairness

\* Every variable keeps its type.
SuiteTypeOK == PipelineTypeOK /\ K!InboxTypeOK /\ D!TypeOK /\ K!GracefulTypeOK /\ K!RouterTypeOK

\* Behind the outbox with its publishers and behind the inbox, each event is handled
\* as ExactlyOnce says.
HandledExactlyOnce == PipelineExactlyOnce /\ K!InboxExactlyOnce

\* When Shutdown of the consumer or Stop of the router says that all is drained,
\* nothing that was accepted is left.
DrainsComplete == K!DrainComplete /\ K!StopDrains

\* Nothing stays undecided: every saved event is handled, every ExecuteWithRetry
\* returns, every message is handled or dead-lettered; and a job is tried at growing
\* intervals, until they overflow.
AllSettled == EventsHandled /\ D!RetriesEnd /\ D!PoisonIsolated /\ D!BackoffGrows

\* The other properties of the parts, stated and explained in their modules.
RetriedOnce == D!RetriedOnce
PerKeyFifo == K!PerKeyFifo
ShutdownReturns == K!ShutdownReturns
BackoffExact == D!BackoffExact

=============================================================================
