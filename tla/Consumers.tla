------------------------------ MODULE Consumers ------------------------------
(***************************************************************************)
(* Consumers of 15_messaging: an inbox for duplicate deliveries, and two   *)
(* that hand messages to goroutines of their own and drain before they     *)
(* stop.  They share no state.                                             *)
(* InboxStore of inbox_pattern.go and the workers that use it:             *)
(* TryStartProcessing, the handler, then MarkCompleted or MarkFailed.  The *)
(* store is a table: it survives a worker that dies, whose record stays    *)
(* PROCESSING.                                                             *)
(* GracefulConsumer of consumer_lifecycle.go: Enqueue keeps c.mu while it  *)
(* waits for a slot of the channel; Shutdown needs c.mu to close it.  One  *)
(* caller shuts down: a second one returns nil at once.                    *)
(* PartitionedMessageRouter of message_ordering.go: Route sends a message  *)
(* to the queue of its key's partition, one worker per partition handles   *)
(* that queue.  A key's messages are routed by one goroutine, numbered     *)
(* from 1; Stop is called when routing is over.                            *)
(***************************************************************************)
EXTENDS SequencesExt

CONSTANTS InboxEvent, InboxWorker

VARIABLES record,    \* status in s.records, "none" when there is no record
          wpc, job,  \* where each worker is, and the event it has, if any
          iruns      \* history: how often the handler succeeded (bounded by the code)

CONSTANTS Task,       \* the tasks that are enqueued, each once
          Worker,     \* the concurrency goroutines
          Slots,      \* queueBuffer
          Endless,    \* tasks that return only when their context is cancelled
          CanCancel,  \* may the parent context be cancelled?
          NoTask,
          Key, Partition,
          HashKey,    \* HashKey[k]: the partition that k hashes to
          Buffer,     \* capacity of a partition's channel (100 in the code)
          MaxMessages \* bound: messages per key

ConsumerParameters ==
  /\ Worker # {} /\ Slots \in Nat /\ NoTask \notin Task /\ "free" \notin Task
  /\ HashKey \in [Key -> Partition] /\ MaxMessages \in Nat

VARIABLES mu,         \* "free", or who holds c.mu: a task's Enqueue
          closed,     \* c.closed, and the channel closed with it
          msgQueue,   \* the channel
          done,       \* c.ctx is done
          tpc,        \* of each Enqueue
          running,    \* the task each worker runs, or NoTask
          returned,   \* workers whose range loop has ended
          spc,        \* where Shutdown is: "no", "locking", "waiting", "nil", "timeout"
          ended       \* history: tasks that ran to their end

VARIABLES queue,      \* queue[p]: the channel of partition p
          hand,       \* the message its worker handles, a sequence of <= 1
          worker,     \* "running" or "returned"
          cancelled,  \* the router's context is done
          stop,       \* "no", "waiting" (the queues are closed) or "returned"
          routed,     \* messages of each key that Route has sent
          log         \* history: the numbers handled for each key, in order

-----------------------------------------------------------------------------
(* The inbox. *)

inboxVars == <<record, wpc, job, iruns>>

InboxInit ==
  /\ record = [e \in InboxEvent |-> "none"]
  /\ wpc = [w \in InboxWorker |-> "idle"]
  /\ job = [w \in InboxWorker |-> {}]
  /\ iruns = [e \in InboxEvent |-> 0]

\* TryStartProcessing refuses a completed event and one being processed.
RefusesCompleted(e) == record[e] = "COMPLETED"
Refuses(e) == record[e] \in {"COMPLETED", "PROCESSING"}

TryStartProcessing(w, e) ==
  /\ wpc[w] = "idle" /\ ~Refuses(e)
  /\ record' = [record EXCEPT ![e] = "PROCESSING"]
  /\ wpc' = [wpc EXCEPT ![w] = "handling"]
  /\ job' = [job EXCEPT ![w] = {e}]
  /\ UNCHANGED iruns

HandlerSucceeds(w) ==
  /\ wpc[w] = "handling"
  /\ \E e \in job[w] : iruns' = [iruns EXCEPT ![e] = @ + 1]
  /\ wpc' = [wpc EXCEPT ![w] = "succeeded"]
  /\ UNCHANGED <<record, job>>

HandlerFails(w) ==
  /\ wpc[w] = "handling"
  /\ wpc' = [wpc EXCEPT ![w] = "failed"]
  /\ UNCHANGED <<record, job, iruns>>

MarkCompleted(w) ==
  /\ wpc[w] = "succeeded"
  /\ \E e \in job[w] : record' = [record EXCEPT ![e] = "COMPLETED"]
  /\ wpc' = [wpc EXCEPT ![w] = "idle"] /\ job' = [job EXCEPT ![w] = {}]
  /\ UNCHANGED iruns

MarkFailed(w) ==
  /\ wpc[w] = "failed"
  /\ \E e \in job[w] : record' = [record EXCEPT ![e] = "FAILED"]
  /\ wpc' = [wpc EXCEPT ![w] = "idle"] /\ job' = [job EXCEPT ![w] = {}]
  /\ UNCHANGED iruns

\* A worker dies, whatever it was doing.
Crash(w) ==
  /\ wpc[w] # "dead"
  /\ wpc' = [wpc EXCEPT ![w] = "dead"]
  /\ UNCHANGED <<record, job, iruns>>

InboxNext ==
  \E w \in InboxWorker :
    \/ \E e \in InboxEvent : TryStartProcessing(w, e)
    \/ HandlerSucceeds(w) \/ HandlerFails(w) \/ MarkCompleted(w) \/ MarkFailed(w)
    \/ Crash(w)

InboxSpec == InboxInit /\ [][InboxNext]_inboxVars

\* Every variable keeps its type.
InboxTypeOK ==
  /\ record \in [InboxEvent -> {"none", "PROCESSING", "COMPLETED", "FAILED"}]
  /\ wpc \in [InboxWorker -> {"idle", "handling", "succeeded", "failed", "dead"}]
  /\ job \in [InboxWorker -> SUBSET InboxEvent] /\ iruns \in [InboxEvent -> Nat]

E == INSTANCE ExactlyOnce WITH Event <- InboxEvent, saved <- InboxEvent, handled <- iruns

\* An event is handled at most once although its deliveries overlap and workers
\* die between the handler and the mark (inbox_pattern.md:10-16).
InboxExactlyOnce == E!Spec

-----------------------------------------------------------------------------
(* The graceful consumer. *)

gracefulVars == <<mu, closed, msgQueue, done, tpc, running, returned, spc, ended>>

GracefulInit ==
  /\ mu = "free" /\ closed = FALSE /\ msgQueue = <<>> /\ done = FALSE
  /\ tpc = [t \in Task |-> "new"]
  /\ running = [w \in Worker |-> NoTask]
  /\ returned = {} /\ spc = "no" /\ ended = {}

EnqueueGoes(t, s) == tpc' = [tpc EXCEPT ![t] = s]

\* Enqueue gets c.mu and looks at c.closed; it goes on holding c.mu,
EnqueueLocks(t) ==
  /\ tpc[t] = "new" /\ mu = "free"
  /\ IF closed THEN EnqueueGoes(t, "refused") /\ UNCHANGED mu
               ELSE EnqueueGoes(t, "select") /\ mu' = t
  /\ UNCHANGED <<closed, msgQueue, done, running, returned, spc, ended>>

\* until the channel takes the task
EnqueueSends(t) ==
  /\ tpc[t] = "select" /\ Len(msgQueue) < Slots
  /\ msgQueue' = Append(msgQueue, t)
  /\ EnqueueGoes(t, "accepted") /\ mu' = "free"
  /\ UNCHANGED <<closed, done, running, returned, spc, ended>>

\* or the context is done.
EnqueueGivesUp(t) ==
  /\ tpc[t] = "select" /\ done
  /\ EnqueueGoes(t, "refused") /\ mu' = "free"
  /\ UNCHANGED <<closed, msgQueue, done, running, returned, spc, ended>>

-----------------------------------------------------------------------------
\* A worker receives the next task,
Receive(w) ==
  /\ w \notin returned /\ running[w] = NoTask /\ msgQueue # <<>>
  /\ running' = [running EXCEPT ![w] = Head(msgQueue)]
  /\ msgQueue' = Tail(msgQueue)
  /\ UNCHANGED <<mu, closed, done, tpc, returned, spc, ended>>

\* the task returns,
TaskReturns(w) ==
  /\ running[w] # NoTask
  /\ running[w] \in Endless => done
  /\ ended' = ended \cup {running[w]}
  /\ running' = [running EXCEPT ![w] = NoTask]
  /\ UNCHANGED <<mu, closed, msgQueue, done, tpc, returned, spc>>

\* and the loop ends when the channel is closed and drained.
RangeEndsWhenClosed == closed
RangeEnds == closed /\ msgQueue = <<>>

WorkerReturns(w) ==
  /\ w \notin returned /\ running[w] = NoTask /\ RangeEnds
  /\ returned' = returned \cup {w}
  /\ UNCHANGED <<mu, closed, msgQueue, done, tpc, running, spc, ended>>

-----------------------------------------------------------------------------
ShutdownCall ==
  /\ spc = "no" /\ spc' = "locking"
  /\ UNCHANGED <<mu, closed, msgQueue, done, tpc, running, returned, ended>>

ShutdownCloses ==
  /\ spc = "locking" /\ mu = "free"
  /\ closed' = TRUE /\ spc' = "waiting"
  /\ UNCHANGED <<mu, msgQueue, done, tpc, running, returned, ended>>

\* The select: wg.Wait has returned, or the timeout has passed; both cancel.
ShutdownDrained ==
  /\ spc = "waiting" /\ returned = Worker
  /\ done' = TRUE /\ spc' = "nil"
  /\ UNCHANGED <<mu, closed, msgQueue, tpc, running, returned, ended>>

ShutdownTimesOut ==
  /\ spc = "waiting"
  /\ done' = TRUE /\ spc' = "timeout"
  /\ UNCHANGED <<mu, closed, msgQueue, tpc, running, returned, ended>>

ContextEnds ==
  /\ CanCancel /\ ~done /\ done' = TRUE
  /\ UNCHANGED <<mu, closed, msgQueue, tpc, running, returned, spc, ended>>

Shutdown == ShutdownCloses \/ ShutdownDrained \/ ShutdownTimesOut
WorkerStep(w) == Receive(w) \/ TaskReturns(w) \/ WorkerReturns(w)
Enqueue(t) == EnqueueLocks(t) \/ EnqueueSends(t) \/ EnqueueGivesUp(t)

GracefulNext ==
  \/ \E t \in Task : Enqueue(t)
  \/ \E w \in Worker : WorkerStep(w)
  \/ ShutdownCall \/ Shutdown \/ ContextEnds

GracefulSpec == GracefulInit /\ [][GracefulNext]_gracefulVars

\* Goroutines run on, the mutex is fair, the timeout passes; nobody is obliged
\* to call or to cancel.
GracefulFairness ==
  /\ \A t \in Task : WF_gracefulVars(EnqueueSends(t) \/ EnqueueGivesUp(t))
  /\ \A w \in Worker : WF_gracefulVars(WorkerStep(w))
  /\ SF_gracefulVars(Shutdown)

-----------------------------------------------------------------------------
\* Every variable keeps its type.
GracefulTypeOK ==
  /\ mu \in Task \cup {"free"} /\ {closed, done} \subseteq BOOLEAN
  /\ msgQueue \in Seq(Task) /\ Len(msgQueue) <= Slots
  /\ tpc \in [Task -> {"new", "select", "accepted", "refused"}]
  /\ running \in [Worker -> Task \cup {NoTask}] /\ returned \subseteq Worker
  /\ spc \in {"no", "locking", "waiting", "nil", "timeout"} /\ ended \subseteq Task

\* Shutdown returns nil only when every accepted task has run to its end, and the
\* last worker never leaves while a task is queued or can still be.
DrainComplete ==
  /\ spc = "nil" => ended = {t \in Task : tpc[t] = "accepted"}
  /\ returned = Worker => msgQueue = <<>> /\ \A t \in Task : tpc[t] # "select"

\* Shutdown "waits for in-flight tasks to complete, or times out" (line 73): it
\* returns, even when a task does not.
ShutdownReturns == spc = "locking" ~> spc \in {"nil", "timeout"}

-----------------------------------------------------------------------------
(* The router. *)

routerVars == <<queue, hand, worker, cancelled, stop, routed, log>>

RouterInit ==
  /\ queue = [p \in Partition |-> <<>>] /\ hand = [p \in Partition |-> <<>>]
  /\ worker = [p \in Partition |-> "running"]
  /\ cancelled = FALSE /\ stop = "no"
  /\ routed = [k \in Key |-> 0] /\ log = [k \in Key |-> <<>>]

\* Route blocks while the channel is full.
Route(k) ==
  /\ stop = "no" /\ routed[k] < MaxMessages
  /\ Len(queue[HashKey[k]]) < Buffer
  /\ routed' = [routed EXCEPT ![k] = @ + 1]
  /\ queue' = [queue EXCEPT ![HashKey[k]] = Append(@, <<k, routed[k] + 1>>)]
  /\ UNCHANGED <<hand, worker, cancelled, stop, log>>

\* The worker receives; a Go channel hands out the oldest message first.
TakeNewest(s) == Last(s)
TakeOldest(s) == Head(s)

Takes(p) ==
  /\ worker[p] = "running" /\ hand[p] = <<>> /\ queue[p] # <<>>
  /\ hand' = [hand EXCEPT ![p] = <<TakeOldest(queue[p])>>]
  /\ queue' = [queue EXCEPT ![p] = Tail(@)]
  /\ UNCHANGED <<worker, cancelled, stop, routed, log>>

\* Its handler returns; an error is ignored.
Handled(p) ==
  /\ hand[p] # <<>>
  /\ LET m == Head(hand[p]) IN log' = [log EXCEPT ![m[1]] = Append(@, m[2])]
  /\ hand' = [hand EXCEPT ![p] = <<>>]
  /\ UNCHANGED <<queue, worker, cancelled, stop, routed>>

\* The worker returns when the context is done, also with messages queued, or
\* when its channel is closed and drained.
Ends(p) == cancelled \/ (stop # "no" /\ queue[p] = <<>>)

PartitionReturns(p) ==
  /\ worker[p] = "running" /\ hand[p] = <<>> /\ Ends(p)
  /\ worker' = [worker EXCEPT ![p] = "returned"]
  /\ UNCHANGED <<queue, hand, cancelled, stop, routed, log>>

\* Stop closes the channels, waits for the workers, and cancels.
StopCalled ==
  /\ stop = "no" /\ stop' = "waiting"
  /\ UNCHANGED <<queue, hand, worker, cancelled, routed, log>>

StopReturns ==
  /\ stop = "waiting" /\ \A p \in Partition : worker[p] = "returned"
  /\ stop' = "returned" /\ cancelled' = TRUE
  /\ UNCHANGED <<queue, hand, worker, routed, log>>

RouterCancelled ==
  /\ ~cancelled /\ cancelled' = TRUE
  /\ UNCHANGED <<queue, hand, worker, stop, routed, log>>

RouterNext ==
  \/ \E k \in Key : Route(k)
  \/ \E p \in Partition : Takes(p) \/ Handled(p) \/ PartitionReturns(p)
  \/ StopCalled \/ StopReturns \/ RouterCancelled

RouterSpec == RouterInit /\ [][RouterNext]_routerVars

-----------------------------------------------------------------------------
Messages == Key \X (1..MaxMessages)

\* Every variable keeps its type.
RouterTypeOK ==
  /\ queue \in [Partition -> Seq(Messages)] /\ hand \in [Partition -> Seq(Messages)]
  /\ worker \in [Partition -> {"running", "returned"}] /\ cancelled \in BOOLEAN
  /\ stop \in {"no", "waiting", "returned"}
  /\ routed \in [Key -> 0..MaxMessages] /\ log \in [Key -> Seq(1..MaxMessages)]

\* Of the messages in line the ones of k have the numbers first+1..last, in this order.
InOrder(line, k, first, last) ==
  LET mine == {i \in 1..Len(line) : line[i][1] = k} IN
    /\ {line[i][2] : i \in mine} = first + 1 .. last
    /\ \A i, j \in mine : i < j => line[i][2] < line[j][2]

\* Per-key FIFO (line 20): what was handled for a key, then what is in hand, then
\* what is queued, is what was routed, without a gap, a copy or an inversion,
\* although keys share partitions and the context may be cancelled midway.
Line(p) == hand[p] \o queue[p]
PerKeyFifo ==
  \A k \in Key :
    /\ \A i \in 1..Len(log[k]) : log[k][i] = i
    /\ InOrder(Line(HashKey[k]), k, Len(log[k]), routed[k])

\* Stop drains: unless the parent context was cancelled first, nothing is left
\* in the partitions when the workers have returned (message_ordering.md:55).
StopDrains ==
  ~cancelled => \A p \in Partition : worker[p] = "returned" => queue[p] = <<>>

=============================================================================
