----------------------------- MODULE WorkerPool -----------------------------
(***************************************************************************)
(* BoundedWorkerPool of 09_concurrency/worker_pool.go: submitters, worker  *)
(* goroutines, the goroutine that calls Shutdown and the reader of         *)
(* Results().  A channel is a bounded sequence with a closed flag; a       *)
(* select is the choice among its ready cases.  A panic stops the program. *)
(***************************************************************************)
EXTENDS Integers, Sequences, FiniteSets, Functions

CONSTANTS Task,          \* the tasks that may be submitted, each once
          Worker,        \* the workerCount goroutines
          QueueCapacity, \* of taskQueue and of results
          Uses           \* the ways the pool is used that are considered

\* A way to use the pool: may the parent context be cancelled, does Shutdown
\* wait until nobody submits any more, does the reader start before it returns?
Use == [canCancel : BOOLEAN, disciplined : BOOLEAN, eagerReader : BOOLEAN]

PoolParameters == QueueCapacity \in Nat \ {0} /\ Uses \subseteq Use

VARIABLES use,                     \* how this pool is used
          taskQueue, queueClosed,  \* p.taskQueue
          results, resultsClosed,  \* p.results
          cancelled,               \* p.ctx is done
          submitting,              \* tasks whose Submit has been called
          accepted,                \* tasks whose Submit returned true
          wpc,                     \* where each worker is in its loop
          wtask,                   \* the task it holds, or {} (a set of <= 1)
          shutdown,                \* "no", "waiting" in wg.Wait, or "returned"
          received,                \* tasks whose result the reader has
          panicked                 \* "none", or who panicked

queue == <<taskQueue, queueClosed>>
out == <<results, resultsClosed>>
users == <<submitting, accepted, received>>
workers == <<wpc, wtask>>
vars == <<use, queue, out, users, workers, cancelled, shutdown, panicked>>

Init ==
  /\ use \in Uses
  /\ taskQueue = <<>> /\ queueClosed = FALSE
  /\ results = <<>> /\ resultsClosed = FALSE
  /\ cancelled = FALSE
  /\ submitting = {} /\ accepted = {}
  /\ wpc = [w \in Worker |-> "select"]
  /\ wtask = [w \in Worker |-> {}]
  /\ shutdown = "no"
  /\ received = {}
  /\ panicked = "none"

-----------------------------------------------------------------------------
\* Submit.
SubmitCall(t) ==
  /\ t \notin submitting
  /\ use.disciplined => shutdown = "no"
  /\ submitting' = submitting \cup {t}
  /\ UNCHANGED <<use, queue, out, workers, cancelled, accepted, shutdown, received, panicked>>

Pending(t) == t \in submitting /\ t \notin accepted

\* A channel with its slots taken is not ready for a send.
HasRoomAlways(ch) == TRUE
HasRoom(ch) == Len(ch) < QueueCapacity

\* The send of Submit; on a closed channel it panics.
SubmitSend(t) ==
  /\ Pending(t)
  /\ queueClosed \/ HasRoom(taskQueue)
  /\ IF queueClosed
       THEN panicked' = "submitter" /\ UNCHANGED <<taskQueue, accepted>>
       ELSE /\ taskQueue' = Append(taskQueue, t)
            /\ accepted' = accepted \cup {t}
            /\ UNCHANGED panicked
  /\ UNCHANGED <<use, out, workers, queueClosed, cancelled, submitting, shutdown, received>>

\* Submit returns false; the caller may try the task again.
SubmitCancelled(t) ==
  /\ Pending(t)
  /\ cancelled
  /\ submitting' = submitting \ {t}
  /\ UNCHANGED <<use, queue, out, workers, cancelled, accepted, shutdown, received, panicked>>

-----------------------------------------------------------------------------
\* What a receive leaves in the channel.
Received(ch) == Tail(ch)

\* The outer select of a worker receives a task,
WorkerTake(w) ==
  /\ wpc[w] = "select"
  /\ taskQueue # <<>>
  /\ wtask' = [wtask EXCEPT ![w] = {Head(taskQueue)}]
  /\ taskQueue' = Received(taskQueue)
  /\ wpc' = [wpc EXCEPT ![w] = "running"]
  /\ UNCHANGED <<use, out, users, queueClosed, cancelled, shutdown, panicked>>

\* task.Fn returns,
WorkerRun(w) ==
  /\ wpc[w] = "running"
  /\ wpc' = [wpc EXCEPT ![w] = "sending"]
  /\ UNCHANGED <<use, queue, out, users, cancelled, wtask, shutdown, panicked>>

\* and the inner select sends its result; on a closed channel that panics.
WorkerSend(w) ==
  /\ wpc[w] = "sending"
  /\ resultsClosed \/ HasRoom(results)
  /\ IF resultsClosed
       THEN panicked' = "worker" /\ UNCHANGED <<results, wpc, wtask>>
       ELSE /\ results' = results \o <<CHOOSE t \in wtask[w] : TRUE>>
            /\ wtask' = [wtask EXCEPT ![w] = {}]
            /\ wpc' = [wpc EXCEPT ![w] = "select"]
            /\ UNCHANGED panicked
  /\ UNCHANGED <<use, queue, users, resultsClosed, cancelled, shutdown>>

\* When a worker in the outer select may return: the context is done, or the
\* queue is closed and empty.
MayReturn == cancelled \/ (queueClosed /\ taskQueue = <<>>)

\* A worker in the inner select may give its result up when the context is done.
NeverGivesUp == FALSE
MayGiveUp == cancelled

\* A worker returns, from the outer select or, cancelled, from the inner one.
WorkerReturn(w) ==
  /\ \/ wpc[w] = "select" /\ MayReturn
     \/ wpc[w] = "sending" /\ MayGiveUp
  /\ wpc' = [wpc EXCEPT ![w] = "returned"]
  /\ UNCHANGED <<use, queue, out, users, cancelled, wtask, shutdown, panicked>>

-----------------------------------------------------------------------------
\* close(p.taskQueue).
ShutdownCall ==
  /\ shutdown = "no"
  /\ use.disciplined => \A t \in Task : ~Pending(t)
  /\ shutdown' = "waiting"
  /\ queueClosed' = TRUE
  /\ UNCHANGED <<use, out, users, workers, taskQueue, cancelled, panicked>>

\* p.wg.Wait() has returned.
WaitOver == \A w \in Worker : wpc[w] = "returned"

\* close(p.results); p.cancel().
ShutdownReturn ==
  /\ shutdown = "waiting"
  /\ WaitOver
  /\ shutdown' = "returned"
  /\ resultsClosed' = TRUE
  /\ cancelled' = TRUE
  /\ UNCHANGED <<use, queue, users, workers, results, panicked>>

\* The parent context is cancelled.
ParentCancel ==
  /\ use.canCancel
  /\ ~cancelled
  /\ cancelled' = TRUE
  /\ UNCHANGED <<use, queue, out, users, workers, shutdown, panicked>>

\* The consumer of Results().
Read ==
  /\ use.eagerReader \/ shutdown = "returned"
  /\ results # <<>>
  /\ received' = received \cup {Head(results)}
  /\ results' = Received(results)
  /\ UNCHANGED <<use, queue, workers, resultsClosed, cancelled, submitting, accepted, shutdown, panicked>>

WorkerStep(w) ==
  WorkerTake(w) \/ WorkerRun(w) \/ WorkerSend(w) \/ WorkerReturn(w)

\* A panic ends the program.
Running == panicked = "none"

Next ==
  /\ Running
  /\ \/ \E t \in Task : SubmitCall(t) \/ SubmitSend(t) \/ SubmitCancelled(t)
     \/ \E w \in Worker : WorkerStep(w)
     \/ ShutdownCall \/ ShutdownReturn
     \/ ParentCancel
     \/ Read

Spec == Init /\ [][Next]_vars

\* Goroutines that can run do, task functions return, and a reader that has
\* started goes on reading; nobody has to submit, cancel or shut down.
Fairness ==
  /\ \A t \in Task : WF_vars(Running /\ (SubmitSend(t) \/ SubmitCancelled(t)))
  /\ \A w \in Worker : WF_vars(Running /\ WorkerStep(w))
  /\ WF_vars(Running /\ ShutdownReturn)
  /\ WF_vars(Running /\ Read)

FairSpec == Spec /\ Fairness

-----------------------------------------------------------------------------
\* Where a task can be once it was accepted.
InWorkers == UNION {wtask[w] : w \in Worker}
Held == Range(taskQueue) \cup InWorkers \cup Range(results) \cup received

\* Every variable keeps its type; the channels keep their capacity.
TypeOK ==
  /\ use \in Uses
  /\ taskQueue \in Seq(Task) /\ Len(taskQueue) <= QueueCapacity
  /\ results \in Seq(Task) /\ Len(results) <= QueueCapacity
  /\ {queueClosed, resultsClosed, cancelled} \subseteq BOOLEAN
  /\ submitting \subseteq Task /\ accepted \subseteq Task /\ received \subseteq Task
  /\ wpc \in [Worker -> {"select", "running", "sending", "returned"}]
  /\ wtask \in [Worker -> SUBSET Task]
  /\ shutdown \in {"no", "waiting", "returned"}
  /\ panicked \in {"none", "submitter", "worker"}

\* No worker sends on the closed results channel, however Shutdown, a parent
\* cancellation and late submitters interleave (the pitfall of worker_pool.md:74).
WorkersNeverPanic == panicked # "worker"

\* An accepted task is in one place only, so it runs once and yields at most
\* one result; none disappears, not even under cancellation, which strands
\* tasks in the queue or in the worker that returned with them.
EachTaskOnce ==
  /\ Held = accepted
  /\ Len(taskQueue) + Len(results) + Cardinality(InWorkers) + Cardinality(received)
       = Cardinality(accepted)

\* Shutdown returns, unless a late Submit panics, when somebody reads the results or
\* the context is cancelled, and without any reader when the results of all accepted
\* tasks have room in their channel.
ShutdownReturns ==
  shutdown = "waiting" /\ (\/ use.eagerReader \/ cancelled
                           \/ Cardinality(accepted \ received) <= QueueCapacity)
    ~> shutdown = "returned" \/ ~Running

\* "... and closes the results channel without deadlocks" (worker_pool.md:13), whoever
\* reads them and when.
NeverDeadlocks == shutdown = "waiting" ~> shutdown = "returned" \/ ~Running

=============================================================================
