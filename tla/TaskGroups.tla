------------------------------ MODULE TaskGroups ------------------------------
(***************************************************************************)
(* Goroutines that somebody waits for with a WaitGroup: Group of           *)
(* 09_concurrency/errgroup.go, which cancels a shared context on the first *)
(* error; StartupValidator of 01_lifecycle/graceful_startup.go, which      *)
(* pings all dependencies at once and judges the critical ones; and the    *)
(* loop of ScheduledTaskRunner of 24_backgroundjobs/scheduled_runner.go.   *)
(***************************************************************************)
EXTENDS Integers, FiniteSets

CONSTANTS Task,      \* functions given to Go, or dependencies
          Critical,  \* the dependencies that are critical
          None, Parent

TaskParameters ==
  Critical \subseteq Task /\ None \notin Task \cup {"error"} /\ Parent \notin Task

VARIABLES kind,      \* "group", "startup" or "runner"
          state,     \* of each task: "new", "running", "failed", "ended"
          failures,  \* history: tasks that returned an error
          err,       \* g.err: None, or the task whose error it is
          cause,     \* of the context: None while it goes on, Parent, or a task
          loop,      \* of the runner: "off", "select", "running", "ended"
          tick,      \* a tick is in ticker.C, which has room for one
          waiter,    \* Wait, ValidateAll or Stop: "no", "waiting", "returned"
          answer     \* what it returned: None, or "error"

vars == <<kind, state, failures, err, cause, loop, tick, waiter, answer>>
runner == <<loop, tick>>
tasks == <<state, failures, err>>

Init ==
  /\ kind \in {"group", "startup", "runner"}
  /\ state = [t \in Task |-> "new"] /\ failures = {} /\ err = None
  /\ cause = None /\ loop = "off" /\ tick = FALSE
  /\ waiter = "no" /\ answer = None

Now(t, s) == state' = [state EXCEPT ![t] = s]
Running == {t \in Task : state[t] = "running"}

\* CancelCauseFunc: only the first call counts.
Cancelled(by) == IF cause = None THEN by ELSE cause

\* The parent's context ends, or the timeout of ValidateAll.
ParentEnds ==
  /\ cause = None /\ cause' = Parent
  /\ UNCHANGED <<kind, tasks, runner, waiter, answer>>

-----------------------------------------------------------------------------
\* Go, called by the owner before Wait or by a function that runs.
Go(t) ==
  /\ kind = "group" /\ state[t] = "new"
  /\ waiter = "no" \/ Running # {}
  /\ Now(t, "running")
  /\ UNCHANGED <<kind, failures, err, cause, runner, waiter, answer>>

\* ValidateAll starts a ping of every dependency and waits for them.
ValidateAll ==
  /\ kind = "startup" /\ waiter = "no"
  /\ state' = [t \in Task |-> "running"] /\ waiter' = "waiting"
  /\ UNCHANGED <<kind, failures, err, cause, runner, answer>>

\* A function or a ping returns nil,
Succeeds(t) ==
  /\ state[t] = "running" /\ Now(t, "ended")
  /\ UNCHANGED <<kind, failures, err, cause, runner, waiter, answer>>

\* or an error: a ping's goes into a channel with room for all of them.
Fails(t) ==
  /\ state[t] = "running"
  /\ Now(t, IF kind = "group" THEN "failed" ELSE "ended")
  /\ failures' = failures \cup {t}
  /\ UNCHANGED <<kind, err, cause, runner, waiter, answer>>

\* Under g.errMu the first error is kept and cancels the context.
FirstError(t) == IF err = None THEN t ELSE err

Report(t) ==
  /\ state[t] = "failed" /\ Now(t, "ended")
  /\ err' = FirstError(t)
  /\ cause' = IF err = None THEN Cancelled(t) ELSE cause
  /\ UNCHANGED <<kind, failures, runner, waiter, answer>>

-----------------------------------------------------------------------------
\* Start of the runner, once, and the ticks: one that finds the last one still in
\* the channel is dropped.
Start ==
  /\ kind = "runner" /\ loop = "off" /\ waiter = "no" /\ loop' = "select"
  /\ UNCHANGED <<kind, tasks, cause, tick, waiter, answer>>

Ticks ==
  /\ loop \in {"select", "running"} /\ tick' = TRUE
  /\ UNCHANGED <<kind, tasks, cause, loop, waiter, answer>>

\* The select may take a tick although the context is done.
RunTask ==
  /\ loop = "select" /\ tick /\ loop' = "running" /\ tick' = FALSE
  /\ UNCHANGED <<kind, tasks, cause, waiter, answer>>

\* The task returns, its error is dropped.
TaskReturns ==
  /\ loop = "running" /\ loop' = "select"
  /\ UNCHANGED <<kind, tasks, cause, tick, waiter, answer>>

LoopEnds ==
  /\ loop = "select" /\ cause # None /\ loop' = "ended"
  /\ UNCHANGED <<kind, tasks, cause, tick, waiter, answer>>

-----------------------------------------------------------------------------
\* Wait waits; Stop cancels the context first.
Wait ==
  /\ kind # "startup" /\ waiter = "no" /\ waiter' = "waiting"
  /\ cause' = IF kind = "runner" THEN Cancelled(Parent) ELSE cause
  /\ UNCHANGED <<kind, tasks, runner, answer>>

\* The errors of dependencies that are not critical are dropped.
CriticalFailed == kind = "startup" /\ failures \cap Critical # {}

\* wg.Wait returns when nobody is left and the context is cancelled at last: with the
\* first error of a group, with the errors of critical dependencies.
Returns ==
  /\ waiter = "waiting" /\ waiter' = "returned"
  /\ \A t \in Task : state[t] \in {"new", "ended"}
  /\ loop \in {"off", "ended"}
  /\ cause' = Cancelled(Parent)
  /\ answer' = IF err # None \/ CriticalFailed THEN "error" ELSE None
  /\ UNCHANGED <<kind, tasks, runner>>

Next ==
  \/ ParentEnds \/ ValidateAll \/ Start \/ Ticks \/ RunTask \/ TaskReturns \/ LoopEnds
  \/ Wait \/ Returns
  \/ \E t \in Task : Go(t) \/ Succeeds(t) \/ Fails(t) \/ Report(t)

Spec == Init /\ [][Next]_vars

\* Goroutines run, and what is handed a context returns when it is done; select picks
\* Done in the end though ticks keep coming.
Fairness ==
  /\ WF_vars(Returns) /\ SF_vars(LoopEnds)
  /\ WF_vars(cause # None /\ TaskReturns)
  /\ \A t \in Task : WF_vars(Report(t)) /\ WF_vars(cause # None /\ Fails(t))

-----------------------------------------------------------------------------
\* Every variable keeps its type.
TypeOK ==
  /\ kind \in {"group", "startup", "runner"} /\ failures \subseteq Task
  /\ state \in [Task -> {"new", "running", "failed", "ended"}]
  /\ err \in Task \cup {None} /\ cause \in Task \cup {None, Parent}
  /\ loop \in {"off", "select", "running", "ended"} /\ tick \in BOOLEAN
  /\ waiter \in {"no", "waiting", "returned"} /\ answer \in {None, "error"}

\* The error that Wait returns is the one that cancelled the context, unless the parent
\* was first; none is forgotten and none invented.  Whoever has waited finds nothing
\* running any more, and a validated startup has no critical dependency that failed.
GroupsSound ==
  /\ err # None => cause \in {err, Parent}
  /\ cause \in Task => cause = err
  /\ waiter = "returned" =>
       /\ Running = {} /\ loop # "running"
       /\ kind = "group" => ((answer = None) <=> (failures = {}))
       /\ kind = "startup" /\ answer = None => failures \cap Critical = {}

\* A group whose function failed, a validation or a runner whose context ends, is over.
WaitsEnd == (waiter = "waiting" /\ cause # None) ~> waiter = "returned"

=============================================================================
