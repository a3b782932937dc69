----------------------------- MODULE BatchLoader -----------------------------
(***************************************************************************)
(* BatchLoader of 13_database/batch_loader.go.  Load appends its request   *)
(* under b.mu and flushes when the batch is full; a timer flushes what is  *)
(* pending otherwise.  A timer that has fired cannot be stopped any more:  *)
(* its callback runs when it gets b.mu, whatever has been flushed and      *)
(* armed since.  Each caller loads once, and a timer is named by the       *)
(* caller that armed it.                                                   *)
(***************************************************************************)
EXTENDS Integers, Sequences, FiniteSets, SequencesExt

CONSTANTS Caller,        \* goroutines that call Load
          Cancellable,   \* those whose context may end
          MaxBatchSize,  \* b.maxBatchSize, after its default
          None

LoaderParameters ==
  /\ MaxBatchSize \in Nat \ {0} /\ Cancellable \subseteq Caller
  /\ None \notin {"value", "error"}

VARIABLES pending,   \* b.pending
          timer,     \* b.timer: the caller that armed it, or None
          timers,    \* of each caller's timer: "none", "armed", "fired", "over"
          batches,   \* batches whose batchFn runs
          done,      \* callers whose ctx is done
          answer,    \* what is in the channels of each request: None, "value", "error"
          pc         \* of each Load: "new", "waiting", or what it returned

vars == <<pending, timer, timers, batches, done, answer, pc>>

Init ==
  /\ pending = <<>> /\ timer = None /\ batches = {} /\ done = {}
  /\ timers = [c \in Caller |-> "none"]
  /\ answer = [c \in Caller |-> None]
  /\ pc = [c \in Caller |-> "new"]

-----------------------------------------------------------------------------
\* timer.Stop: only a timer that has not fired is stopped.
Stopped == IF timer # None /\ timers[timer] = "armed"
             THEN [timers EXCEPT ![timer] = "over"] ELSE timers

\* b.flush: batchFn is called with the keys of the requests, each once.
Flush(reqs) == batches' = batches \cup {reqs}

\* Load fills the batch: the timer is stopped and the batch taken.
LoadFull(c) ==
  /\ Len(pending) + 1 >= MaxBatchSize
  /\ timers' = Stopped /\ timer' = None
  /\ pending' = <<>> /\ Flush(Append(pending, c))

\* Load leaves it pending, with a timer armed.
LoadPending(c) ==
  /\ Len(pending) + 1 < MaxBatchSize
  /\ pending' = Append(pending, c)
  /\ IF timer = None THEN timer' = c /\ timers' = [timers EXCEPT ![c] = "armed"]
                     ELSE UNCHANGED <<timer, timers>>
  /\ UNCHANGED batches

Load(c) ==
  /\ pc[c] = "new" /\ pc' = [pc EXCEPT ![c] = "waiting"]
  /\ LoadFull(c) \/ LoadPending(c)
  /\ UNCHANGED <<done, answer>>

\* The time of a timer is over,
Fire(c) ==
  /\ timers[c] = "armed" /\ timers' = [timers EXCEPT ![c] = "fired"]
  /\ UNCHANGED <<pending, timer, batches, done, answer, pc>>

\* and its callback takes what is pending now, with b.timer whoever armed it.
Callback(c) ==
  /\ timers[c] = "fired" /\ timers' = [timers EXCEPT ![c] = "over"]
  /\ pending' = <<>> /\ timer' = None
  /\ IF pending # <<>> THEN Flush(pending) ELSE UNCHANGED batches
  /\ UNCHANGED <<done, answer, pc>>

\* batchFn returns: with an error for all, as it may when the ctx it was given is
\* done (that of the caller that filled the batch or armed the timer), or with the
\* values of the keys it found. The channels have room, so that nobody has to wait
\* for a caller that has gone.
Answers(b, found) ==
  [c \in Caller |-> IF c \in ToSet(b) THEN IF c \in found THEN "value" ELSE "error"
                                           ELSE answer[c]]

BatchReturns(b) ==
  /\ \E found \in SUBSET ToSet(b) : answer' = Answers(b, found)
  /\ batches' = batches \ {b}
  /\ UNCHANGED <<pending, timer, timers, done, pc>>

ContextEnds(c) ==
  /\ c \in Cancellable \ done /\ pc[c] = "waiting"
  /\ done' = done \cup {c}
  /\ UNCHANGED <<pending, timer, timers, batches, answer, pc>>

\* The select of Load.
Return(c) ==
  /\ pc[c] = "waiting"
  /\ \/ answer[c] # None /\ pc' = [pc EXCEPT ![c] = answer[c]]
     \/ c \in done /\ pc' = [pc EXCEPT ![c] = "gone"]
  /\ UNCHANGED <<pending, timer, timers, batches, done, answer>>

Next ==
  \/ \E c \in Caller : Load(c) \/ Fire(c) \/ Callback(c) \/ ContextEnds(c) \/ Return(c)
  \/ \E b \in batches : BatchReturns(b)

Spec == Init /\ [][Next]_vars

\* Timers fire, goroutines run, batchFn returns.
Fairness ==
  /\ \A c \in Caller : WF_vars(Fire(c)) /\ WF_vars(Callback(c)) /\ WF_vars(Return(c))
  /\ WF_vars(\E b \in batches : BatchReturns(b))

FairSpec == Spec /\ Fairness

-----------------------------------------------------------------------------
\* Every variable keeps its type.
TypeOK ==
  /\ pending \in Seq(Caller) /\ timer \in Caller \cup {None} /\ done \subseteq Caller
  /\ timers \in [Caller -> {"none", "armed", "fired", "over"}]
  /\ \A b \in batches : b \in Seq(Caller)
  /\ answer \in [Caller -> {None, "value", "error"}]
  /\ pc \in [Caller -> {"new", "waiting", "value", "error", "gone"}]

\* A pending request has a timer that will flush it, although a late callback of an
\* earlier batch may clear the field that names it.
NotStranded == pending # <<>> => \E c \in Caller : timers[c] \in {"armed", "fired"}

\* Every request that is not answered yet is in one batch, once: the pending one or one
\* that runs; no batch is larger than the limit and none is empty.
OneBatchEach ==
  /\ \A c \in Caller :
       (pc[c] # "new" /\ answer[c] = None) =>
         Cardinality({b \in batches : c \in ToSet(b)})
           + Cardinality({i \in 1..Len(pending) : pending[i] = c}) = 1
  /\ \A b \in batches : Len(b) \in 1..MaxBatchSize
  /\ Len(pending) < MaxBatchSize

\* Every Load returns, whoever was cancelled meanwhile.
LoadReturns == \A c \in Caller : pc[c] = "waiting" ~> pc[c] \notin {"new", "waiting"}

=============================================================================
