---------------------------- MODULE ChannelStages ----------------------------
(***************************************************************************)
(* Goroutines joined by channels, in the two shapes of the repository:     *)
(* "fan", FanOut and FanIn of 09_concurrency/fanout_fanin.go fed by        *)
(* GenerateSequence of channel_ownership.go, with unbuffered channels; and *)
(* "pipeline", RunCancellationPipeline of 05_context, where workers send   *)
(* straight into a buffer with room for every result.                      *)
(***************************************************************************)
EXTENDS Integers, Sequences, FiniteSets, SequencesExt

CONSTANTS Worker,      \* worker goroutines, each with its channel in a fan
          Count,       \* items or jobs
          Nothing,     \* no item in hand
          Ended        \* the goroutine has returned

\* Without a number of workers the code starts four.
StageParameters ==
  /\ Count \in Nat /\ Worker # {}
  /\ Nothing \notin 1..Count /\ Ended \notin 1..Count /\ Nothing # Ended

VARIABLES shape,       \* "fan" or "pipeline"
          next,        \* the item that the producer sends next
          source,      \* in or jobCh
          sourceClosed,
          worker,      \* the result each worker offers, Nothing, or Ended
          forwarder,   \* the same for the goroutines of FanIn
          merged,      \* the buffer of resultCh; a fan's merged channel has none
          mergedClosed,
          cancelled,   \* ctx is done
          received,    \* what the reader has got
          reader       \* "reading", or how it ended: "complete", "cancelled"

vars == <<shape, next, source, sourceClosed, worker, forwarder, merged, mergedClosed,
          cancelled, received, reader>>

Items == 1..Count

\* The pipeline enqueues its jobs and closes their channel before workers start;
\* it has no forwarders.
Init ==
  /\ shape \in {"fan", "pipeline"}
  /\ IF shape = "fan" THEN next = 1 /\ source = <<>> /\ sourceClosed = FALSE
     ELSE next = Count + 1 /\ source = [i \in Items |-> i] /\ sourceClosed = TRUE
  /\ worker = [w \in Worker |-> Nothing]
  /\ forwarder = [w \in Worker |-> IF shape = "fan" THEN Nothing ELSE Ended]
  /\ merged = <<>> /\ mergedClosed = FALSE
  /\ cancelled = FALSE /\ received = <<>> /\ reader = "reading"

-----------------------------------------------------------------------------
\* GenerateSequence: the owner of the channel sends every item and closes it.
Generate ==
  /\ ~sourceClosed
  /\ IF next <= Count
       THEN source' = Append(source, next) /\ next' = next + 1 /\ UNCHANGED sourceClosed
       ELSE sourceClosed' = TRUE /\ UNCHANGED <<source, next>>
  /\ UNCHANGED <<shape, worker, forwarder, merged, mergedClosed, cancelled, received, reader>>

WorkerIs(w, s) == worker' = [worker EXCEPT ![w] = s]
ForwarderIs(w, s) == forwarder' = [forwarder EXCEPT ![w] = s]

\* A worker takes an item and computes its result,
Take(w) ==
  /\ worker[w] = Nothing /\ source # <<>>
  /\ WorkerIs(w, Head(source)) /\ source' = Tail(source)
  /\ UNCHANGED <<shape, next, sourceClosed, forwarder, merged, mergedClosed, cancelled,
                 received, reader>>

\* offers it to its forwarder, or sends it into the buffer,
Offer(w) ==
  /\ worker[w] \in Items
  /\ WorkerIs(w, Nothing)
  /\ IF shape = "fan"
       THEN forwarder[w] = Nothing /\ ForwarderIs(w, worker[w]) /\ UNCHANGED merged
       ELSE Len(merged) < Count /\ merged' = Append(merged, worker[w]) /\ UNCHANGED forwarder
  /\ UNCHANGED <<shape, next, source, sourceClosed, mergedClosed, cancelled, received, reader>>

\* and ends when the channel is closed and empty, or the context is done: what it
\* has in hand is dropped.
Drained == sourceClosed /\ source = <<>>
WorkerEnds(w) ==
  /\ worker[w] # Ended
  /\ cancelled \/ (worker[w] = Nothing /\ Drained)
  /\ WorkerIs(w, Ended)
  /\ UNCHANGED <<shape, next, source, sourceClosed, forwarder, merged, mergedClosed, cancelled,
                 received, reader>>

\* A forwarder ends when its worker has closed the channel, or the context is done.
ForwarderEnds(w) ==
  /\ forwarder[w] # Ended
  /\ cancelled \/ (forwarder[w] = Nothing /\ worker[w] = Ended)
  /\ ForwarderIs(w, Ended)
  /\ UNCHANGED <<shape, next, source, sourceClosed, worker, merged, mergedClosed, cancelled,
                 received, reader>>

\* The last goroutine waits for all that send, then closes the channel.
AllButOneEnded ==
  \E v \in Worker : \A w \in Worker \ {v} : worker[w] = Ended /\ forwarder[w] = Ended
AllEnded == \A w \in Worker : worker[w] = Ended /\ forwarder[w] = Ended

CloseMerged ==
  /\ ~mergedClosed /\ AllEnded
  /\ mergedClosed' = TRUE
  /\ UNCHANGED <<shape, next, source, sourceClosed, worker, forwarder, merged, cancelled,
                 received, reader>>

-----------------------------------------------------------------------------
\* The reader receives from a forwarder,
Deliver(w) ==
  /\ reader = "reading" /\ forwarder[w] \in Items
  /\ received' = Append(received, forwarder[w]) /\ ForwarderIs(w, Nothing)
  /\ UNCHANGED <<shape, next, source, sourceClosed, worker, merged, mergedClosed, cancelled, reader>>

\* or from the buffer,
Collect ==
  /\ reader = "reading" /\ merged # <<>>
  /\ received' = Append(received, Head(merged)) /\ merged' = Tail(merged)
  /\ UNCHANGED <<shape, next, source, sourceClosed, worker, forwarder, mergedClosed, cancelled, reader>>

\* until the channel is closed and empty; the pipeline then looks at ctx.Err().
ReaderReturns ==
  /\ reader = "reading" /\ mergedClosed /\ merged = <<>>
  /\ reader' = IF cancelled THEN "cancelled" ELSE "complete"
  /\ UNCHANGED <<shape, next, source, sourceClosed, worker, forwarder, merged, mergedClosed,
                 cancelled, received>>

Cancel ==
  /\ ~cancelled /\ cancelled' = TRUE
  /\ UNCHANGED <<shape, next, source, sourceClosed, worker, forwarder, merged, mergedClosed,
                 received, reader>>

WorkerStep(w) == Take(w) \/ Offer(w) \/ WorkerEnds(w)
ReaderStep == Collect \/ ReaderReturns \/ \E w \in Worker : Deliver(w)

Next ==
  \/ Generate \/ CloseMerged \/ ReaderStep \/ Cancel
  \/ \E w \in Worker : WorkerStep(w) \/ ForwarderEnds(w)

Spec == Init /\ [][Next]_vars

\* Goroutines run on; nobody is obliged to cancel.
Fairness ==
  /\ WF_vars(Generate) /\ WF_vars(CloseMerged) /\ WF_vars(ReaderStep)
  /\ \A w \in Worker : WF_vars(WorkerStep(w)) /\ WF_vars(ForwarderEnds(w))

FairSpec == Spec /\ Fairness

-----------------------------------------------------------------------------
\* Every variable keeps its type.
TypeOK ==
  /\ shape \in {"fan", "pipeline"} /\ next \in 1..(Count + 1)
  /\ source \in Seq(Items) /\ merged \in Seq(Items) /\ received \in Seq(Items)
  /\ {worker, forwarder} \subseteq [Worker -> Items \cup {Nothing, Ended}]
  /\ {sourceClosed, mergedClosed, cancelled} \subseteq BOOLEAN
  /\ reader \in {"reading", "complete", "cancelled"}

\* The items somewhere between the producer and the reader, the received ones too.
Around ==
  ToSet(source) \cup ToSet(merged) \cup ToSet(received)
    \cup {i \in Items : \E w \in Worker : i \in {worker[w], forwarder[w]}}

\* No item is delivered twice and, unless the context ends, none is lost: what has been
\* produced is in one place, and a reader told "complete" has got everything.  Nobody
\* sends on the merged channel after it was closed.
StagesSound ==
  /\ \A i, j \in 1..Len(received) : received[i] = received[j] => i = j
  /\ ~cancelled => Around = 1..(next - 1)
  /\ reader = "complete" => ToSet(received) = Items
  /\ mergedClosed => \A w \in Worker : worker[w] \notin Items /\ forwarder[w] \notin Items

\* The reader's loop ends, with all items or because of the context.
StagesEnd == <>(reader # "reading")

=============================================================================
