------------------------------- MODULE Outbox -------------------------------
(***************************************************************************)
(* TransactionalOutboxStore and OutboxRelayPublisher of                    *)
(* 15_messaging/outbox_pattern.go, and the ReliableOutboxPublisher of      *)
(* 26_advanced/reliable_outbox_publisher.go on the same store.  A call of  *)
(* the store is one step; publishing to the broker and marking the event   *)
(* are two.  The store stands for a database and outlives the publishers.  *)
(***************************************************************************)
EXTENDS Integers, FiniteSetsExt

CONSTANTS Event,       \* distinct event IDs
          Relay,       \* goroutines that call OutboxRelayPublisher.Flush
          Poller,      \* ReliableOutboxPublishers, one goroutine each
          Batch,       \* the limit given to GetPendingEvents (50 and 20 in the code)
          Poison,      \* events whose publication never succeeds
          MaxFaults    \* bound: crashes, stops and failed publications of others

VARIABLES status,      \* of each event in s.outboxEvents
          topic,       \* the events the broker has taken
          at,          \* where each publisher is
          batch, event,\* the events it still has to publish, and the one to mark, if any
          cancelled,   \* pollers whose context is cancelled
          faults       \* crashes, stops and failed publications so far

vars == <<status, topic, at, batch, event, cancelled, faults>>

Publisher == Relay \cup Poller

Init ==
  /\ status = [e \in Event |-> "absent"]
  /\ topic = {}
  /\ at = [p \in Publisher |-> "idle"]
  /\ batch = [p \in Publisher |-> {}]
  /\ event = [p \in Publisher |-> {}]
  /\ cancelled = {} /\ faults = 0

\* Something goes wrong (within the bound), or nothing does.
Fault == faults < MaxFaults /\ faults' = faults + 1

Goto(p, s) == at' = [at EXCEPT ![p] = s]

-----------------------------------------------------------------------------
\* SaveTx.
SaveTx(e) ==
  /\ status[e] = "absent"
  /\ status' = [status EXCEPT ![e] = "PENDING"]
  /\ UNCHANGED <<topic, at, batch, event, cancelled, faults>>

Pending == {e \in Event : status[e] = "PENDING"}

\* What GetPendingEvents may return: the map is ranged over in any order.
PendingBatches ==
  kSubset(IF Cardinality(Pending) < Batch THEN Cardinality(Pending) ELSE Batch, Pending)

\* Flush and FlushOnce read their batch (a poller when its ticker fires); when
\* nothing is pending they change nothing.
Flush(p) ==
  /\ at[p] = "idle" /\ Pending # {}
  /\ batch' \in {[batch EXCEPT ![p] = B] : B \in PendingBatches}
  /\ Goto(p, "publish")
  /\ UNCHANGED <<status, topic, event, cancelled, faults>>

\* The broker takes the next event of the batch; a lost answer or a crash
\* after this leaves it pending although it was published.
Publish(p, e) ==
  /\ at[p] = "publish" /\ e \in batch[p] \ Poison
  /\ topic' = topic \cup {e}
  /\ event' = [event EXCEPT ![p] = {e}]
  /\ Goto(p, "mark")
  /\ UNCHANGED <<status, batch, cancelled, faults>>

\* What is left of the batch when publishing e fails: Flush returns the error,
\* FlushOnce goes on with the next event.
AfterError(p, e) == IF p \in Relay THEN {} ELSE batch[p] \ {e}

PublishFails(p, e) ==
  /\ at[p] = "publish" /\ e \in batch[p]
  /\ IF e \in Poison THEN UNCHANGED faults ELSE Fault
  /\ batch' = [batch EXCEPT ![p] = AfterError(p, e)]
  /\ UNCHANGED <<status, topic, at, event, cancelled>>

\* MarkPublished.
Marked == "PUBLISHED"

MarkPublished(p) ==
  /\ at[p] = "mark"
  /\ \E e \in event[p] : status' = [status EXCEPT ![e] = Marked]
  /\ batch' = [batch EXCEPT ![p] = @ \ event[p]]
  /\ event' = [event EXCEPT ![p] = {}]
  /\ Goto(p, "publish")
  /\ UNCHANGED <<topic, cancelled, faults>>

FlushReturns(p) ==
  /\ at[p] = "publish" /\ batch[p] = {}
  /\ Goto(p, "idle")
  /\ UNCHANGED <<status, topic, batch, event, cancelled, faults>>

\* A publisher's process dies; its batch is gone, the store is not.
Crash(p) ==
  /\ at[p] \in {"publish", "mark"} /\ Fault
  /\ batch' = [batch EXCEPT ![p] = {}] /\ event' = [event EXCEPT ![p] = {}]
  /\ Goto(p, IF p \in Relay THEN "idle" ELSE "stopped")
  /\ cancelled' = cancelled \ {p}
  /\ UNCHANGED <<status, topic>>

-----------------------------------------------------------------------------
\* NewReliableOutboxPublisher and Start; Stop cancels the context and waits for
\* the goroutine, which finishes its batch before it looks at the context.
Start(p) ==
  /\ p \in Poller /\ at[p] = "stopped"
  /\ Goto(p, "idle")
  /\ UNCHANGED <<status, topic, batch, event, cancelled, faults>>

Stop(p) ==
  /\ p \in Poller \ cancelled /\ at[p] # "stopped" /\ Fault
  /\ cancelled' = cancelled \cup {p}
  /\ UNCHANGED <<status, topic, at, batch, event>>

GoroutineReturns(p) ==
  /\ p \in cancelled /\ at[p] = "idle"
  /\ Goto(p, "stopped")
  /\ cancelled' = cancelled \ {p}
  /\ UNCHANGED <<status, topic, batch, event, faults>>

Next ==
  \/ \E e \in Event : SaveTx(e)
  \/ \E p \in Publisher :
       \/ Flush(p) \/ FlushReturns(p) \/ MarkPublished(p) \/ Crash(p)
       \/ \E e \in Event : Publish(p, e) \/ PublishFails(p, e)
       \/ Start(p) \/ Stop(p) \/ GoroutineReturns(p)

\* A publisher goes on, a poller is started again and its ticker fires; nobody
\* is obliged to save, to flush through the relay, to crash or to stop.
Fairness ==
  /\ \A p \in Publisher :
       WF_vars(FlushReturns(p) \/ MarkPublished(p)
               \/ \E e \in Event : Publish(p, e) \/ PublishFails(p, e))
  /\ \A p \in Poller : WF_vars(Start(p) \/ GoroutineReturns(p)) /\ WF_vars(Flush(p))

-----------------------------------------------------------------------------
\* Every variable keeps its type.
TypeOK ==
  /\ status \in [Event -> {"absent", "PENDING", "PUBLISHED"}] /\ topic \subseteq Event
  /\ at \in [Publisher -> {"idle", "publish", "mark", "stopped"}]
  /\ batch \in [Publisher -> SUBSET Event] /\ event \in [Publisher -> SUBSET Event]
  /\ cancelled \subseteq Poller /\ faults \in 0..MaxFaults

=============================================================================
