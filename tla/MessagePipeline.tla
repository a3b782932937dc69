--------------------------- MODULE MessagePipeline ---------------------------
(***************************************************************************)
(* The outbox and its publishers feeding IdempotentConsumer of             *)
(* 15_messaging/idempotent_consumer.go: goroutines that call               *)
(* ProcessMessage for messages the broker delivers at least once.  The     *)
(* check, the handler and the marking are separate steps.                  *)
(***************************************************************************)
EXTENDS Outbox

CONSTANTS Consumer,
          MaxRuns,   \* bound: successful handler runs per message
          MaxFailures \* bound: failed handler runs

PipelineParameters == {MaxFaults, MaxRuns, MaxFailures} \subseteq Nat

VARIABLES processed, \* c.processedIDs
          cpc, msg,  \* where each goroutine is, and the message it processes, if any
          runs,      \* history: how often the handler succeeded for a message
          failed     \* failed handler runs so far

outboxVars == <<status, topic, at, batch, event, cancelled, faults>>
consumerVars == <<processed, cpc, msg, runs, failed>>
pipelineVars == <<outboxVars, consumerVars>>

ConsumerInit ==
  /\ processed = {}
  /\ cpc = [c \in Consumer |-> "idle"]
  /\ msg = [c \in Consumer |-> {}]
  /\ runs = [e \in Event |-> 0] /\ failed = 0

\* The first critical section: a message already processed is skipped.
Seen(e) == e \in processed

Receive(c, e) ==
  /\ cpc[c] = "idle"
  /\ e \in topic /\ ~Seen(e)
  /\ cpc' = [cpc EXCEPT ![c] = "handling"]
  /\ msg' = [msg EXCEPT ![c] = {e}]
  /\ UNCHANGED <<processed, runs, failed>>

\* The handler, outside of the lock, succeeds,
HandlerSucceeds(c) ==
  /\ cpc[c] = "handling"
  /\ \E e \in msg[c] : runs[e] < MaxRuns /\ runs' = [runs EXCEPT ![e] = @ + 1]
  /\ cpc' = [cpc EXCEPT ![c] = "marking"]
  /\ UNCHANGED <<processed, msg, failed>>

\* or fails: the message stays unprocessed and can be delivered again.
HandlerFails(c) ==
  /\ cpc[c] = "handling"
  /\ failed < MaxFailures /\ failed' = failed + 1
  /\ cpc' = [cpc EXCEPT ![c] = "idle"] /\ msg' = [msg EXCEPT ![c] = {}]
  /\ UNCHANGED <<processed, runs>>

\* The second critical section.
Mark(c) ==
  /\ cpc[c] = "marking"
  /\ processed' = processed \cup msg[c]
  /\ cpc' = [cpc EXCEPT ![c] = "idle"] /\ msg' = [msg EXCEPT ![c] = {}]
  /\ UNCHANGED <<runs, failed>>

ConsumerNext ==
  \E c \in Consumer :
    (\E e \in Event : Receive(c, e)) \/ HandlerSucceeds(c) \/ HandlerFails(c) \/ Mark(c)

\* The broker delivers until the message is processed, and handlers return.
ConsumerFairness ==
  \A c \in Consumer :
    /\ WF_consumerVars(HandlerSucceeds(c) \/ HandlerFails(c) \/ Mark(c))
    /\ \A e \in Event : WF_consumerVars(Receive(c, e))

-----------------------------------------------------------------------------
PipelineInit == Init /\ ConsumerInit

PipelineNext ==
  \/ Next /\ UNCHANGED consumerVars
  \/ ConsumerNext /\ UNCHANGED outboxVars

PipelineSpec == PipelineInit /\ [][PipelineNext]_pipelineVars

-----------------------------------------------------------------------------
\* Every variable keeps its type, those of the outbox included.
PipelineTypeOK ==
  /\ TypeOK /\ topic \subseteq Event /\ processed \subseteq Event
  /\ cpc \in [Consumer -> {"idle", "handling", "marking"}]
  /\ msg \in [Consumer -> SUBSET Event] /\ runs \in [Event -> 0..MaxRuns]
  /\ failed \in 0..MaxFailures

\* "IdempotentConsumer processes messages only once, skipping duplicate
\* deliveries" (line 16).
HandledOnce == \A e \in Event : runs[e] <= 1

Saved == {e \in Event : status[e] # "absent"}

E == INSTANCE ExactlyOnce WITH saved <- Saved, handled <- runs

\* At-least-once publication and an idempotent consumer make exactly once, when
\* deliveries of a message do not overlap: however publishers race, crash and
\* publish again, a saved event is handled once and nothing else is handled.
PipelineExactlyOnce == E!Spec

\* No event is lost: what was saved is handled in the end (outbox_pattern.md:8),
\* behind an event that can never be published too.
EventsHandled == \A e \in Event \ Poison : e \in Saved ~> runs[e] > 0

=============================================================================
