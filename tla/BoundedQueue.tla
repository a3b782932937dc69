---------------------------- MODULE BoundedQueue ----------------------------
(***************************************************************************)
(* BoundedQueue of 09_concurrency/backpressure_queue.go.  Push and Pop     *)
(* hold q.mu, so a call is one step, cut only where it sleeps in           *)
(* sync.Cond.Wait: a sleeper that was signalled is woken and runs its loop *)
(* again when it gets the mutex, after whoever gets it first.              *)
(* q.closed is never set by the code, so it has no variable.               *)
(***************************************************************************)
EXTENDS Integers, Sequences, FiniteSets

CONSTANTS Producer, Consumer,
          Capacity,     \* NewBoundedQueue(capacity), after its default
          Strategies,   \* the overflow strategies of the queues considered
          MaxPush       \* bound: how many items each producer pushes

QueueParameters ==
  /\ IsFiniteSet(Producer) /\ IsFiniteSet(Consumer)
  /\ Producer \cap Consumer = {} /\ "dropped" \notin Consumer
  /\ Capacity \in Nat \ {0}
  /\ Strategies \subseteq {"reject", "dropOldest", "block"}
  /\ MaxPush \in Nat

VARIABLES strategy,     \* q.strategy, fixed by NewBoundedQueue
          items,        \* q.items
          droppedCount, \* q.droppedCount
          pc,           \* "idle", "asleep" in Wait, or "woken" and wanting q.mu
          pushed,       \* how many pushes each producer has finished
          done,         \* producers whose context is cancelled
          accepted,     \* history: every item appended, in order
          removed       \* history: every item taken off, in order, and by whom

vars == <<strategy, items, droppedCount, pc, pushed, done, accepted, removed>>

Goroutine == Producer \cup Consumer
Item == Producer \X (1..MaxPush)

Init ==
  /\ strategy \in Strategies
  /\ items = <<>>
  /\ droppedCount = 0
  /\ pc = [g \in Goroutine |-> "idle"]
  /\ pushed = [p \in Producer |-> 0]
  /\ done = {}
  /\ accepted = <<>>
  /\ removed = <<>>

-----------------------------------------------------------------------------
Asleep(G) == {g \in G : pc[g] = "asleep"}
Woken(G) == {g \in G : pc[g] = "woken"}

\* The next item of producer p.
NextItem(p) == <<p, pushed[p] + 1>>

\* The test that keeps Push in its loop, and the one that keeps Pop in its.
Full == Len(items) >= Capacity
Empty == items = <<>>

\* Goroutine g leaves its call; cond.Signal wakes one sleeper of G, if any.
LeaveSilently(g, G) == pc' = [pc EXCEPT ![g] = "idle"]
LeaveAndSignal(g, G) ==
  IF Asleep(G) = {} THEN pc' = [pc EXCEPT ![g] = "idle"]
  ELSE \E s \in Asleep(G) : pc' = [pc EXCEPT ![g] = "idle", ![s] = "woken"]

\* The items left once the oldest is discarded (the newest, in the mutant).
WithoutNewest(s) == SubSeq(s, 1, Len(s) - 1)
WithoutOldest(s) == Tail(s)

\* Wait: give up the mutex and sleep.
Sleep(g) ==
  /\ pc' = [pc EXCEPT ![g] = "asleep"]
  /\ UNCHANGED <<strategy, items, droppedCount, pushed, done, accepted, removed>>

-----------------------------------------------------------------------------
\* Push finds room (at once, or when it runs again after Wait).
PushFits(p) ==
  /\ pc[p] \in {"idle", "woken"} /\ pushed[p] < MaxPush
  /\ ~Full
  /\ items' = Append(items, NextItem(p))
  /\ accepted' = Append(accepted, NextItem(p))
  /\ pushed' = [pushed EXCEPT ![p] = @ + 1]
  /\ LeaveAndSignal(p, Consumer)
  /\ UNCHANGED <<strategy, droppedCount, done, removed>>

\* StrategyDropOldest: the oldest element makes space for the new one.
PushDropping(p) ==
  /\ pc[p] = "idle" /\ pushed[p] < MaxPush
  /\ Full /\ strategy = "dropOldest"
  /\ items' = Append(WithoutOldest(items), NextItem(p))
  /\ removed' = Append(removed, <<Head(items), "dropped">>)
  /\ droppedCount' = droppedCount + 1
  /\ accepted' = Append(accepted, NextItem(p))
  /\ pushed' = [pushed EXCEPT ![p] = @ + 1]
  /\ LeaveAndSignal(p, Consumer)
  /\ UNCHANGED <<strategy, done>>

\* Push returns without its item: ErrQueueFull under StrategyReject, ctx.Err()
\* under StrategyBlock when the context is done as the loop comes round.
PushRefused(p) ==
  /\ pc[p] \in {"idle", "woken"} /\ pushed[p] < MaxPush
  /\ Full
  /\ strategy = "reject" \/ (strategy = "block" /\ p \in done)
  /\ pc' = [pc EXCEPT ![p] = "idle"]
  /\ pushed' = [pushed EXCEPT ![p] = @ + 1]
  /\ UNCHANGED <<strategy, items, droppedCount, done, accepted, removed>>

\* StrategyBlock with a live context: q.notFull.Wait().
PushSleeps(p) ==
  /\ pc[p] \in {"idle", "woken"} /\ pushed[p] < MaxPush
  /\ Full /\ strategy = "block" /\ p \notin done
  /\ Sleep(p)

Push(p) == PushFits(p) \/ PushDropping(p) \/ PushRefused(p) \/ PushSleeps(p)

\* Pop finds an item.
PopTakes(c) ==
  /\ pc[c] \in {"idle", "woken"}
  /\ ~Empty
  /\ items' = Tail(items)
  /\ removed' = Append(removed, <<Head(items), c>>)
  /\ LeaveAndSignal(c, Producer)
  /\ UNCHANGED <<strategy, droppedCount, pushed, done, accepted>>

\* Pop finds none: q.notEmpty.Wait().  Its context is never looked at.
PopSleeps(c) ==
  /\ pc[c] \in {"idle", "woken"}
  /\ Empty
  /\ Sleep(c)

Pop(c) == PopTakes(c) \/ PopSleeps(c)

\* A producer's context is cancelled; nothing signals the condition variable.
Cancel(p) ==
  /\ p \notin done
  /\ done' = done \cup {p}
  /\ UNCHANGED <<strategy, items, droppedCount, pc, pushed, accepted, removed>>

Next ==
  \/ \E p \in Producer : Push(p) \/ Cancel(p)
  \/ \E c \in Consumer : Pop(c)

Spec == Init /\ [][Next]_vars

\* A woken goroutine gets the mutex in the end; nobody is obliged to call.
Running(g) ==
  /\ pc[g] = "woken"
  /\ \/ g \in Producer /\ Push(g)
     \/ g \in Consumer /\ Pop(g)
Fairness == \A g \in Goroutine : WF_vars(Running(g))

FairSpec == Spec /\ Fairness

-----------------------------------------------------------------------------
\* Every variable keeps its type and the queue its capacity.
TypeOK ==
  /\ strategy \in Strategies
  /\ items \in Seq(Item) /\ Len(items) <= Capacity
  /\ droppedCount \in Nat
  /\ pc \in [Goroutine -> {"idle", "asleep", "woken"}]
  /\ pushed \in [Producer -> 0..MaxPush]
  /\ done \subseteq Producer
  /\ accepted \in Seq(Item)
  /\ removed \in Seq(Item \X (Consumer \cup {"dropped"}))

\* Nothing accepted is lost, duplicated or overtaken: what consumers got and
\* what was dropped, followed by what is queued, is what was accepted, in its
\* order; and DroppedCount counts exactly the dropped ones.
FifoConserved ==
  /\ [i \in 1..Len(removed) |-> removed[i][1]] \o items = accepted
  /\ droppedCount = Cardinality({i \in 1..Len(removed) : removed[i][2] = "dropped"})

\* No wakeup of sync.Cond is lost.  While a consumer sleeps there is a woken one
\* on its way for each queued item, whoever else takes items in between; while a
\* producer sleeps there is a woken one for each free slot, although a woken
\* producer whose context is done may leave without using its wakeup.
NoLostWakeup ==
  /\ Asleep(Consumer) # {} => Cardinality(Woken(Consumer)) >= Len(items)
  /\ Asleep(Producer) # {} => Cardinality(Woken(Producer)) >= Capacity - Len(items)

\* Wakeups are used: again and again nobody sleeps beside what it waits for, and no woken
\* Push whose context is done is still there.
SleepersProceed ==
  []<>(/\ Asleep(Producer) = {} \/ Full
       /\ Asleep(Consumer) = {} \/ Empty
       /\ Woken(Producer) \cap done = {})

\* StrategyBlock: "Block until space is available or ctx canceled" (line 18).
CancelEndsPush ==
  \A p \in Producer : pc[p] = "asleep" /\ p \in done ~> pc[p] = "idle"

=============================================================================
