------------------------------ MODULE Semaphore ------------------------------
(***************************************************************************)
(* The weighted counting semaphore of 09_concurrency/semaphore.go.  A      *)
(* critical section under s.mu is one step; the select of Acquire is the   *)
(* only place where a caller is suspended between two steps.               *)
(***************************************************************************)
EXTENDS Integers, Sequences, FiniteSets

CONSTANTS Caller,     \* goroutines that use the semaphore
          Capacity,   \* NewSemaphore(capacity), after its default of 1
          Weights,    \* the n that callers ask for
          Cancellable \* callers whose context may be cancelled while they wait

ASSUME SemaphoreAssumption ==
  /\ IsFiniteSet(Caller)
  /\ Capacity \in Nat \ {0}
  /\ Weights \subseteq 1..Capacity   \* any other n returns ErrInvalidWeight
  /\ Cancellable \subseteq Caller

VARIABLES current,    \* s.current
          waiters,    \* s.waiters: the callers whose channel is queued, in order
          closed,     \* the callers whose notification channel was closed
          pc,         \* where each caller is in its call
          want,       \* the n of its call, kept until it is released
          done,       \* callers whose ctx.Done() is ready
          uncharged   \* history: units that Release granted and did not charge

vars == <<current, waiters, closed, pc, want, done, uncharged>>

Init ==
  /\ current = 0
  /\ waiters = <<>>
  /\ closed = {}
  /\ pc = [c \in Caller |-> "idle"]
  /\ want = [c \in Caller |-> 0]
  /\ done = {}
  /\ uncharged = 0

-----------------------------------------------------------------------------
\* The test of the fast path of Acquire and of TryAcquire.
Fits(n) == Capacity - current >= n

\* The units that Release takes away, never below zero.
Subtract(n) == IF current < n THEN 0 ELSE current - n

\* How many waiters the loop of Release pops when it starts at cur.
Popped(cur) ==
  IF Len(waiters) <= Capacity - cur THEN Len(waiters) ELSE Capacity - cur

\* The callers it wakes, from the head of the queue.
Woken(k) == {waiters[i] : i \in 1..k}

\* One unit is charged for each woken caller, whatever it asked for.
ChargeNone(cur, k) == cur
Charge(cur, k) == cur + k

\* The units that k grants give beyond the one that is charged for each.
Unpaid(k) == {u \in Woken(k) \X (2..Capacity) : u[2] <= want[u[1]]}

\* The history counts no further than to the units that all callers together can hold.
AllUnits == Cardinality(Caller \X (1..Capacity))
CountedUpTo(n) == IF n > AllUnits THEN AllUnits ELSE n

\* The queue a cancelled caller leaves behind: its first entry is cut out.
WithoutNothing(c) == waiters
Without(c) ==
  LET at == {i \in 1..Len(waiters) : waiters[i] = c}
  IN IF at = {} THEN waiters
     ELSE LET i == CHOOSE i \in at : \A j \in at : i <= j
          IN SubSeq(waiters, 1, i - 1) \o SubSeq(waiters, i + 1, Len(waiters))

-----------------------------------------------------------------------------
\* Acquire and TryAcquire when the units are free: no suspension.  TryAcquire
\* without free units returns false and changes nothing.
Take(c, n) ==
  /\ pc[c] = "idle"
  /\ Fits(n)
  /\ current' = current + n
  /\ pc' = [pc EXCEPT ![c] = "holding"]
  /\ want' = [want EXCEPT ![c] = n]
  /\ UNCHANGED <<waiters, closed, done, uncharged>>

\* Acquire when they are not: the waiter is queued and the caller suspends.
Enqueue(c, n) ==
  /\ pc[c] = "idle"
  /\ ~Fits(n)
  /\ waiters' = Append(waiters, c)
  /\ pc' = [pc EXCEPT ![c] = "waiting"]
  /\ want' = [want EXCEPT ![c] = n]
  /\ UNCHANGED <<current, closed, done, uncharged>>

\* The context of a suspended caller is cancelled (also one that was already
\* cancelled when Acquire was called, since the fast path never looks at it).
Expire(c) ==
  /\ c \in Cancellable \ done
  /\ pc[c] = "waiting"
  /\ done' = done \cup {c}
  /\ UNCHANGED <<current, waiters, closed, pc, want, uncharged>>

\* select: the notification arrived.
Granted(c) ==
  /\ pc[c] = "waiting"
  /\ c \in closed
  /\ pc' = [pc EXCEPT ![c] = "holding"]
  /\ closed' = closed \ {c}
  /\ done' = done \ {c}
  /\ UNCHANGED <<current, waiters, want, uncharged>>

\* select: the context is done; with both ready Go picks either branch.
ChooseDone(c) ==
  /\ pc[c] = "waiting"
  /\ c \in done
  /\ pc' = [pc EXCEPT ![c] = "withdrawing"]
  /\ UNCHANGED <<current, waiters, closed, want, done, uncharged>>

\* The waiter is taken out of the queue if it is still there and Acquire
\* returns ctx.Err().
Withdraw(c) ==
  /\ pc[c] = "withdrawing"
  /\ waiters' = Without(c)
  /\ pc' = [pc EXCEPT ![c] = "idle"]
  /\ want' = [want EXCEPT ![c] = 0]
  /\ closed' = closed \ {c}
  /\ done' = done \ {c}
  /\ UNCHANGED <<current, uncharged>>

\* Release(n) by a caller that acquired n.
Release(c) ==
  /\ pc[c] = "holding"
  /\ LET cur == Subtract(want[c])
         k == Popped(cur)
     IN /\ current' = Charge(cur, k)
        /\ waiters' = SubSeq(waiters, k + 1, Len(waiters))
        /\ closed' = closed \cup Woken(k)
        /\ uncharged' = CountedUpTo(uncharged + Cardinality(Unpaid(k)))
  /\ pc' = [pc EXCEPT ![c] = "idle"]
  /\ want' = [want EXCEPT ![c] = 0]
  /\ UNCHANGED done

Next ==
  \E c \in Caller :
    \/ \E n \in Weights : Take(c, n) \/ Enqueue(c, n)
    \/ Expire(c)
    \/ Granted(c)
    \/ ChooseDone(c)
    \/ Withdraw(c)
    \/ Release(c)

Spec == Init /\ [][Next]_vars

\* A caller that can return does, and a holder releases in the end ("defer
\* sem.Release(n)"); nobody is obliged to call Acquire or to cancel.
Fairness ==
  \A c \in Caller :
    WF_vars(Granted(c)) /\ WF_vars(ChooseDone(c) \/ Withdraw(c)) /\ WF_vars(Release(c))

FairSpec == Spec /\ Fairness

-----------------------------------------------------------------------------
Holding == {c \in Caller : pc[c] = "holding"}

\* Callers that Acquire admitted or is about to: their channel is closed.
Inside == Holding \cup closed

\* The units that they hold or are about to.
UnitsHeld == {u \in Inside \X (1..Capacity) : u[2] <= want[u[1]]}

\* Every variable keeps its type; current never leaves 0..Capacity although
\* Release clamps it on one side only.
TypeOK ==
  /\ current \in 0..Capacity
  /\ waiters \in Seq(Caller)
  /\ closed \subseteq Caller
  /\ pc \in [Caller -> {"idle", "waiting", "withdrawing", "holding"}]
  /\ want \in [Caller -> Weights \cup {0}]
  /\ done \subseteq Cancellable
  /\ uncharged \in 0..AllUnits

\* A queued channel belongs to a caller still suspended in Acquire, once, and
\* is open: Release never pops the channel of a caller that has gone and never
\* closes one twice (which would panic), whichever way a cancellation races it.
QueueWellFormed ==
  /\ \A i, j \in 1..Len(waiters) : waiters[i] = waiters[j] => i = j
  /\ \A i \in 1..Len(waiters) :
       pc[waiters[i]] \in {"waiting", "withdrawing"} /\ waiters[i] \notin closed
  /\ \A c \in closed : pc[c] \in {"waiting", "withdrawing"}

\* "Acquire acquires n units of weight" (semaphore.go:33): no more units are held
\* than there are, grants that Release has made and their callers have not seen yet
\* included.
WeightsHonoured == Cardinality(UnitsHeld) <= Capacity

\* What is held beyond the capacity was granted by Release without being charged
\* (line 98 charges one unit, whatever the waiter asked for), and by nothing else: no
\* fast path, cancellation, lost grant or clamp at zero admits a unit.  With unit
\* weights nothing goes uncharged.
OnlyUnchargedExceed == Cardinality(UnitsHeld) <= Capacity + uncharged

\* Nobody sleeps in the queue beside the units it waits for: a release, a
\* cancellation or a grant never forgets a waiter, of any weight.
NoForgottenWaiter == \A i \in 1..Len(waiters) : ~Fits(want[waiters[i]])

\* When every caller is out of Acquire and holds nothing, all units are back.
UnitsComeBack == (\A c \in Caller : pc[c] = "idle") => current = 0

\* As long as nobody cancels, every suspended Acquire is granted in the end,
\* provided holders release (a cancellation can lose a unit for good).
AcquireReturns ==
  [](done = {}) => \A c \in Caller : pc[c] = "waiting" ~> pc[c] = "holding"

=============================================================================
