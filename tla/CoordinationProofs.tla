-------------------------- MODULE CoordinationProofs --------------------------
(***************************************************************************)
(* Proofs about leases, sagas, payments, checkouts, rollouts and sessions, *)
(* for every value of the constants.  A section per component has its      *)
(* inductive invariant and what follows from it; the last one carries the  *)
(* results over to the suite, whose behaviours exercise one component and  *)
(* leave the others alone.                                                 *)
(***************************************************************************)
EXTENDS MCCoordination, SequenceTheorems, FiniteSetTheorems, WellFoundedInduction, TLAPS

-----------------------------------------------------------------------------
\* Granted, at any time before the bound.
Granted ==
  [resource : Resource, owner : Client, token : Nat, left : Nat, grant : Nat]

\* Every variable keeps its type, without the bounds.
LockTyped ==
  /\ locks \in [Resource -> SUBSET Granted] /\ lease \in [Client -> SUBSET Granted]
  /\ stored \in [Resource -> [token : Nat, grant : Nat]]
  /\ fencingToken \in Nat /\ grants \in Nat

\* A lock has one lease, and its token counts the grants.
LocksWellFormed ==
  /\ fencingToken = grants
  /\ \A r \in Resource : \A k, l \in locks[r] : k = l /\ l.resource = r

\* A client's lease is its own; while it lives, it is the lock's.
LeasesBacked ==
  \A c \in Client : \A l \in lease[c] :
    /\ l.owner = c /\ l.token = l.grant
    /\ l.left > 0 => l \in locks[l.resource]

\* The storage remembers a grant by its token.
StoredByToken == \A r \in Resource : stored[r].token = stored[r].grant

LockInv == LockTyped /\ LocksWellFormed /\ LeasesBacked /\ StoredByToken

-----------------------------------------------------------------------------
\* The manager and the clients start empty.
LEMMA LockStarts == LockInit => LockInv
  BY DEF LockInit, LockInv, LockTyped, LocksWellFormed, LeasesBacked, StoredByToken, Granted

\* Acquire replaces an expired lease, or one of the caller itself.
LEMMA AcquireLemma ==
  ASSUME LockInv, NEW c \in Client, NEW r \in Resource, Acquire(c, r)
  PROVE  LockInv'
<1> DEFINE l == [resource |-> r, owner |-> c, token |-> fencingToken + 1, left |-> TTL, grant |-> grants + 1]
<1>1. /\ l \in Granted /\ l.resource = r /\ l.owner = c
      /\ l.token = fencingToken + 1 /\ l.grant = grants + 1 /\ l.left = TTL
  BY LockAssumption DEF LockInv, LockTyped, Granted
<1>2. /\ locks' = [locks EXCEPT ![r] = {l}] /\ lease' = [lease EXCEPT ![c] = {l}]
      /\ fencingToken' = fencingToken + 1 /\ grants' = grants + 1 /\ stored' = stored
      /\ \A k \in locks[r] : ~(k.left > 0 /\ k.owner # c)
  BY DEF Acquire, NextToken, HeldByOther
<1> HIDE DEF l
<1>3. LockTyped'
  BY <1>1, <1>2 DEF LockInv, LockTyped
<1>4. LocksWellFormed'
  BY <1>1, <1>2 DEF LockInv, LockTyped, LocksWellFormed
<1>5. LeasesBacked'
  <2> SUFFICES ASSUME NEW d \in Client, NEW k \in lease'[d]
               PROVE  k.owner = d /\ k.token = k.grant /\ (k.left > 0 => k \in locks'[k.resource])
    BY DEF LeasesBacked
  <2>1. CASE d = c
    BY <2>1, <1>1, <1>2 DEF LockInv, LockTyped, LocksWellFormed
  <2>2. CASE d # c
    <3>1. k \in lease[d] /\ k \in Granted
      BY <2>2, <1>2 DEF LockInv, LockTyped
    <3>2. k.owner = d /\ k.token = k.grant /\ (k.left > 0 => k \in locks[k.resource])
      BY <3>1 DEF LockInv, LeasesBacked
    <3>3. k.left > 0 => k.resource # r
      BY <3>2, <2>2, <1>2
    <3> QED BY <3>1, <3>2, <3>3, <1>2 DEF LockInv, LockTyped, Granted
  <2> QED BY <2>1, <2>2
<1>6. StoredByToken'
  BY <1>2 DEF LockInv, StoredByToken
<1> QED BY <1>3, <1>4, <1>5, <1>6 DEF LockInv

\* Release deletes a lock of the caller only.
LEMMA ReleaseLemma ==
  ASSUME LockInv, NEW c \in Client, Release(c)
  PROVE  LockInv'
<1>1. LockTyped' /\ LocksWellFormed' /\ StoredByToken'
  BY DEF LockInv, LockTyped, LocksWellFormed, StoredByToken, Release
<1>2. LeasesBacked'
  <2> SUFFICES ASSUME NEW d \in Client, NEW k \in lease'[d]
               PROVE  k.owner = d /\ k.token = k.grant /\ (k.left > 0 => k \in locks'[k.resource])
    BY DEF LeasesBacked
  <2>1. d # c /\ k \in lease[d] /\ k \in Granted
    BY DEF Release, LockInv, LockTyped
  <2>2. k.owner = d /\ k.token = k.grant /\ (k.left > 0 => k \in locks[k.resource])
    BY <2>1 DEF LockInv, LeasesBacked
  <2> QED BY <2>1, <2>2 DEF Release, Granted
<1> QED BY <1>1, <1>2 DEF LockInv

\* A write stores a token and its grant.
LEMMA WriteLemma ==
  ASSUME LockInv, NEW c \in Client, Write(c)
  PROVE  LockInv'
<1>1. PICK l \in lease[c] :
        /\ l.token >= stored[l.resource].token
        /\ stored' = [stored EXCEPT ![l.resource] = [token |-> l.token, grant |-> l.grant]]
  BY DEF Write
<1>2. l \in Granted /\ l.token = l.grant
  BY DEF LockInv, LockTyped, LeasesBacked
<1>3. LockTyped' /\ StoredByToken'
  BY <1>1, <1>2 DEF LockInv, LockTyped, StoredByToken, Write, Granted
<1> QED BY <1>3 DEF LockInv, LocksWellFormed, LeasesBacked, Write

\* A crash takes a lease away.
LEMMA CrashLemma ==
  ASSUME LockInv, NEW c \in Client, Crash(c)
  PROVE  LockInv'
  BY DEF LockInv, LockTyped, LocksWellFormed, LeasesBacked, StoredByToken, Crash

\* Ageing one lease.
Older(l) == [l EXCEPT !.left = IF @ = 0 THEN 0 ELSE @ - 1]

\* It keeps everything but the time left, which does not grow.
LEMMA OlderLemma ==
  ASSUME NEW l \in Granted
  PROVE  /\ Older(l) \in Granted /\ Older(l).resource = l.resource /\ Older(l).owner = l.owner
         /\ Older(l).token = l.token /\ Older(l).grant = l.grant
         /\ Older(l).left > 0 => l.left > 0
  BY DEF Older, Granted

\* Time passes for the manager and the clients alike.
LEMMA TickLemma ==
  ASSUME LockInv, LockTick
  PROVE  LockInv'
<1>1. /\ locks' = [r \in Resource |-> {Older(l) : l \in locks[r]}]
      /\ lease' = [c \in Client |-> {Older(l) : l \in lease[c]}]
      /\ UNCHANGED <<fencingToken, stored, grants>>
  BY DEF LockTick, Aged, Older
<1>2. LockTyped' /\ StoredByToken'
  BY <1>1, OlderLemma DEF LockInv, LockTyped, StoredByToken
<1>3. LocksWellFormed'
  BY <1>1, OlderLemma DEF LockInv, LockTyped, LocksWellFormed
<1>4. LeasesBacked'
  <2> SUFFICES ASSUME NEW c \in Client, NEW k \in lease'[c]
               PROVE  k.owner = c /\ k.token = k.grant /\ (k.left > 0 => k \in locks'[k.resource])
    BY DEF LeasesBacked
  <2>1. PICK l \in lease[c] : k = Older(l)
    BY <1>1
  <2>2. l \in Granted /\ l.owner = c /\ l.token = l.grant /\ (l.left > 0 => l \in locks[l.resource])
    BY DEF LockInv, LockTyped, LeasesBacked
  <2>3. l.resource \in Resource
    BY <2>2 DEF Granted
  <2> QED BY <1>1, <2>1, <2>2, <2>3, OlderLemma
<1> QED BY <1>2, <1>3, <1>4 DEF LockInv

-----------------------------------------------------------------------------
\* Every step preserves the invariant.
LEMMA LockStep == LockInv /\ [LockNext]_lockVars => LockInv'
<1> SUFFICES ASSUME LockInv, [LockNext]_lockVars PROVE LockInv'
  OBVIOUS
<1>1. CASE LockNext
  BY <1>1, AcquireLemma, ReleaseLemma, WriteLemma, CrashLemma, TickLemma DEF LockNext
<1>2. CASE UNCHANGED lockVars
  BY <1>2 DEF LockInv, LockTyped, LocksWellFormed, LeasesBacked, StoredByToken, lockVars
<1> QED BY <1>1, <1>2

\* The invariant holds in every reachable state.
THEOREM LockInvariant == LockSpec => []LockInv
  BY LockStarts, LockStep, PTL DEF LockSpec

\* Two unexpired leases on one lock are both the lock's one lease.
LEMMA Exclusion == LockInv => OneLiveLease
<1> SUFFICES ASSUME LockInv, NEW c \in Client, NEW d \in Client, NEW k \in lease[c], NEW l \in lease[d],
                    k.resource = l.resource, k.left > 0, l.left > 0
             PROVE  c = d
  BY DEF OneLiveLease
<1>1. k \in locks[k.resource] /\ l \in locks[k.resource] /\ k.owner = c /\ l.owner = d
  BY DEF LockInv, LeasesBacked
<1>2. k.resource \in Resource
  BY DEF LockInv, LockTyped, Granted
<1> QED BY <1>1, <1>2 DEF LockInv, LocksWellFormed

\* Acquire never leaves two clients with an unexpired lease on one resource.
THEOREM OneLiveLeaseHolds == LockSpec => []OneLiveLease
  BY LockInvariant, Exclusion, PTL

\* A write does not go back to an earlier grant.
LEMMA WritesForward ==
  LockInv /\ [LockNext]_lockVars => [\A r \in Resource : stored'[r].grant >= stored[r].grant]_lockVars
<1> SUFFICES ASSUME LockInv, LockNext, NEW r \in Resource PROVE stored'[r].grant >= stored[r].grant
  OBVIOUS
<1>1. stored[r].grant \in Nat
  BY DEF LockInv, LockTyped
<1>2. ASSUME NEW c \in Client, Write(c) PROVE stored'[r].grant >= stored[r].grant
  <2>1. PICK l \in lease[c] :
          /\ l.token >= stored[l.resource].token
          /\ stored' = [stored EXCEPT ![l.resource] = [token |-> l.token, grant |-> l.grant]]
    BY <1>2 DEF Write
  <2>2. l.token = l.grant /\ stored[r].token = stored[r].grant
    BY DEF LockInv, LeasesBacked, StoredByToken
  <2> QED BY <1>1, <2>1, <2>2 DEF LockInv, LockTyped
<1>3. CASE stored' = stored
  BY <1>1, <1>3
<1> QED BY <1>2, <1>3 DEF LockNext, Acquire, Release, Crash, LockTick

\* The tokens that Acquire hands out let the storage refuse every late write.
THEOREM FencedWritesHolds == LockSpec => FencedWrites
  BY LockInvariant, WritesForward, PTL DEF LockSpec, FencedWrites

-----------------------------------------------------------------------------
(* The leader elector. *)

\* A candidate counts no more than what is left of the lease, and only of its own.
ElectorInv ==
  /\ believes \in [Candidate -> Nat] /\ leaseLeft \in Int
  /\ \A d \in Candidate : believes[d] > 0 => currentLeader = d /\ believes[d] <= leaseLeft

\* No candidate takes the lead while another one has time left, since it sees no less.
LEMMA ElectorStep ==
  ASSUME ElectorParameters, ElectorInv, [ElectorNext]_electorVars
  PROVE  ElectorInv'
<1> USE DEF ElectorParameters, ElectorInv
<1>1. ASSUME NEW d \in Candidate, TryAcquireOrRenew(d) PROVE ElectorInv'
  BY <1>1 DEF TryAcquireOrRenew, Vacant
<1>2. ASSUME NEW d \in Candidate, Resign(d) PROVE ElectorInv'
  BY <1>2 DEF Resign
<1>3. ASSUME NEW d \in Candidate, Join(d) \/ Refused(d) \/ CandidateCrash(d) PROVE ElectorInv'
  BY <1>3 DEF Join, Refused, CandidateCrash
<1>4. CASE ElectorTick
  BY <1>4 DEF ElectorTick
<1>5. CASE UNCHANGED electorVars
  BY <1>5 DEF electorVars
<1> QED BY <1>1, <1>2, <1>3, <1>4, <1>5 DEF ElectorNext

\* For any candidates, lease and crashes: whoever has reason to think that it leads does.
THEOREM OneBelieverHolds ==
  ASSUME ElectorParameters
  PROVE  ElectorInit /\ [][ElectorNext]_electorVars => []OneBeliever
<1>1. ElectorInit => ElectorInv
  BY DEF ElectorInit, ElectorInv
<1>2. ElectorInv /\ [ElectorNext]_electorVars => ElectorInv'
  BY ElectorStep
<1>3. ElectorInv => OneBeliever
  BY DEF ElectorInv, OneBeliever, IsLeader
<1> QED BY <1>1, <1>2, <1>3, PTL

-----------------------------------------------------------------------------
(* The visibility queue. *)

\* A worker has one job at most, of those that were enqueued; while its time lasts the
\* job is hidden no less long, and nobody else has time left for it.
VisibilityInv ==
  /\ hidden \in [Job -> Nat] /\ receipt \in [Worker -> 0..VisibilityTimeout]
  /\ work \in [Worker -> SUBSET Job] /\ wpc \in [Worker -> {"idle", "running", "done"}]
  /\ \A w \in Worker : work[w] \subseteq enqueued /\ (wpc[w] = "idle" => work[w] = {})
  /\ jobs \subseteq enqueued
  /\ \A w \in Worker : \A j, k \in work[w] : j = k
  /\ \A w \in Worker : \A j \in work[w] : receipt[w] <= hidden[j]
  /\ OneLiveReceipt

\* A job is handed out when it is visible, so that nobody's time with it lasts.
LEMMA VisibilityStep ==
  ASSUME VisibilityParameters, VisibilityInv, [QueueNext]_queueVars
  PROVE  VisibilityInv'
<1> USE DEF VisibilityParameters, VisibilityInv, OneLiveReceipt
<1>1. ASSUME NEW j \in Job, Enqueue(j) PROVE VisibilityInv'
  BY <1>1 DEF Enqueue
<1>2. ASSUME NEW j \in Job, NEW w \in Worker, Dequeue(w, j) PROVE VisibilityInv'
  BY <1>2 DEF Dequeue, Kept
<1>3. ASSUME NEW w \in Worker, Heartbeat(w) PROVE VisibilityInv'
  BY <1>3 DEF Heartbeat, Extended
<1>4. ASSUME NEW w \in Worker, Complete(w) PROVE VisibilityInv'
  BY <1>4 DEF Complete
<1>5. ASSUME NEW w \in Worker, Ack(w) \/ Abandon(w) PROVE VisibilityInv'
  BY <1>5 DEF Ack, Abandon, Drop
<1>6. CASE QueueTick
  <2>1. /\ hidden' \in [Job -> Nat] /\ receipt' \in [Worker -> 0..VisibilityTimeout]
        /\ \A w \in Worker : receipt'[w] > 0 => receipt[w] > 0
        /\ \A w \in Worker : \A j \in work[w] : receipt'[w] <= hidden'[j]
    BY <1>6 DEF QueueTick
  <2>2. UNCHANGED <<jobs, wpc, work, enqueued>>
    BY <1>6 DEF QueueTick
  <2> QED BY <2>1, <2>2
<1>7. CASE UNCHANGED queueVars
  BY <1>7 DEF queueVars
<1> QED BY <1>1, <1>2, <1>3, <1>4, <1>5, <1>6, <1>7 DEF QueueNext

\* For any jobs, workers, timeout and faults: a worker whose time has not passed is
\* alone with its job, however late others send heartbeats or acknowledge.
THEOREM OneLiveReceiptHolds ==
  ASSUME VisibilityParameters
  PROVE  QueueInit /\ [][QueueNext]_queueVars => []OneLiveReceipt
<1>1. QueueInit => VisibilityInv
  BY DEF VisibilityParameters, QueueInit, VisibilityInv, OneLiveReceipt
<1>2. VisibilityInv /\ [QueueNext]_queueVars => VisibilityInv'
  BY VisibilityStep
<1>3. VisibilityInv => OneLiveReceipt
  BY DEF VisibilityInv
<1> QED BY <1>1, <1>2, <1>3, PTL

-----------------------------------------------------------------------------
(* The saga. *)

\* The completed steps are the first ones, in their order.
StepsInOrder ==
  /\ completedSteps \in Seq(Nat) /\ Len(completedSteps) <= Steps
  /\ \A i \in 1..Len(completedSteps) : completedSteps[i] = i

\* On the way back the effects of the steps still to be compensated stand, and of the
\* others that could be undone only those whose compensation failed.
EffectsKnown ==
  LET n == Len(completedSteps)
  IN /\ phase = "new" => n = 0 /\ effects = {} /\ failures = {}
     /\ phase = "forward" => effects = 1..n /\ failures = {}
     /\ phase = "backward" =>
          /\ 1..n \subseteq effects /\ effects \subseteq 1..Steps
          /\ failures \subseteq effects \cap Compensable
          /\ \A i \in effects \cap Compensable : i <= n \/ i \in failures
     /\ R!Outcome

SagaInv == StepsInOrder /\ EffectsKnown

\* What popping the last step leaves.
LEMMA PoppedStep ==
  ASSUME R!SagaParameters, StepsInOrder, completedSteps # <<>>,
         completedSteps' = R!Remaining(completedSteps)
  PROVE  /\ StepsInOrder' /\ Len(completedSteps) \in Nat
         /\ Len(completedSteps') = Len(completedSteps) - 1
         /\ R!LatestFirst(completedSteps) = Len(completedSteps)
<1>1. Len(completedSteps) \in Nat /\ Len(completedSteps) >= 1
  BY DEF StepsInOrder
<1>2. /\ completedSteps' \in Seq(Nat) /\ Len(completedSteps') = Len(completedSteps) - 1
      /\ \A i \in 1..(Len(completedSteps) - 1) : completedSteps'[i] = completedSteps[i]
  <2> DEFINE m == Len(completedSteps) - 1
  <2>1. m \in Nat /\ \A i \in 1..m : completedSteps[i] \in Nat
    BY <1>1 DEF StepsInOrder
  <2> HIDE DEF m
  <2>2. /\ SubSeq(completedSteps, 1, m) \in Seq(Nat)
        /\ Len(SubSeq(completedSteps, 1, m)) = IF 1 <= m THEN m - 1 + 1 ELSE 0
        /\ \A i \in 1..(m - 1 + 1) :
             SubSeq(completedSteps, 1, m)[i] = completedSteps[1 + i - 1]
    BY <2>1, SubSeqProperties
  <2>3. completedSteps' = SubSeq(completedSteps, 1, m)
    BY DEF R!Remaining, m
  <2>4. m - 1 + 1 = m /\ \A i \in 1..m : 1 + i - 1 = i
    BY <2>1
  <2>5. Len(completedSteps') = m /\ \A i \in 1..m : completedSteps'[i] = completedSteps[i]
    BY <2>1, <2>2, <2>3, <2>4
  <2> QED BY <2>2, <2>3, <2>5 DEF m
<1>3. StepsInOrder'
  <2>1. Len(completedSteps') <= Steps
    BY <1>1, <1>2 DEF StepsInOrder, R!SagaParameters
  <2> QED BY <1>1, <1>2, <2>1 DEF StepsInOrder
<1> QED BY <1>1, <1>2, <1>3 DEF StepsInOrder, R!LatestFirst

\* A step forward or back keeps this, and undoes an effect after all later ones.
LEMMA SagaStep ==
  ASSUME R!SagaParameters, SagaInv, R!SagaNext
  PROVE  SagaInv' /\ R!ReverseOrder
<1> USE DEF R!SagaParameters
<1>1. CASE R!Execute
  BY <1>1 DEF R!Execute, SagaInv, StepsInOrder, EffectsKnown, R!Outcome, R!ReverseOrder
<1>2. CASE R!ActionSucceeds
  <2> DEFINE n == Len(completedSteps)
  <2>1. /\ n \in Nat /\ n < Steps /\ completedSteps' = Append(completedSteps, n + 1)
        /\ effects' = effects \cup {n + 1} /\ effects = 1..n
        /\ phase = "forward" /\ phase' = "forward" /\ failures = {} /\ failures' = {}
    BY <1>2 DEF R!ActionSucceeds, SagaInv, StepsInOrder, EffectsKnown
  <2>2. StepsInOrder' /\ Len(completedSteps') = n + 1
    BY <2>1 DEF SagaInv, StepsInOrder
  <2>3. effects' = 1..(n + 1)
    BY <2>1
  <2> QED BY <2>1, <2>2, <2>3 DEF SagaInv, EffectsKnown, R!Outcome, R!ReverseOrder
<1>3. CASE R!ActionFails \/ R!AllDone \/ R!Compensated
  BY <1>3 DEF R!ActionFails, R!AllDone, R!Compensated, SagaInv, StepsInOrder, EffectsKnown,
              R!Outcome, R!ReverseOrder
<1>4. CASE R!Compensate
  <2> DEFINE n == Len(completedSteps)
  <2>1. /\ StepsInOrder' /\ n \in Nat /\ Len(completedSteps') = n - 1
        /\ R!LatestFirst(completedSteps) = n
    BY <1>4, PoppedStep DEF R!Compensate, SagaInv
  <2>2. /\ phase = "backward" /\ phase' = "backward"
        /\ \/ n \notin Compensable /\ UNCHANGED <<effects, failures>>
           \/ n \in Compensable /\ effects' = effects \ {n} /\ UNCHANGED failures
           \/ n \in Compensable /\ failures' = failures \cup {n} /\ UNCHANGED effects
    BY <1>4, <2>1 DEF R!Compensate
  <2>3. /\ 1..n \subseteq effects /\ effects \subseteq 1..Steps
        /\ failures \subseteq effects \cap Compensable
        /\ \A i \in effects \cap Compensable : i <= n \/ i \in failures
        /\ n >= 1
    <3>1. n >= 1
      BY <1>4 DEF R!Compensate, SagaInv, StepsInOrder
    <3> QED BY <2>2, <3>1 DEF SagaInv, EffectsKnown
  <2>4. EffectsKnown'
    <3> HIDE DEF n
    <3>0. /\ effects' \subseteq effects /\ effects \ {n} \subseteq effects'
          /\ failures \subseteq failures' /\ failures' \subseteq failures \cup {n}
          /\ n \in Compensable => n \notin effects' \/ n \in failures'
      BY <2>2
    <3>1. 1..(n - 1) \subseteq effects' /\ effects' \subseteq 1..Steps
      <4> SUFFICES ASSUME NEW i \in 1..(n - 1) PROVE i \in effects'
        BY <3>0, <2>3
      <4>1. i \in 1..n /\ i # n
        BY <2>1
      <4> QED BY <4>1, <3>0, <2>3
    <3>2. failures' \subseteq effects' \cap Compensable
      BY <2>1, <2>2, <2>3
    <3>3. \A i \in effects' \cap Compensable : i <= n - 1 \/ i \in failures'
      <4> SUFFICES ASSUME NEW i \in effects' \cap Compensable, i \notin failures'
                   PROVE  i <= n - 1
        OBVIOUS
      <4>1. i \in effects /\ i \in Compensable /\ i # n /\ i \notin failures
        BY <3>0
      <4>2. i \in Int /\ i <= n
        BY <4>1, <2>3, <2>1
      <4> QED BY <4>1, <4>2, <2>1
    <3> QED BY <2>1, <2>2, <3>1, <3>2, <3>3 DEF EffectsKnown, R!Outcome
  <2>5. R!ReverseOrder
    BY <2>1, <2>2, <2>3 DEF R!ReverseOrder
  <2> QED BY <2>1, <2>4, <2>5 DEF SagaInv
<1> QED BY <1>1, <1>2, <1>3, <1>4 DEF R!SagaNext

\* For any number of steps, wherever an action fails and whichever compensations fail or
\* do not exist: all effects stand, or of those that can be undone the failed ones only,
\* and effects are undone in the reverse of their order.
THEOREM SagaAtomicHolds ==
  ASSUME R!SagaParameters
  PROVE  R!SagaInit /\ [][R!SagaNext]_(R!sagaVars) => R!SagaAtomic
<1>1. R!SagaInit => SagaInv
  BY DEF R!SagaParameters, R!SagaInit, SagaInv, StepsInOrder, EffectsKnown, R!Outcome
<1>2. SagaInv /\ [R!SagaNext]_(R!sagaVars) => SagaInv' /\ [R!ReverseOrder]_(R!sagaVars)
  <2>1. SagaInv /\ UNCHANGED R!sagaVars => SagaInv'
    BY DEF R!sagaVars, SagaInv, StepsInOrder, EffectsKnown, R!Outcome
  <2> QED BY <2>1, SagaStep
<1>3. SagaInv => R!Outcome
  BY DEF SagaInv, EffectsKnown
<1> QED BY <1>1, <1>2, <1>3, PTL DEF R!SagaAtomic

-----------------------------------------------------------------------------
(* The rollout. *)

\* How long a pod that drains may still be sent to: its probe that has seen the flag
\* up answers within ProbeTime, the next answer is 503 and travels for Propagation.
Leaving(p) ==
  /\ p \in probe => waited[p] + left[p] <= ProbeTime
  /\ p \in answer => waited[p] + left[p] <= 2 * ProbeTime
  /\ p \in endpoints \ answer => waited[p] + lag[p] <= 2 * ProbeTime + Propagation

\* What a pod has answered, by its phase.
PodKnown(p) ==
  /\ podPhase[p] \in {"starting", "up"} =>
       waited[p] = 0 /\ (p \in answer \cup probe => p \in isReady)
  /\ podPhase[p] = "draining" => p \notin isReady /\ Leaving(p)
  /\ podPhase[p] \in {"down", "killed"} => p \notin answer \cup probe
  /\ podPhase[p] = "down" => p \notin endpoints

\* No time has passed since a request was sent, and one that is not yet sent has a
\* colour in service, whatever weight and colour have become.
RequestSafe(r) ==
  /\ at[r] = "weighed" => D!InService(activeColor)
  /\ at[r] = "routed" => D!InService(to[r])
  /\ at[r] = "sent" =>
       /\ to[r] \in Pod /\ podPhase[to[r]] # "down"
       /\ podPhase[to[r]] = "draining" => waited[to[r]] # DrainingDelay

ColorsInService ==
  \A k \in D!Policy(canaryWeight, activeColor) : D!InService(k)

RolloutInv ==
  /\ D!TypeOK /\ ColorsInService
  /\ \A p \in Pod : PodKnown(p)
  /\ \A r \in Request : RequestSafe(r)

\* A pod that the router sends to is not down, and its delay has not passed.
LEMMA EndpointServes ==
  ASSUME D!RolloutParameters, RolloutInv, NEW p \in endpoints
  PROVE  /\ p \in Pod /\ podPhase[p] # "down"
         /\ podPhase[p] = "draining" => waited[p] # DrainingDelay
<1>1. /\ p \in Pod /\ PodKnown(p)
      /\ waited[p] \in Nat /\ left[p] \in Nat /\ lag[p] \in Nat
      /\ ProbeTime \in Nat /\ Propagation \in Nat /\ DrainingDelay \in Nat
      /\ DrainingDelay > 2 * ProbeTime + Propagation
  BY DEF RolloutInv, D!TypeOK, D!RolloutParameters
<1>2. CASE podPhase[p] = "draining"
  BY <1>1, <1>2 DEF PodKnown, Leaving
<1> QED BY <1>1, <1>2 DEF PodKnown

\* A pod that has returned from its hook after the delay is nowhere an endpoint.
LEMMA DelayedIsGone ==
  ASSUME D!RolloutParameters, RolloutInv, NEW p \in Pod,
         podPhase[p] = "draining", waited[p] = DrainingDelay
  PROVE  p \notin endpoints
  BY EndpointServes

\* Whether a colour is in service depends on this only.
LEMMA ServiceKept ==
  ASSUME NEW k,
         \A p \in endpoints \cap answer : podPhase[p] = "up" =>
           p \in endpoints' /\ p \in answer' /\ podPhase'[p] = "up",
         UNCHANGED color, D!InService(k)
  PROVE  D!InService(k)'
  BY DEF D!InService, D!Staying

\* Steps of the router and of requests.
LEMMA RequestSteps ==
  ASSUME D!RolloutParameters, RolloutInv, NEW r \in Request,
         \/ D!RouteOverride(r) \/ D!RouteTarget(r) \/ D!LoadColor(r)
         \/ D!Forward(r) \/ D!Arrive(r)
  PROVE  RolloutInv'
<1>1. /\ UNCHANGED <<canaryWeight, activeColor, color, podPhase, isReady, probe, waited>>
      /\ UNCHANGED <<left, answer, endpoints, lag>>
  BY DEF D!RouteOverride, D!RouteTarget, D!LoadColor, D!Forward, D!Arrive,
         D!routing, D!pods, D!router
<1>2. ColorsInService' /\ \A p \in Pod : PodKnown(p)'
  BY <1>1 DEF RolloutInv, ColorsInService, PodKnown, Leaving, D!Policy, D!InService, D!Staying
<1>3. /\ D!TypeOK'
      /\ \A q \in Request \ {r} : at'[q] = at[q] /\ to'[q] = to[q]
  <2>1. activeColor \in D!Color /\ D!Policy(canaryWeight, activeColor) \subseteq D!Color
    BY DEF RolloutInv, D!TypeOK, D!Policy, D!Color
  <2> QED BY <1>1, <2>1 DEF RolloutInv, D!TypeOK, D!RouteOverride, D!RouteTarget,
            D!LoadColor, D!Forward, D!Arrive, D!Color
<1>4. RequestSafe(r)'
  <2>1. CASE D!RouteOverride(r) \/ D!Arrive(r)
    BY <2>1 DEF RequestSafe, D!RouteOverride, D!Arrive, RolloutInv, D!TypeOK
  <2>2. CASE D!RouteTarget(r)
    <3>1. canaryWeight = 0 => D!InService(activeColor)
      BY DEF RolloutInv, ColorsInService, D!Policy
    <3> QED BY <2>2, <3>1, <1>1 DEF RequestSafe, D!RouteTarget, RolloutInv, ColorsInService,
                D!TypeOK, D!InService, D!Staying
  <2>3. CASE D!LoadColor(r)
    BY <2>3, <1>1 DEF RequestSafe, D!LoadColor, RolloutInv, D!TypeOK, D!InService, D!Staying
  <2>4. CASE D!Forward(r)
    <3>1. CASE at'[r] = "out"
      BY <3>1 DEF RequestSafe
    <3>2. CASE at'[r] # "out"
      <4>1. at'[r] = "sent" /\ to'[r] \in endpoints
        BY <2>4, <3>2 DEF D!Forward, RolloutInv, D!TypeOK
      <4> QED BY <4>1, <1>1, EndpointServes DEF RequestSafe
    <3> QED BY <3>1, <3>2
  <2> QED BY <2>1, <2>2, <2>3, <2>4
<1>5. \A q \in Request \ {r} : RequestSafe(q)'
  BY <1>1, <1>3 DEF RolloutInv, RequestSafe, D!InService, D!Staying
<1> QED BY <1>2, <1>3, <1>4, <1>5 DEF RolloutInv

\* The operator moves traffic to colours in service only.
LEMMA TrafficSteps ==
  ASSUME D!RolloutParameters, RolloutInv,
         \/ \E w \in {-1, 50, 101} : D!SetCanaryWeight(w)
         \/ \E k \in D!Color : D!SwitchActiveColor(k)
  PROVE  RolloutInv'
<1>1. UNCHANGED <<color, podPhase, isReady, probe, waited, left, answer, endpoints, lag, at, to>>
  BY DEF D!SetCanaryWeight, D!SwitchActiveColor, D!pods, D!router
<1>2. \A k : D!InService(k)' = D!InService(k)
  BY <1>1 DEF D!InService, D!Staying
<1>3. \A p \in Pod : PodKnown(p)'
  BY <1>1 DEF RolloutInv, PodKnown, Leaving
<1>4. CASE \E w \in {-1, 50, 101} : D!SetCanaryWeight(w)
  <2>1. D!TypeOK' /\ ColorsInService' /\ activeColor' = activeColor
    BY <1>1, <1>2, <1>4 DEF RolloutInv, D!TypeOK, ColorsInService, D!SetCanaryWeight
  <2> QED BY <1>1, <1>2, <1>3, <2>1 DEF RolloutInv, RequestSafe
<1>5. CASE \E k \in D!Color : D!SwitchActiveColor(k)
  <2>1. /\ D!TypeOK' /\ ColorsInService' /\ D!InService(activeColor')
    BY <1>1, <1>2, <1>5
       DEF RolloutInv, D!TypeOK, ColorsInService, D!SwitchActiveColor, D!Policy, D!Color
  <2>2. D!InService(activeColor)'
    BY <1>1, <2>1 DEF D!InService, D!Staying
  <2> QED BY <1>1, <1>2, <1>3, <2>1, <2>2 DEF RolloutInv, RequestSafe
<1> QED BY <1>4, <1>5

\* The pods that p's step leaves alone.
Alone(p) ==
  /\ UNCHANGED <<canaryWeight, activeColor, color, at, to>>
  /\ \A q \in Pod \ {p} :
       /\ podPhase'[q] = podPhase[q] /\ waited'[q] = waited[q]
       /\ left'[q] = left[q] /\ lag'[q] = lag[q]
       /\ (q \in isReady') <=> (q \in isReady)
       /\ (q \in probe') <=> (q \in probe)
       /\ (q \in answer') <=> (q \in answer)
       /\ (q \in endpoints') <=> (q \in endpoints)

\* A step of one pod keeps the invariant if it keeps what is known of that pod, does
\* not stop it before its delay has passed, and does not take a color out of service.
LEMMA OnePodStep ==
  ASSUME D!RolloutParameters, RolloutInv, NEW p \in Pod, Alone(p),
         D!TypeOK', PodKnown(p)',
         podPhase'[p] = "down" => podPhase[p] = "draining" /\ waited[p] = DrainingDelay,
         podPhase'[p] = "draining" =>
           waited'[p] # DrainingDelay \/ (podPhase[p] = "draining" /\ waited'[p] = waited[p]),
         ColorsInService',
         \A r \in Request : /\ at[r] = "weighed" => D!InService(activeColor)'
                            /\ at[r] = "routed" => D!InService(to[r])'
  PROVE  RolloutInv'
<1>1. \A q \in Pod : PodKnown(q)'
  BY DEF RolloutInv, PodKnown, Leaving, Alone
<1>2. ASSUME NEW r \in Request PROVE RequestSafe(r)'
  <2>1. UNCHANGED <<at, to, activeColor>>
    BY DEF Alone
  <2>2. CASE at[r] = "sent"
    <3>1. /\ to[r] \in Pod /\ podPhase[to[r]] # "down"
          /\ podPhase[to[r]] = "draining" => waited[to[r]] # DrainingDelay
      BY <2>2 DEF RolloutInv, RequestSafe
    <3>2. CASE to[r] = p
      BY <2>1, <2>2, <3>1, <3>2 DEF RequestSafe
    <3>3. CASE to[r] # p
      BY <2>1, <2>2, <3>1, <3>3 DEF RequestSafe, Alone
    <3> QED BY <3>2, <3>3
  <2>3. CASE at[r] # "sent"
    BY <2>1, <2>3 DEF RequestSafe
  <2> QED BY <2>2, <2>3
<1> QED BY <1>1, <1>2 DEF RolloutInv

\* A pod that is not on its way out of service may take any step.
LEMMA ServingStep ==
  ASSUME D!RolloutParameters, RolloutInv, NEW p \in Pod, Alone(p), D!TypeOK', PodKnown(p)',
         podPhase'[p] = "down" => podPhase[p] = "draining" /\ waited[p] = DrainingDelay,
         podPhase'[p] = "draining" => podPhase[p] = "draining" /\ waited'[p] = waited[p],
         p \in endpoints \cap answer /\ podPhase[p] = "up" =>
           p \in endpoints' /\ p \in answer' /\ podPhase'[p] = "up"
  PROVE  RolloutInv'
<1>1. /\ UNCHANGED <<color, canaryWeight, activeColor, at, to>>
      /\ \A q \in endpoints \cap answer : podPhase[q] = "up" =>
           q \in endpoints' /\ q \in answer' /\ podPhase'[q] = "up"
  BY DEF Alone, RolloutInv, D!TypeOK
<1>2. \A k : D!InService(k) => D!InService(k)'
  BY <1>1, ServiceKept
<1>3. ColorsInService'
  BY <1>1, <1>2 DEF RolloutInv, ColorsInService, D!Policy
<1>4. \A r \in Request : /\ at[r] = "weighed" => D!InService(activeColor)'
                         /\ at[r] = "routed" => D!InService(to[r])'
  <2> SUFFICES ASSUME NEW r \in Request
               PROVE  /\ at[r] = "weighed" => D!InService(activeColor)'
                      /\ at[r] = "routed" => D!InService(to[r])'
    OBVIOUS
  <2>1. RequestSafe(r)
    BY DEF RolloutInv
  <2>2. D!InService(activeColor) => D!InService(activeColor)'
    BY <1>1, ServiceKept
  <2>3. D!InService(to[r]) => D!InService(to[r])'
    BY <1>1, ServiceKept
  <2> QED BY <2>1, <2>2, <2>3 DEF RequestSafe
<1> QED BY <1>3, <1>4, OnePodStep

\* Starting, becoming ready, and leaving when the delay or the grace period is over.
LEMMA LifecycleSteps ==
  ASSUME D!RolloutParameters, RolloutInv, NEW p \in Pod,
         D!Start(p) \/ D!SetReady(p) \/ D!Connect(p) \/ D!HookReturns(p) \/ D!HookCut(p)
  PROVE  RolloutInv'
<1>1. PodKnown(p) /\ D!TypeOK /\ {DrainingDelay, ProbeTime, Propagation} \subseteq Nat
  BY DEF RolloutInv, D!RolloutParameters
<1>2. Alone(p)
  BY <1>1 DEF Alone, D!Start, D!SetReady, D!Connect, D!HookReturns, D!HookCut, D!routing,
              D!router, D!TypeOK
<1>3. D!TypeOK'
  BY <1>1 DEF D!TypeOK, D!Start, D!SetReady, D!Connect, D!HookReturns, D!HookCut, D!routing,
              D!router
<1>4. D!Start(p) \/ D!SetReady(p) \/ D!Connect(p) => RolloutInv'
  <2> SUFFICES ASSUME D!Start(p) \/ D!SetReady(p) \/ D!Connect(p) PROVE RolloutInv'
    OBVIOUS
  <2>1. PodKnown(p)' /\ podPhase'[p] \in {"starting", "up"}
        /\ (podPhase[p] = "up" => podPhase'[p] = "up")
    BY <1>1 DEF PodKnown, D!TypeOK, D!Start, D!SetReady, D!Connect, D!router
  <2>2. p \in endpoints \cap answer => p \in endpoints' /\ p \in answer'
    BY DEF D!Start, D!SetReady, D!Connect, D!router
  <2> QED BY <1>2, <1>3, <2>1, <2>2, ServingStep
<1>5. D!HookReturns(p) \/ D!HookCut(p) => RolloutInv'
  <2> SUFFICES ASSUME D!HookReturns(p) \/ D!HookCut(p) PROVE RolloutInv'
    OBVIOUS
  <2>1. /\ podPhase[p] = "draining" /\ podPhase'[p] \in {"down", "killed"}
        /\ podPhase'[p] = "down" => waited[p] = DrainingDelay
        /\ p \notin answer' /\ p \notin probe' /\ endpoints' = endpoints
    BY <1>1 DEF D!HookReturns, D!HookCut, D!TypeOK, D!Delayed
  <2>2. podPhase'[p] = "down" => p \notin endpoints
    BY <2>1, DelayedIsGone
  <2>3. PodKnown(p)'
    BY <2>1, <2>2 DEF PodKnown
  <2> QED BY <1>2, <1>3, <2>1, <2>3, ServingStep
<1> QED BY <1>4, <1>5

\* PreStopHook takes the flag down when another pod serves the color, or nobody asks
\* for it; the delay is still to come.
LEMMA HookBegins ==
  ASSUME D!RolloutParameters, RolloutInv, NEW p \in Pod, D!PreStopHook(p)
  PROVE  RolloutInv'
<1>1. /\ PodKnown(p) /\ D!TypeOK /\ {DrainingDelay, ProbeTime, Propagation} \subseteq Nat
      /\ waited[p] \in Nat /\ left[p] \in 0..ProbeTime /\ lag[p] \in 0..Propagation
      /\ DrainingDelay > 2 * ProbeTime + Propagation
  BY DEF RolloutInv, D!RolloutParameters, D!TypeOK
<1>2. Alone(p) /\ D!TypeOK'
  BY <1>1 DEF Alone, D!PreStopHook, D!ClearReady, D!routing, D!router, D!TypeOK
<1>3. /\ podPhase[p] = "up" /\ podPhase' = [podPhase EXCEPT ![p] = "draining"]
      /\ p \notin isReady'
      /\ UNCHANGED <<canaryWeight, activeColor, color, probe, waited, left, answer>>
      /\ UNCHANGED <<endpoints, lag, at, to>>
  BY DEF D!PreStopHook, D!ClearReady, D!routing, D!router
<1>4. podPhase'[p] = "draining" /\ waited'[p] = 0 /\ waited'[p] # DrainingDelay
  BY <1>1, <1>3 DEF PodKnown, D!TypeOK
<1>5. PodKnown(p)'
  BY <1>1, <1>3, <1>4 DEF PodKnown, Leaving
<1>6. \A k : k # color[p] /\ D!InService(k) => D!InService(k)'
  BY <1>1, <1>3 DEF D!InService, D!Staying, D!TypeOK
<1>7. CASE \E q \in D!Staying \ {p} : color[q] = color[p]
  <2>1. ASSUME NEW k, k = color[p] PROVE D!InService(k)'
    BY <1>1, <1>3, <1>7, <2>1 DEF D!InService, D!Staying, D!TypeOK
  <2>2. \A k : D!InService(k) => D!InService(k)'
    BY <1>6, <2>1
  <2>3. ColorsInService'
    BY <1>3, <2>2 DEF RolloutInv, ColorsInService, D!Policy
  <2>4. \A r \in Request : /\ at[r] = "weighed" => D!InService(activeColor)'
                           /\ at[r] = "routed" => D!InService(to[r])'
    <3> SUFFICES ASSUME NEW r \in Request
                 PROVE  /\ at[r] = "weighed" => D!InService(activeColor)'
                        /\ at[r] = "routed" => D!InService(to[r])'
      OBVIOUS
    <3>1. RequestSafe(r)
      BY DEF RolloutInv
    <3>2. /\ D!InService(activeColor) => D!InService(activeColor)'
          /\ D!InService(to[r]) => D!InService(to[r])'
      BY <1>3, <2>2 DEF D!InService
    <3> QED BY <3>1, <3>2 DEF RequestSafe
  <2> QED BY <1>2, <1>4, <1>5, <2>3, <2>4, OnePodStep
<1>8. CASE /\ color[p] \notin D!Policy(canaryWeight, activeColor)
           /\ \A r \in Request : at[r] \in {"out", "sent"}
  <2>1. ColorsInService'
    BY <1>3, <1>6, <1>8 DEF RolloutInv, ColorsInService, D!Policy
  <2>2. \A r \in Request : /\ at[r] = "weighed" => D!InService(activeColor)'
                           /\ at[r] = "routed" => D!InService(to[r])'
    BY <1>8
  <2> QED BY <1>2, <1>4, <1>5, <2>1, <2>2, OnePodStep
<1> QED BY <1>7, <1>8 DEF D!PreStopHook

\* Probes: the answer of one that has seen the flag up may come after the hook began.
LEMMA ProbeSteps ==
  ASSUME D!RolloutParameters, RolloutInv, NEW p \in Pod,
         D!ReadinessHandler(p) \/ D!ExecuteChecks(p) \/ D!Propagate(p)
  PROVE  RolloutInv'
<1>1. /\ PodKnown(p) /\ D!TypeOK /\ {DrainingDelay, ProbeTime, Propagation} \subseteq Nat
      /\ waited[p] \in Nat /\ left[p] \in 0..ProbeTime /\ lag[p] \in 0..Propagation
  BY DEF RolloutInv, D!RolloutParameters, D!TypeOK
<1>2. UNCHANGED <<canaryWeight, activeColor, color, podPhase, isReady, waited, at, to>>
  BY DEF D!ReadinessHandler, D!ExecuteChecks, D!Propagate, D!routing, D!pods
<1>6. podPhase[p] # "down"
  <2>1. D!ReadinessHandler(p) \/ D!ExecuteChecks(p) => podPhase[p] # "down"
    BY <1>1 DEF D!ReadinessHandler, D!ExecuteChecks, D!Serves, PodKnown
  <2>2. D!Propagate(p) => p \in endpoints \/ p \in answer
    BY DEF D!Propagate, D!Behind
  <2> QED BY <1>1, <2>1, <2>2 DEF PodKnown
<1>3. CASE D!ReadinessHandler(p)
  <2>1. CASE p \in isReady
    <3>1. probe' = probe \cup {p} /\ UNCHANGED <<left, answer, endpoints, lag>>
      BY <1>3, <2>1 DEF D!ReadinessHandler
    <3>2. Alone(p) /\ D!TypeOK' /\ PodKnown(p)'
      BY <1>1, <1>2, <1>3, <2>1, <3>1
         DEF Alone, D!TypeOK, PodKnown, Leaving, D!ReadinessHandler, D!Serves
    <3>3. podPhase' = podPhase /\ waited' = waited /\ UNCHANGED <<answer, endpoints>>
      BY <1>2, <3>1
    <3> QED BY <3>2, <3>3, <1>6, ServingStep
  <2>2. CASE p \notin isReady
    <3>1. /\ answer' = answer \ {p} /\ left' = [left EXCEPT ![p] = ProbeTime]
          /\ lag' = IF p \in answer THEN [lag EXCEPT ![p] = Propagation] ELSE lag
          /\ UNCHANGED <<probe, endpoints>> /\ p \notin probe
          /\ podPhase[p] \in {"starting", "up", "draining"}
      BY <1>3, <2>2 DEF D!ReadinessHandler, D!Answered, D!Serves
    <3>2. Alone(p) /\ D!TypeOK'
      BY <1>1, <1>2, <3>1 DEF Alone, D!TypeOK
    <3>3. PodKnown(p)'
      BY <1>1, <1>2, <3>1 DEF D!TypeOK, PodKnown, Leaving
    <3>4. podPhase[p] = "up" => p \notin answer
      BY <1>1, <2>2 DEF PodKnown
    <3>5. podPhase' = podPhase /\ waited' = waited /\ endpoints' = endpoints
      BY <1>2, <3>1
    <3> QED BY <3>2, <3>3, <3>4, <3>5, <1>6, ServingStep
  <2> QED BY <2>1, <2>2
<1>4. CASE D!ExecuteChecks(p)
  <2>1. PICK ok \in IF podPhase[p] = "starting" THEN BOOLEAN ELSE {TRUE} : D!Answered(p, ok)
    BY <1>4 DEF D!ExecuteChecks
  <2>2. /\ ok \in BOOLEAN /\ (podPhase[p] # "starting" => ok)
        /\ probe' = probe \ {p} /\ p \in probe /\ endpoints' = endpoints
        /\ answer' = IF ok THEN answer \cup {p} ELSE answer \ {p}
        /\ left' = [left EXCEPT ![p] = ProbeTime]
        /\ lag' = lag \/ lag' = [lag EXCEPT ![p] = Propagation]
    BY <1>4, <2>1 DEF D!ExecuteChecks, D!Answered
  <2>3. Alone(p) /\ D!TypeOK'
    BY <1>1, <1>2, <2>2 DEF Alone, D!TypeOK
  <2>4. PodKnown(p)'
    BY <1>1, <1>2, <2>2 DEF D!TypeOK, PodKnown, Leaving
  <2>5. podPhase[p] = "up" => p \in answer'
    BY <2>2
  <2>6. podPhase' = podPhase /\ waited' = waited /\ endpoints' = endpoints
    BY <1>2, <2>2
  <2> QED BY <2>3, <2>4, <2>5, <2>6, <1>6, ServingStep
<1>5. CASE D!Propagate(p)
  <2>1. /\ endpoints' = IF p \in answer THEN endpoints \cup {p} ELSE endpoints \ {p}
        /\ UNCHANGED <<probe, left, answer, lag>>
    BY <1>5 DEF D!Propagate, D!pods
  <2>2. Alone(p) /\ D!TypeOK' /\ PodKnown(p)'
    BY <1>1, <1>2, <2>1 DEF Alone, D!TypeOK, PodKnown, Leaving
  <2>3. podPhase' = podPhase /\ waited' = waited /\ answer' = answer
        /\ (p \in endpoints \cap answer => p \in endpoints')
    BY <1>2, <2>1
  <2> QED BY <2>2, <2>3, <1>6, ServingStep
<1> QED BY <1>3, <1>4, <1>5

\* Time passes for everyone who is not due.
LEMMA RolloutTick ==
  ASSUME D!RolloutParameters, RolloutInv, D!Tick
  PROVE  RolloutInv'
<1>1. /\ UNCHANGED <<canaryWeight, activeColor, color, podPhase, isReady, probe>>
      /\ UNCHANGED <<answer, endpoints, at, to>>
      /\ \A r \in Request : at[r] = "out"
  BY DEF D!Tick, D!routing
<1>2. {DrainingDelay, ProbeTime, Propagation} \subseteq Nat
  BY DEF D!RolloutParameters
<1>3. D!TypeOK'
  <2>1. /\ left' \in [Pod -> 0..ProbeTime] /\ lag' \in [Pod -> 0..Propagation]
    <3>1. \A p \in Pod : left[p] \in 0..ProbeTime /\ lag[p] \in 0..Propagation
      BY DEF RolloutInv, D!TypeOK
    <3>2. \A p \in Pod : /\ left[p] # 0 => left[p] - 1 \in 0..ProbeTime
                         /\ lag[p] # 0 => lag[p] - 1 \in 0..Propagation
      BY <1>2, <3>1
    <3> QED BY <1>2, <3>1, <3>2 DEF D!Tick
  <2>2. waited' \in [Pod -> 0..DrainingDelay]
    <3>1. \A p \in Pod : waited[p] \in 0..DrainingDelay
      BY DEF RolloutInv, D!TypeOK
    <3>2. \A p \in Pod : (waited[p] # DrainingDelay => waited[p] + 1 \in 0..DrainingDelay)
      BY <1>2, <3>1
    <3> QED BY <3>1, <3>2 DEF D!Tick, D!Delayed
  <2> QED BY <1>1, <2>1, <2>2 DEF RolloutInv, D!TypeOK
<1>4. ASSUME NEW p \in Pod PROVE PodKnown(p)'
  <2>1. /\ PodKnown(p) /\ waited[p] \in Nat /\ left[p] \in Nat /\ lag[p] \in Nat
    BY <1>2 DEF RolloutInv, D!TypeOK
  <2>2. /\ left'[p] = (IF left[p] = 0 THEN 0 ELSE left[p] - 1)
        /\ lag'[p] = (IF lag[p] = 0 THEN 0 ELSE lag[p] - 1)
        /\ waited'[p] = (IF podPhase[p] = "draining" /\ waited[p] # DrainingDelay
                           THEN waited[p] + 1 ELSE waited[p])
        /\ podPhase[p] = "draining" => left[p] > 0
        /\ p \in endpoints \ answer => lag[p] > 0
    BY DEF D!Tick, D!Delayed, D!Serves, D!Behind
  <2> QED BY <1>1, <1>2, <2>1, <2>2 DEF PodKnown, Leaving
<1>5. ColorsInService' /\ \A r \in Request : RequestSafe(r)'
  BY <1>1 DEF RolloutInv, ColorsInService, RequestSafe, D!InService, D!Staying, D!Policy
<1> QED BY <1>3, <1>4, <1>5 DEF RolloutInv

LEMMA RolloutStep ==
  ASSUME D!RolloutParameters, RolloutInv, [D!Next]_(D!vars)
  PROVE  RolloutInv'
<1>1. CASE D!Next
  BY <1>1, TrafficSteps, RequestSteps, LifecycleSteps, HookBegins, ProbeSteps, RolloutTick
     DEF D!Next
<1>2. CASE UNCHANGED D!vars
  BY <1>2 DEF D!vars, D!routing, D!pods, D!router, RolloutInv, D!TypeOK, ColorsInService,
              PodKnown, Leaving, RequestSafe, D!InService, D!Staying, D!Policy
<1> QED BY <1>1, <1>2

\* For any pods and requests, and any delay that exceeds what two probes and the router
\* need: through canaries, cutovers, restarts and kills a request that is not overridden
\* finds a pod of its colour, and it arrives at a pod that still serves.
THEOREM ZeroDowntimeHolds ==
  ASSUME D!RolloutParameters
  PROVE  D!Init /\ [][D!Next]_(D!vars) => [](D!TypeOK /\ D!ZeroDowntime)
<1>1. D!Init => RolloutInv
  <2> SUFFICES ASSUME D!Init PROVE RolloutInv
    OBVIOUS
  <2>1. /\ D!TypeOK /\ canaryWeight = 0 /\ activeColor = "BLUE"
    BY DEF D!RolloutParameters, D!Init, D!TypeOK, D!Color
  <2>2. \A p \in Pod : PodKnown(p)
    BY DEF D!Init, PodKnown
  <2>3. D!InService("BLUE")
    BY DEF D!Init, D!InService, D!Staying
  <2> QED BY <2>1, <2>2, <2>3 DEF D!Init, RolloutInv, ColorsInService, D!Policy, RequestSafe
<1>2. RolloutInv /\ [D!Next]_(D!vars) => RolloutInv'
  BY RolloutStep
<1>3. RolloutInv => D!TypeOK /\ D!ZeroDowntime
  <2> SUFFICES ASSUME RolloutInv, \A p \in Pod : podPhase[p] # "killed", NEW r \in Request
               PROVE  /\ at[r] = "routed" =>
                           \E p \in endpoints : color[p] = to[r] /\ D!Serves(p)
                      /\ at[r] = "sent" => D!Serves(to[r])
    BY DEF D!ZeroDowntime, RolloutInv
  <2>1. RequestSafe(r) /\ D!TypeOK
    BY DEF RolloutInv
  <2>2. at[r] = "routed" => \E p \in endpoints : color[p] = to[r] /\ D!Serves(p)
    BY <2>1 DEF RequestSafe, D!InService, D!Staying, D!Serves
  <2>3. at[r] = "sent" => D!Serves(to[r])
    BY <2>1 DEF RequestSafe, D!Serves, D!TypeOK
  <2> QED BY <2>2, <2>3
<1> QED BY <1>1, <1>2, <1>3, PTL

-----------------------------------------------------------------------------
(* Induction, and the sums of the values of a function.  The induction is over sets, *)
(* the sum's defining equation then has a solution, which CHOOSE finds.            *)

\* A set that has 0 and the successors of its members has every natural number.
LEMMA Induction ==
  ASSUME NEW Good, 0 \in Good, \A n \in Nat : n \in Good => n + 1 \in Good
  PROVE  Nat \subseteq Good
<1> SUFFICES ASSUME Nat \ Good # {} PROVE FALSE
  OBVIOUS
<1> DEFINE Less == {ss \in Nat \X Nat : ss[1] < ss[2]}
<1>1. IsWellFoundedOn(Less, Nat)
  BY ONLY NatLessThanWellFounded DEF OpToRel
<1> HIDE DEF Less
<1>2. PICK n \in Nat \ Good : \A m \in Nat \ Good : <<m, n>> \notin Less
  BY <1>1, WFMin
<1>3. n # 0 /\ n - 1 \in Nat /\ n = (n - 1) + 1
  BY <1>2
<1>4. <<n - 1, n>> \in Less
  BY <1>3 DEF Less
<1> QED BY <1>2, <1>3, <1>4

\* What holds of a set if it does of the set without any one of its elements holds of every
\* subset of a finite set.
LEMMA SubsetInduction ==
  ASSUME NEW Dom, IsFiniteSet(Dom), NEW Good,
         \A s \in SUBSET Dom : (\A x \in s : s \ {x} \in Good) => s \in Good
  PROVE  SUBSET Dom \subseteq Good
<1> DEFINE K == {n \in Nat : \A s \in SUBSET Dom : Cardinality(s) = n => s \in Good}
<1>1. \A s \in SUBSET Dom : IsFiniteSet(s) /\ Cardinality(s) \in Nat
  BY FS_Subset, FS_CardinalityType
<1>2. 0 \in K
  BY <1>1, FS_EmptySet
<1>3. ASSUME NEW n \in Nat, n \in K PROVE n + 1 \in K
  <2> SUFFICES ASSUME NEW s \in SUBSET Dom, Cardinality(s) = n + 1, NEW x \in s
               PROVE  s \ {x} \in Good
    OBVIOUS
  <2>1. Cardinality(s \ {x}) = Cardinality(s) - 1
    BY <1>1, FS_RemoveElement
  <2> QED BY <1>3, <2>1
<1>4. Nat \subseteq K
  <2> HIDE DEF K
  <2> QED BY <1>2, <1>3, Induction
<1> QED BY <1>1, <1>4

\* g folds op over the subsets of Dom, from base, taking their elements as pick says.
Picks(pick, Dom) == \A s \in SUBSET Dom : s # {} => pick[s] \in s
FoldsBy(g, Dom, base, pick, op) ==
  \A s \in SUBSET Dom : g[s] = IF s = {} THEN base ELSE op[pick[s]][g[s \ {pick[s]}]]

\* The equation of a fold over the subsets of a finite set is satisfied by some function.
LEMMA Recursion ==
  ASSUME NEW Dom, IsFiniteSet(Dom), NEW Val, NEW base \in Val, NEW pick, Picks(pick, Dom),
         NEW op \in [Dom -> [Val -> Val]]
  PROVE  \E g \in [SUBSET Dom -> Val] : FoldsBy(g, Dom, base, pick, op)
<1> USE DEF Picks, FoldsBy
<1> DEFINE Small(n) == {s \in SUBSET Dom : Cardinality(s) <= n}
           Value(g, s) == IF s = {} THEN base ELSE op[pick[s]][g[s \ {pick[s]}]]
           Solves(g, n) == \A s \in Small(n) : g[s] = Value(g, s)
           K == {n \in Nat : \E g \in [Small(n) -> Val] : Solves(g, n)}
<1>1. \A s \in SUBSET Dom : IsFiniteSet(s) /\ Cardinality(s) \in Nat
  BY FS_Subset, FS_CardinalityType
<1>2. \A s \in SUBSET Dom : s # {} => pick[s] \in Dom /\ s \ {pick[s]} \in SUBSET Dom
                              /\ Cardinality(s \ {pick[s]}) = Cardinality(s) - 1
  BY <1>1, FS_RemoveElement
<1>3. \A s \in SUBSET Dom : Cardinality(s) = 0 => s = {}
  BY <1>1, FS_EmptySet
<1>4. 0 \in K
  <2>1. \A s \in Small(0) : s = {}
    BY <1>1, <1>3
  <2>2. [s \in Small(0) |-> base] \in [Small(0) -> Val] /\ Solves([s \in Small(0) |-> base], 0)
    BY <2>1
  <2> HIDE DEF Small, Solves
  <2> QED BY <2>2
<1>5. ASSUME NEW n \in Nat, n \in K PROVE n + 1 \in K
  <2>1. PICK g \in [Small(n) -> Val] : Solves(g, n)
    BY <1>5
  <2> DEFINE h == [s \in Small(n + 1) |-> Value(g, s)]
  <2>2. \A s \in Small(n + 1) : s \in SUBSET Dom /\ (s # {} => s \ {pick[s]} \in Small(n))
    BY <1>1, <1>2
  <2>3. \A s \in Small(n) : s \in Small(n + 1)
    BY <1>1
  <2>4. \A s \in Small(n + 1) : Value(g, s) \in Val
    <3> SUFFICES ASSUME NEW s \in Small(n + 1), s # {} PROVE Value(g, s) \in Val
      OBVIOUS
    <3>1. pick[s] \in Dom /\ s \ {pick[s]} \in Small(n)
      BY <1>2, <2>2
    <3> HIDE DEF Small
    <3>2. g[s \ {pick[s]}] \in Val
      BY <3>1
    <3>3. op[pick[s]][g[s \ {pick[s]}]] \in Val
      BY <3>1, <3>2
    <3> QED BY <3>3
  <2>5. \A s \in Small(n) : h[s] = g[s]
    BY <2>1, <2>3
  <2>6. \A s \in Small(n + 1) : Value(h, s) = Value(g, s)
    <3> HIDE DEF Small, h
    <3> QED BY <2>2, <2>5
  <2>7. h \in [Small(n + 1) -> Val]
    <3> HIDE DEF Value, Small
    <3> QED BY <2>4
  <2>8. Solves(h, n + 1)
    <3> HIDE DEF Value, Small
    <3> QED BY <2>6
  <2> HIDE DEF h, Small, Solves
  <2> QED BY <2>7, <2>8
<1>6. Nat \subseteq K
  <2> HIDE DEF K
  <2> QED BY <1>4, <1>5, Induction
<1>7. Cardinality(Dom) \in Nat /\ Small(Cardinality(Dom)) = SUBSET Dom
  BY FS_Subset, FS_CardinalityType
<1>8. PICK g \in [SUBSET Dom -> Val] : Solves(g, Cardinality(Dom))
  <2> HIDE DEF Small, Solves
  <2> QED BY <1>6, <1>7
<1> QED BY <1>7, <1>8

\* FoldFunctionOnSet adds the values up, an element that CHOOSE takes after the other.
Sum(f, set) == U!FoldFunctionOnSet(LAMBDA x, y : x + y, 0, f, set)
Some(set) == CHOOSE x \in set : TRUE

\* A sum is that of an element and of the rest.
LEMMA SumEquations ==
  ASSUME NEW Dom, IsFiniteSet(Dom), NEW f \in [Dom -> Int]
  PROVE  \A s \in SUBSET Dom :
           Sum(f, s) \in Int /\ Sum(f, s) = IF s = {} THEN 0 ELSE f[Some(s)] + Sum(f, s \ {Some(s)})
<1> DEFINE pick == [s \in SUBSET Dom |-> Some(s)]
           op == [x \in Dom |-> [r \in Int |-> f[x] + r]]
<1>1. \A s : s # {} => Some(s) \in s
  BY DEF Some
<1>2. Picks(pick, Dom) /\ op \in [Dom -> [Int -> Int]] /\ 0 \in Int
  BY <1>1 DEF Picks
<1>3. PICK g \in [SUBSET Dom -> Int] : FoldsBy(g, Dom, 0, pick, op)
  <2> HIDE DEF op, pick
  <2> QED BY <1>2, Recursion
<1>4. \A s \in SUBSET Dom : g[s] \in Int /\ g[s] = IF s = {} THEN 0 ELSE f[Some(s)] + g[s \ {Some(s)}]
  <2> SUFFICES ASSUME NEW s \in SUBSET Dom, s # {} PROVE g[s] = f[Some(s)] + g[s \ {Some(s)}]
    BY <1>3 DEF FoldsBy
  <2>1. pick[s] = Some(s) /\ Some(s) \in Dom /\ g[s \ {Some(s)}] \in Int
    BY <1>1
  <2>2. op[Some(s)][g[s \ {Some(s)}]] = f[Some(s)] + g[s \ {Some(s)}]
    BY <2>1
  <2> HIDE DEF op, pick
  <2> QED BY <1>3, <2>1, <2>2 DEF FoldsBy
<1>5. ASSUME NEW Sub \in SUBSET Dom PROVE Sum(f, Sub) = g[Sub]
  <2> DEFINE Value(h, s) == IF s = {} THEN 0 ELSE f[Some(s)] + h[s \ {Some(s)}]
             Solves(h) == h = [s \in SUBSET Sub |-> Value(h, s)]
             iter == CHOOSE h : Solves(h)
  <2>1. Sum(f, Sub) = iter[Sub]
    BY Zenon DEF Sum, U!FoldFunctionOnSet, U!MapThenFoldSet, Some
  <2>2. Solves([s \in SUBSET Sub |-> g[s]])
    BY <1>1, <1>4
  <2>3. Solves(iter)
    <3> HIDE DEF Solves
    <3> QED BY <2>2
  <2> DEFINE Good == {s \in SUBSET Sub : iter[s] = g[s]}
  <2> HIDE DEF iter
  <2>4. ASSUME NEW s \in SUBSET Sub, \A x \in s : s \ {x} \in Good PROVE s \in Good
    <3>1. iter[s] = Value(iter, s) /\ g[s] = Value(g, s)
      BY <1>4, <2>3
    <3>2. s # {} => iter[s \ {Some(s)}] = g[s \ {Some(s)}]
      BY <1>1, <2>4
    <3> QED BY <3>1, <3>2
  <2>5. IsFiniteSet(Sub)
    BY FS_Subset
  <2>6. SUBSET Sub \subseteq Good
    <3> HIDE DEF Good
    <3> QED BY <2>4, <2>5, SubsetInduction
  <2> QED BY <2>1, <2>6
<1> QED BY <1>1, <1>4, <1>5
\* A sum of integers is one.
LEMMA SumIsInt ==
  ASSUME NEW Dom, IsFiniteSet(Dom), NEW f \in [Dom -> Int], NEW s \in SUBSET Dom
  PROVE  Sum(f, s) \in Int
BY SumEquations

\* The element may be any.
LEMMA SumRemoves ==
  ASSUME NEW Dom, IsFiniteSet(Dom), NEW f \in [Dom -> Int]
  PROVE  \A s \in SUBSET Dom : \A x \in s : Sum(f, s) = f[x] + Sum(f, s \ {x})
<1> DEFINE Good == {s \in SUBSET Dom : \A x \in s : Sum(f, s) = f[x] + Sum(f, s \ {x})}
<1>1. ASSUME NEW s \in SUBSET Dom, \A x \in s : s \ {x} \in Good PROVE s \in Good
  <2> SUFFICES ASSUME NEW x \in s PROVE Sum(f, s) = f[x] + Sum(f, s \ {x})
    OBVIOUS
  <2> DEFINE y == Some(s)
  <2>1. y \in s
    BY DEF Some
  <2>2. Sum(f, s) = f[y] + Sum(f, s \ {y})
    BY SumEquations
  <2>3. CASE y # x
    <3>1. /\ x \in s \ {y} /\ y \in s \ {x}
          /\ s \ {x} \in SUBSET Dom /\ s \ {y} \in SUBSET Dom
          /\ (s \ {x}) \ {y} = (s \ {y}) \ {x} /\ (s \ {y}) \ {x} \in SUBSET Dom
      BY <2>1, <2>3
    <3>2. Sum(f, s \ {y}) = f[x] + Sum(f, (s \ {y}) \ {x})
      BY <1>1, <2>1, <3>1
    <3>3. Sum(f, s \ {x}) = f[y] + Sum(f, (s \ {y}) \ {x})
      BY <1>1, <3>1
    <3>4. f[x] \in Int /\ f[y] \in Int /\ Sum(f, (s \ {y}) \ {x}) \in Int
      BY <2>1, <3>1, SumEquations
    <3> HIDE DEF y
    <3> QED BY <2>2, <3>2, <3>3, <3>4
  <2> QED BY <2>2, <2>3
<1>2. SUBSET Dom \subseteq Good
  <2> HIDE DEF Good
  <2> QED BY <1>1, SubsetInduction
<1> QED BY <1>2

\* The sum of a sum.
LEMMA SumAdds ==
  ASSUME NEW Dom, IsFiniteSet(Dom), NEW f \in [Dom -> Int], NEW g \in [Dom -> Int], NEW h \in [Dom -> Int],
         NEW Sub \in SUBSET Dom, \A x \in Sub : h[x] = f[x] + g[x]
  PROVE  Sum(h, Sub) = Sum(f, Sub) + Sum(g, Sub)
<1> DEFINE Good == {s \in SUBSET Sub : Sum(h, s) = Sum(f, s) + Sum(g, s)}
<1>1. ASSUME NEW s \in SUBSET Sub, \A x \in s : s \ {x} \in Good PROVE s \in Good
  <2>1. CASE s = {}
    <3>1. Sum(h, s) = 0 /\ Sum(f, s) = 0 /\ Sum(g, s) = 0
      BY <2>1, SumEquations
    <3> QED BY <3>1
  <2>2. CASE s # {}
    <3> PICK x \in s : TRUE
      BY <2>2
    <3>1. s \in SUBSET Dom /\ s \ {x} \in SUBSET Dom /\ x \in Dom
      OBVIOUS
    <3>2. Sum(h, s) = h[x] + Sum(h, s \ {x})
      BY <3>1, SumRemoves
    <3>3. Sum(f, s) = f[x] + Sum(f, s \ {x})
      BY <3>1, SumRemoves
    <3>4. Sum(g, s) = g[x] + Sum(g, s \ {x})
      BY <3>1, SumRemoves
    <3>5. /\ f[x] \in Int /\ g[x] \in Int /\ h[x] \in Int
          /\ Sum(f, s \ {x}) \in Int /\ Sum(g, s \ {x}) \in Int /\ Sum(h, s \ {x}) \in Int
      BY <3>1, SumIsInt
    <3>6. h[x] = f[x] + g[x] /\ Sum(h, s \ {x}) = Sum(f, s \ {x}) + Sum(g, s \ {x})
      BY <1>1
    <3> QED BY <3>2, <3>3, <3>4, <3>5, <3>6
  <2> QED BY <2>1, <2>2
<1>2. IsFiniteSet(Sub)
  BY FS_Subset
<1>3. SUBSET Sub \subseteq Good
  <2> HIDE DEF Good
  <2> QED BY <1>1, <1>2, SubsetInduction
<1> QED BY <1>3

\* The sum of zeros is zero.
LEMMA SumOfZeros ==
  ASSUME NEW Dom, IsFiniteSet(Dom), NEW f \in [Dom -> Int], NEW Sub \in SUBSET Dom, \A x \in Sub : f[x] = 0
  PROVE  Sum(f, Sub) = 0
<1> DEFINE n == Sum(f, Sub)
<1>1. n = n + n
  BY SumAdds
<1>2. n \in Int
  BY SumIsInt
<1> HIDE DEF n
<1>3. n = 0
  BY <1>1, <1>2
<1> QED BY <1>3 DEF n

\* Functions that agree have the same sum.
LEMMA SumAgrees ==
  ASSUME NEW Dom, IsFiniteSet(Dom), NEW f \in [Dom -> Int], NEW g \in [Dom -> Int],
         NEW Sub \in SUBSET Dom, \A x \in Sub : f[x] = g[x]
  PROVE  Sum(f, Sub) = Sum(g, Sub)
<1> DEFINE zero == [x \in Dom |-> 0]
<1>1. zero \in [Dom -> Int] /\ \A x \in Sub : zero[x] = 0 /\ f[x] = g[x] + zero[x]
  OBVIOUS
<1> HIDE DEF zero
<1>2. Sum(zero, Sub) = 0 /\ Sum(f, Sub) = Sum(g, Sub) + Sum(zero, Sub)
  BY <1>1, SumOfZeros, SumAdds
<1>3. Sum(g, Sub) \in Int
  BY SumIsInt
<1> QED BY <1>2, <1>3

-----------------------------------------------------------------------------
(* Transactions, stock and checkouts. *)

\* What a session has staged of a wallet is the balance it has read, with the session's
\* entries.
SessionsKnown ==
  /\ wallets \in [Wallet -> Int] /\ ledger \in [Wallet -> Int] /\ erased \in [Wallet -> Int]
  /\ stagedLedger \in [Updater -> [Wallet -> Int]] /\ seen \in [Updater -> [Wallet -> Int]]
  /\ DOMAIN stagedWallets = Updater
  /\ \A k \in Updater :
       /\ U!Staged(k) \subseteq Wallet
       /\ stagedWallets[k] \in [U!Staged(k) -> Int]
       /\ k \notin open => U!Staged(k) = {} /\ stagedLedger[k] = U!Zero
       /\ \A w \in U!Staged(k) : stagedWallets[k][w] = seen[k][w] + stagedLedger[k][w]
       /\ \A w \in Wallet \ U!Staged(k) : stagedLedger[k][w] = 0

TransactionsInv == SessionsKnown /\ U!LedgersAgree

\* An item that was read, with its version, is the item while the version is the same.
CopiesKnown ==
  /\ item \in [stock : Int, version : Nat] /\ sold \in Int
  /\ copy \in [Updater -> [stock : Int, version : Nat]]
  /\ \A k \in Updater :
       /\ copy[k].version <= item.version
       /\ copy[k].version = item.version /\ copy[k].version > 0 => copy[k] = item

StockInv == CopiesKnown /\ U!UnitsAccounted

\* A Checkout has been charged once when it has begun its transaction, and its order
\* is booked when the transaction has been committed.
CheckoutsKnown ==
  /\ checkoutStage \in [Updater -> {"idle", "try", "deduct", "commit", "answered",
                                    "backoff", "ok", "failed"}]
  /\ orderCharges \in [Updater -> Int]
  /\ \A k \in Updater :
       /\ checkoutStage[k] = "idle" => orderCharges[k] = 0 /\ k \notin savedOrders
       /\ checkoutStage[k] \in {"try", "deduct", "commit", "backoff"} =>
            orderCharges[k] = 1 /\ k \notin savedOrders
       /\ checkoutStage[k] = "answered" => orderCharges[k] = 1 /\ k \in savedOrders

CheckoutInv == CheckoutsKnown /\ U!OrdersCharged

\* A commit books its entries, and what it overwrites beyond them as erased.
LEMMA CommitKeeps ==
  ASSUME U!UpdateParameters, TransactionsInv, NEW k \in Updater, U!Commit(k)
  PROVE  TransactionsInv'
<1> DEFINE own == U!Staged(k)
<1>1. /\ wallets' = [w \in Wallet |-> IF w \in own THEN stagedWallets[k][w] ELSE wallets[w]]
      /\ ledger' = [w \in Wallet |-> ledger[w] + stagedLedger[k][w]]
      /\ open' = open \ {k}
      /\ stagedWallets' = [stagedWallets EXCEPT ![k] = U!Nothing]
      /\ stagedLedger' = [stagedLedger EXCEPT ![k] = U!Zero]
      /\ seen' = [seen EXCEPT ![k] = U!Zero]
      /\ erased' = [w \in Wallet |->
           IF w \in own THEN erased[w] + wallets[w] - seen[k][w] ELSE erased[w]]
  BY DEF U!Commit, U!Forget
<1>2. /\ own \subseteq Wallet /\ stagedWallets[k] \in [own -> Int]
      /\ stagedLedger[k] \in [Wallet -> Int] /\ seen[k] \in [Wallet -> Int]
      /\ \A w \in own : stagedWallets[k][w] = seen[k][w] + stagedLedger[k][w]
      /\ \A w \in Wallet \ own : stagedLedger[k][w] = 0
      /\ wallets \in [Wallet -> Int] /\ ledger \in [Wallet -> Int] /\ erased \in [Wallet -> Int]
  BY DEF TransactionsInv, SessionsKnown
<1> HIDE DEF own
<1>3. /\ wallets' \in [Wallet -> Int] /\ ledger' \in [Wallet -> Int]
      /\ erased' \in [Wallet -> Int]
  BY <1>1, <1>2
<1>4. U!LedgersAgree'
  <2> SUFFICES ASSUME NEW w \in Wallet
               PROVE  wallets'[w] = Initial + ledger'[w] - erased'[w]
    BY DEF U!LedgersAgree
  <2>1. wallets[w] = Initial + ledger[w] - erased[w]
    BY DEF TransactionsInv, U!LedgersAgree
  <2>2. /\ Initial \in Int /\ wallets[w] \in Int /\ ledger[w] \in Int /\ erased[w] \in Int
        /\ stagedLedger[k][w] \in Int /\ seen[k][w] \in Int
    BY <1>2 DEF U!UpdateParameters
  <2>3. ledger'[w] = ledger[w] + stagedLedger[k][w]
    BY <1>1
  <2>4. CASE w \in own
    <3>1. /\ wallets'[w] = seen[k][w] + stagedLedger[k][w]
          /\ erased'[w] = erased[w] + wallets[w] - seen[k][w]
      BY <1>1, <1>2, <2>4
    <3> QED BY <2>1, <2>2, <2>3, <3>1
  <2>5. CASE w \notin own
    <3>1. wallets'[w] = wallets[w] /\ erased'[w] = erased[w] /\ stagedLedger[k][w] = 0
      BY <1>1, <1>2, <2>5
    <3> QED BY <2>1, <2>2, <2>3, <3>1
  <2> QED BY <2>4, <2>5
<1>5. SessionsKnown'
  <2>1. U!Zero \in [Wallet -> Int] /\ U!Nothing \in [{} -> Int] /\ DOMAIN U!Nothing = {}
    BY DEF U!Zero, U!Nothing
  <2>2. /\ DOMAIN stagedWallets' = Updater
        /\ stagedLedger' \in [Updater -> [Wallet -> Int]] /\ seen' \in [Updater -> [Wallet -> Int]]
    BY <1>1, <2>1 DEF TransactionsInv, SessionsKnown
  <2>3. ASSUME NEW d \in Updater
        PROVE  /\ U!Staged(d)' \subseteq Wallet
               /\ stagedWallets'[d] \in [U!Staged(d)' -> Int]
               /\ d \notin open' => U!Staged(d)' = {} /\ stagedLedger'[d] = U!Zero
               /\ \A w \in U!Staged(d)' : stagedWallets'[d][w] = seen'[d][w] + stagedLedger'[d][w]
               /\ \A w \in Wallet \ U!Staged(d)' : stagedLedger'[d][w] = 0
    <3>1. CASE d = k
      <4>1. stagedWallets'[d] = U!Nothing /\ stagedLedger'[d] = U!Zero /\ U!Staged(d)' = {}
        BY <1>1, <2>1, <3>1 DEF TransactionsInv, SessionsKnown, U!Staged
      <4> QED BY <4>1, <2>1 DEF U!Zero
    <3>2. CASE d # k
      <4>1. /\ stagedWallets'[d] = stagedWallets[d] /\ stagedLedger'[d] = stagedLedger[d]
            /\ seen'[d] = seen[d] /\ U!Staged(d)' = U!Staged(d)
            /\ d \in open <=> d \in open'
        BY <1>1, <3>2 DEF U!Staged, TransactionsInv, SessionsKnown
      <4> QED BY <4>1 DEF TransactionsInv, SessionsKnown
    <3> QED BY <3>1, <3>2
  <2> QED BY <1>3, <2>2, <2>3 DEF SessionsKnown, U!Zero
<1> QED BY <1>4, <1>5 DEF TransactionsInv

\* Beginning, reading, moving a unit between staged wallets, and rolling back.
LEMMA SessionKeeps ==
  ASSUME U!UpdateParameters, TransactionsInv, NEW k \in Updater,
         \/ U!Begin(k) \/ U!Rollback(k)
         \/ \E w \in Wallet : U!GetWallet(k, w) \/ \E v \in Wallet : U!Transfer(k, w, v)
  PROVE  TransactionsInv'
<1>1. /\ UNCHANGED <<wallets, ledger, erased>>
      /\ \A d \in Updater \ {k} :
           /\ stagedWallets'[d] = stagedWallets[d] /\ stagedLedger'[d] = stagedLedger[d]
           /\ seen'[d] = seen[d] /\ (d \in open' <=> d \in open)
  BY DEF U!Begin, U!Rollback, U!GetWallet, U!Transfer, U!Forget, TransactionsInv, SessionsKnown
<1>2. /\ DOMAIN stagedWallets' = Updater
      /\ stagedLedger' = [d \in Updater |-> stagedLedger'[d]] /\ seen' = [d \in Updater |-> seen'[d]]
  BY DEF U!Begin, U!Rollback, U!GetWallet, U!Transfer, U!Forget, TransactionsInv, SessionsKnown
<1> DEFINE Known(d) ==
      /\ U!Staged(d)' \subseteq Wallet /\ stagedWallets'[d] \in [U!Staged(d)' -> Int]
      /\ stagedLedger'[d] \in [Wallet -> Int] /\ seen'[d] \in [Wallet -> Int]
      /\ d \notin open' => U!Staged(d)' = {} /\ stagedLedger'[d] = U!Zero
      /\ \A w \in U!Staged(d)' : stagedWallets'[d][w] = seen'[d][w] + stagedLedger'[d][w]
      /\ \A w \in Wallet \ U!Staged(d)' : stagedLedger'[d][w] = 0
<1>3. \A d \in Updater \ {k} : Known(d)
  BY <1>1 DEF TransactionsInv, SessionsKnown, U!Staged
<1>4. /\ U!Staged(k) \subseteq Wallet /\ stagedWallets[k] \in [U!Staged(k) -> Int]
      /\ stagedLedger[k] \in [Wallet -> Int] /\ wallets \in [Wallet -> Int]
      /\ seen \in [Updater -> [Wallet -> Int]] /\ seen[k] \in [Wallet -> Int]
      /\ k \notin open => U!Staged(k) = {} /\ stagedLedger[k] = U!Zero
      /\ \A w \in U!Staged(k) : stagedWallets[k][w] = seen[k][w] + stagedLedger[k][w]
      /\ \A w \in Wallet \ U!Staged(k) : stagedLedger[k][w] = 0
  BY DEF TransactionsInv, SessionsKnown
<1>5. ASSUME U!Begin(k) PROVE Known(k)
  <2>1. /\ UNCHANGED <<stagedWallets, stagedLedger, seen>> /\ U!Staged(k)' = U!Staged(k)
        /\ k \notin open /\ k \in open'
    BY <1>5 DEF U!Begin, U!Staged
  <2> QED BY <1>1, <1>4, <2>1
<1>6. ASSUME U!Rollback(k) PROVE Known(k)
  <2>1. /\ stagedWallets'[k] = U!Nothing /\ stagedLedger'[k] = U!Zero /\ U!Staged(k)' = {}
        /\ seen'[k] = U!Zero
    BY <1>6 DEF U!Rollback, U!Forget, TransactionsInv, SessionsKnown, U!Staged, U!Nothing
  <2>2. /\ U!Nothing \in [{} -> Int] /\ U!Zero \in [Wallet -> Int]
        /\ \A w \in Wallet : U!Zero[w] = 0
    BY DEF U!Zero, U!Nothing
  <2> QED BY <2>1, <2>2
<1>7. ASSUME NEW w \in Wallet, U!GetWallet(k, w) PROVE Known(k)
  <2>1. /\ stagedWallets'[k] = [v \in U!Staged(k) \cup {w} |->
                                  IF v = w THEN wallets[w] ELSE stagedWallets[k][v]]
        /\ U!Staged(k)' = U!Staged(k) \cup {w} /\ w \notin U!Staged(k)
        /\ seen'[k] = [seen[k] EXCEPT ![w] = wallets[w]]
        /\ UNCHANGED <<open, stagedLedger>> /\ k \in open
    BY <1>4, <1>7 DEF U!GetWallet, TransactionsInv, SessionsKnown, U!Staged
  <2>2. stagedLedger[k][w] = 0
    BY <1>4, <2>1
  <2>3. /\ stagedWallets'[k] \in [U!Staged(k)' -> Int] /\ seen'[k] \in [Wallet -> Int]
        /\ U!Staged(k)' \subseteq Wallet
    BY <1>4, <2>1
  <2>4. ASSUME NEW v \in U!Staged(k)'
        PROVE  stagedWallets'[k][v] = seen'[k][v] + stagedLedger'[k][v]
    <3>1. CASE v = w
      BY <1>4, <2>1, <2>2, <3>1
    <3>2. CASE v # w
      BY <1>4, <2>1, <3>2
    <3> QED BY <3>1, <3>2
  <2> QED BY <1>4, <2>1, <2>3, <2>4
<1>8. ASSUME NEW v \in Wallet, NEW w \in Wallet, U!Transfer(k, v, w) PROVE Known(k)
  <2> DEFINE mine == stagedWallets[k]
             entries == stagedLedger[k]
  <2>1. /\ v # w /\ {v, w} \subseteq U!Staged(k) /\ k \in open
        /\ stagedWallets'[k] = [[mine EXCEPT ![v] = @ - 1] EXCEPT ![w] = @ + 1]
        /\ stagedLedger'[k] = [[entries EXCEPT ![v] = @ - 1] EXCEPT ![w] = @ + 1]
        /\ UNCHANGED <<open, seen>>
    BY <1>8 DEF U!Transfer, TransactionsInv, SessionsKnown
  <2>2. /\ mine \in [U!Staged(k) -> Int] /\ entries \in [Wallet -> Int]
        /\ U!Staged(k) \subseteq Wallet /\ U!Staged(k)' = DOMAIN stagedWallets'[k]
    BY <1>4 DEF U!Staged
  <2> HIDE DEF mine, entries
  <2>3. /\ U!Staged(k)' = U!Staged(k) /\ stagedWallets'[k] \in [U!Staged(k) -> Int]
        /\ stagedLedger'[k] \in [Wallet -> Int]
    BY <2>1, <2>2
  <2>4. ASSUME NEW u \in U!Staged(k)
        PROVE  stagedWallets'[k][u] - stagedLedger'[k][u] = mine[u] - entries[u]
    BY <2>1, <2>2
  <2>5. \A u \in Wallet \ U!Staged(k) : stagedLedger'[k][u] = entries[u]
    BY <2>1, <2>2
  <2>6. ASSUME NEW u \in U!Staged(k)
        PROVE  stagedWallets'[k][u] = seen[k][u] + stagedLedger'[k][u]
    <3>1. mine[u] = seen[k][u] + entries[u] /\ u \in Wallet
      BY <1>4 DEF mine, entries
    <3>2. /\ mine[u] \in Int /\ entries[u] \in Int /\ seen[k][u] \in Int
          /\ stagedWallets'[k][u] \in Int /\ stagedLedger'[k][u] \in Int
      BY <1>4, <2>2, <2>3, <3>1
    <3> QED BY <2>4, <3>1, <3>2
  <2>7. \A u \in Wallet \ U!Staged(k) : stagedLedger'[k][u] = 0
    BY <1>4, <2>5 DEF entries
  <2>8. seen'[k] = seen[k]
    BY <2>1
  <2> QED BY <1>4, <2>1, <2>2, <2>3, <2>6, <2>7, <2>8
<1>9. Known(k)
  <2> HIDE DEF Known
  <2> QED BY <1>5, <1>6, <1>7, <1>8
<1>10. SessionsKnown'
  <2>1. stagedLedger' \in [Updater -> [Wallet -> Int]] /\ seen' \in [Updater -> [Wallet -> Int]]
    <3>1. \A d \in Updater : stagedLedger'[d] \in [Wallet -> Int] /\ seen'[d] \in [Wallet -> Int]
      BY <1>3, <1>9
    <3> QED BY <1>2, <3>1
  <2>2. /\ wallets' \in [Wallet -> Int] /\ ledger' \in [Wallet -> Int]
        /\ erased' \in [Wallet -> Int]
    BY <1>1 DEF TransactionsInv, SessionsKnown
  <2> QED BY <1>2, <1>3, <1>9, <2>1, <2>2 DEF SessionsKnown, U!Zero
<1> QED BY <1>1, <1>10 DEF TransactionsInv, U!LedgersAgree

\* Reading the item and updating it.
LEMMA StockKeeps ==
  ASSUME U!UpdateParameters, StockInv, U!StockNext
  PROVE  StockInv'
<1>1. ASSUME NEW k \in Updater, U!Get(k) PROVE StockInv'
  BY <1>1 DEF U!Get, StockInv, CopiesKnown, U!UnitsAccounted
<1>2. ASSUME NEW k \in Updater, NEW n \in 1..Initial, U!UpdateStock(k, n) PROVE StockInv'
  <2>1. CASE U!VersionMatches(k)
    <3>1. /\ item' = [stock |-> copy[k].stock - n, version |-> item.version + 1]
          /\ sold' = sold + n /\ copy' = [copy EXCEPT ![k].version = 0]
          /\ copy[k] = item
      BY <1>2, <2>1 DEF U!UpdateStock, U!VersionMatches, StockInv, CopiesKnown
    <3>2. Initial \in Int
      BY DEF U!UpdateParameters
    <3> QED BY <3>1, <3>2 DEF StockInv, CopiesKnown, U!UnitsAccounted
  <2>2. CASE ~U!VersionMatches(k)
    <3>1. UNCHANGED <<item, sold>> /\ copy' = [copy EXCEPT ![k].version = 0]
      BY <1>2, <2>2 DEF U!UpdateStock
    <3> QED BY <3>1 DEF StockInv, CopiesKnown, U!UnitsAccounted
  <2> QED BY <2>1, <2>2
<1> QED BY <1>1, <1>2 DEF U!StockNext

\* A Checkout charges first and books in a transaction, which it runs again only after
\* an error that says that nothing was committed.
LEMMA CheckoutKeeps ==
  ASSUME CheckoutInv, U!CheckoutNext
  PROVE  CheckoutInv'
<1> USE DEF CheckoutInv, CheckoutsKnown, U!OrdersCharged, U!Goes, U!database
<1>1. ASSUME NEW k \in Updater, NEW n \in 1..Initial, U!Checkout(k, n) PROVE CheckoutInv'
  BY <1>1 DEF U!Checkout
<1>2. ASSUME NEW k \in Updater, U!Try(k) \/ U!DeductInventory(k) \/ U!Confirmed(k)
      PROVE  CheckoutInv'
  BY <1>2 DEF U!Try, U!DeductInventory, U!Confirmed
<1>3. ASSUME NEW k \in Updater, U!CommitTx(k) PROVE CheckoutInv'
  BY <1>3 DEF U!CommitTx
<1>4. ASSUME NEW k \in Updater, U!Backoff(k) PROVE CheckoutInv'
  BY <1>4 DEF U!Backoff
<1>5. ASSUME NEW k \in Updater, NEW err \in {"deadlock", "lost", "permanent"}, U!TxFails(k, err)
      PROVE  CheckoutInv'
  BY <1>5 DEF U!TxFails, U!IsDeadlockError
<1> QED BY <1>1, <1>2, <1>3, <1>4, <1>5 DEF U!CheckoutNext

\* The entries of the ledger, and those of each session, come in pairs.
EntriesPaired ==
  Sum(ledger, Wallet) = 0 /\ \A k \in Updater : Sum(stagedLedger[k], Wallet) = 0

\* An entry each for two wallets, over entries that were zero.
LEMMA PairCancels ==
  ASSUME IsFiniteSet(Wallet), NEW v \in Wallet, NEW w \in Wallet, v # w,
         NEW f \in [Wallet -> Int], \A u \in Wallet : f[u] = IF u = v THEN -1 ELSE IF u = w THEN 1 ELSE 0
  PROVE  Sum(f, Wallet) = 0
<1> DEFINE n == Sum(f, Wallet)
           m == Sum(f, Wallet \ {v})
           l == Sum(f, (Wallet \ {v}) \ {w})
<1>1. n = f[v] + m
  BY SumRemoves
<1>2. m = f[w] + l
  BY SumRemoves
<1>3. l = 0
  BY SumOfZeros
<1>4. f[v] = -1 /\ f[w] = 1
  OBVIOUS
<1> HIDE DEF n, m, l
<1>5. n = 0
  BY <1>1, <1>2, <1>3, <1>4
<1> QED BY <1>5 DEF n

\* A session that has staged nothing has entries that come in pairs.
LEMMA ZeroIsPaired ==
  ASSUME IsFiniteSet(Wallet)
  PROVE  U!Zero \in [Wallet -> Int] /\ Sum(U!Zero, Wallet) = 0
<1>1. U!Zero \in [Wallet -> Int] /\ \A w \in Wallet : U!Zero[w] = 0
  BY DEF U!Zero
<1> QED BY <1>1, SumOfZeros

\* A transaction that commits adds its entries to the ledger's; a transfer makes two.
LEMMA EntriesStep ==
  ASSUME IsFiniteSet(Wallet), SessionsKnown, EntriesPaired, U!TxNext
  PROVE  EntriesPaired'
<1>1. /\ ledger \in [Wallet -> Int] /\ stagedLedger \in [Updater -> [Wallet -> Int]]
      /\ \A k \in Updater : stagedLedger[k] \in [Wallet -> Int] /\ Sum(stagedLedger[k], Wallet) = 0
      /\ Sum(ledger, Wallet) = 0
  BY DEF SessionsKnown, EntriesPaired
<1>2. ASSUME NEW k \in Updater, U!Commit(k) PROVE EntriesPaired'
  <2>1. /\ ledger' = [w \in Wallet |-> ledger[w] + stagedLedger[k][w]]
        /\ stagedLedger' = [stagedLedger EXCEPT ![k] = U!Zero]
    BY <1>2 DEF U!Commit, U!Forget
  <2>2. ledger' \in [Wallet -> Int] /\ \A w \in Wallet : ledger'[w] = ledger[w] + stagedLedger[k][w]
    BY <1>1, <2>1
  <2>3. Sum(ledger', Wallet) = Sum(ledger, Wallet) + Sum(stagedLedger[k], Wallet)
    BY <1>1, <2>2, SumAdds
  <2>4. Sum(ledger', Wallet) = 0
    BY <1>1, <2>3
  <2>5. \A d \in Updater : Sum(stagedLedger'[d], Wallet) = 0
    BY <1>1, <2>1, ZeroIsPaired
  <2> QED BY <2>4, <2>5 DEF EntriesPaired
<1>3. ASSUME NEW k \in Updater, U!Rollback(k) PROVE EntriesPaired'
  <2>1. ledger' = ledger /\ stagedLedger' = [stagedLedger EXCEPT ![k] = U!Zero]
    BY <1>3 DEF U!Rollback, U!Forget
  <2>2. \A d \in Updater : Sum(stagedLedger'[d], Wallet) = 0
    BY <1>1, <2>1, ZeroIsPaired
  <2> QED BY <1>1, <2>1, <2>2 DEF EntriesPaired
<1>4. ASSUME NEW k \in Updater, NEW v \in Wallet, NEW w \in Wallet, U!Transfer(k, v, w)
      PROVE  EntriesPaired'
  <2> DEFINE entries == stagedLedger[k]
  <2>1. /\ ledger' = ledger /\ v # w /\ entries = U!Zero
        /\ stagedLedger'[k] = [[entries EXCEPT ![v] = @ - 1] EXCEPT ![w] = @ + 1]
        /\ \A d \in Updater \ {k} : stagedLedger'[d] = stagedLedger[d]
    BY <1>1, <1>4 DEF U!Transfer
  <2> HIDE DEF entries
  <2>2. entries \in [Wallet -> Int] /\ \A u \in Wallet : entries[u] = 0
    BY <2>1 DEF U!Zero
  <2>3. /\ stagedLedger'[k] \in [Wallet -> Int]
        /\ \A u \in Wallet : stagedLedger'[k][u] = IF u = v THEN -1 ELSE IF u = w THEN 1 ELSE 0
    BY <2>1, <2>2
  <2>4. Sum(stagedLedger'[k], Wallet) = 0
    <3> DEFINE paired == stagedLedger'[k]
    <3>1. /\ paired \in [Wallet -> Int]
          /\ \A u \in Wallet : paired[u] = IF u = v THEN -1 ELSE IF u = w THEN 1 ELSE 0
      BY <2>3
    <3> HIDE DEF paired
    <3>2. Sum(paired, Wallet) = 0
      BY ONLY IsFiniteSet(Wallet), v \in Wallet, w \in Wallet, <2>1, <3>1, PairCancels
    <3> QED BY <3>2 DEF paired
  <2> QED BY <1>1, <2>1, <2>4 DEF EntriesPaired
<1>5. ASSUME NEW k \in Updater, U!Begin(k) \/ \E w \in Wallet : U!GetWallet(k, w)
      PROVE  EntriesPaired'
  BY <1>1, <1>5 DEF U!Begin, U!GetWallet, EntriesPaired
<1> QED BY <1>2, <1>3, <1>4, <1>5 DEF U!TxNext

\* The order of a Checkout that has not committed is not booked; one that may commit has
\* read how much there is unless another has committed since.
OrdersKnown ==
  /\ savedOrders \in SUBSET Updater /\ qty \in [Updater -> 0..Initial]
  /\ inventory \in 0..Initial /\ commitCount \in Nat
  /\ snapshot \in [Updater -> Nat \X Nat]
  /\ \A k \in Updater :
       checkoutStage[k] = "commit" =>
         /\ snapshot[k][1] <= commitCount /\ qty[k] <= snapshot[k][2]
         /\ snapshot[k][1] = commitCount => snapshot[k][2] = inventory

\* The units that were taken out are those of the orders.
OrdersCounted == inventory + Sum(qty, savedOrders) = Initial

\* A Checkout may commit only what it has read, and it was not read before another commit.
LEMMA OrdersStep ==
  ASSUME U!UpdateParameters, CheckoutsKnown, OrdersKnown, OrdersCounted, U!CheckoutNext
  PROVE  OrdersKnown' /\ OrdersCounted'
<1> USE DEF U!Goes, U!database
<1>0. /\ checkoutStage \in [Updater -> {"idle", "try", "deduct", "commit", "answered",
                                        "backoff", "ok", "failed"}]
      /\ \A k \in Updater : checkoutStage[k] \in {"idle", "try", "deduct", "commit", "backoff"} =>
           k \notin savedOrders
  BY DEF CheckoutsKnown
<1>p. Initial \in Nat /\ IsFiniteSet(Updater)
  BY DEF U!UpdateParameters, U!IsFiniteSet, IsFiniteSet
<1>1. ASSUME NEW k \in Updater, NEW n \in 1..Initial, U!Checkout(k, n)
      PROVE  OrdersKnown' /\ OrdersCounted'
  <2>1. /\ checkoutStage[k] = "idle" /\ qty' = [qty EXCEPT ![k] = n]
        /\ UNCHANGED <<snapshot, inventory, savedOrders, commitCount>>
        /\ checkoutStage'[k] # "commit"
        /\ \A d \in Updater \ {k} : checkoutStage'[d] = checkoutStage[d]
    BY <1>0, <1>p, <1>1 DEF U!Checkout
  <2>2. /\ savedOrders \in SUBSET Updater /\ qty \in [Updater -> Int] /\ qty' \in [Updater -> Int]
        /\ \A d \in savedOrders : qty'[d] = qty[d]
    BY <1>0, <1>p, <2>1 DEF OrdersKnown
  <2>3. Sum(qty', savedOrders) = Sum(qty, savedOrders)
    BY <1>0, <1>p, <2>2, SumAgrees
  <2>4. OrdersKnown'
    BY <1>0, <1>p, <2>1 DEF OrdersKnown
  <2> QED BY <2>1, <2>3, <2>4 DEF OrdersCounted
<1>2. ASSUME NEW k \in Updater, U!DeductInventory(k)
      PROVE  OrdersKnown' /\ OrdersCounted'
  <2>1. /\ UNCHANGED <<qty, inventory, savedOrders, commitCount>>
        /\ snapshot' = [snapshot EXCEPT ![k] = <<commitCount, inventory>>]
        /\ checkoutStage' = [checkoutStage EXCEPT ![k] = "commit"] /\ inventory >= qty[k]
    BY <1>2 DEF U!DeductInventory
  <2>2. OrdersKnown'
    BY <1>0, <1>p, <2>1 DEF OrdersKnown
  <2> QED BY <2>1, <2>2 DEF OrdersCounted
<1>3. ASSUME NEW k \in Updater, U!CommitTx(k)
      PROVE  OrdersKnown' /\ OrdersCounted'
  <2>1. /\ checkoutStage[k] = "commit" /\ snapshot[k][1] = commitCount
        /\ inventory' = snapshot[k][2] - qty[k] /\ savedOrders' = savedOrders \cup {k}
        /\ commitCount' = commitCount + 1
        /\ checkoutStage' = [checkoutStage EXCEPT ![k] = "answered"]
        /\ UNCHANGED <<qty, snapshot>>
    BY <1>3 DEF U!CommitTx, U!Serial
  <2>2. /\ snapshot[k][2] = inventory /\ qty[k] <= inventory /\ k \notin savedOrders
        /\ savedOrders \in SUBSET Updater /\ qty \in [Updater -> Int]
        /\ qty[k] \in 0..Initial /\ inventory \in 0..Initial
    BY <1>0, <1>p, <2>1 DEF OrdersKnown
  <2>3. Sum(qty, savedOrders') = qty[k] + Sum(qty, savedOrders)
    <3>1. savedOrders' \in SUBSET Updater /\ k \in savedOrders' /\ savedOrders' \ {k} = savedOrders
      BY <2>1, <2>2
    <3> QED BY <1>0, <1>p, <2>2, <3>1, SumRemoves
  <2>4. Sum(qty, savedOrders) \in Int
    BY <1>0, <1>p, <2>2, SumIsInt
  <2>5. OrdersCounted'
    <3>1. inventory' = inventory - qty[k] /\ qty' = qty
      BY <2>1, <2>2
    <3> QED BY <1>0, <1>p, <2>2, <2>3, <2>4, <3>1 DEF OrdersCounted
  <2>6. OrdersKnown'
    BY <1>0, <1>p, <2>1, <2>2 DEF OrdersKnown
  <2> QED BY <2>5, <2>6
<1>4. ASSUME NEW k \in Updater,
             \/ U!Try(k) \/ U!Confirmed(k) \/ U!Backoff(k)
             \/ \E err \in {"deadlock", "lost", "permanent"} : U!TxFails(k, err)
      PROVE  OrdersKnown' /\ OrdersCounted'
  <2>1. /\ UNCHANGED <<qty, snapshot, inventory, savedOrders, commitCount>>
        /\ checkoutStage'[k] # "commit"
        /\ \A d \in Updater \ {k} : checkoutStage'[d] = checkoutStage[d]
    BY <1>0, <1>4 DEF U!Try, U!Confirmed, U!Backoff, U!TxFails
  <2>2. OrdersKnown'
    BY <2>1 DEF OrdersKnown
  <2> QED BY <2>1, <2>2 DEF OrdersCounted
<1> QED BY <1>1, <1>2, <1>3, <1>4 DEF U!CheckoutNext

\* What the types need in addition: a transaction waits only to be tried again.
UpdatesTyped ==
  /\ open \subseteq Updater /\ commits \in 0..MaxTx
  /\ item \in [stock : 0..Initial, version : 1..(MaxSales + 1)]
  /\ attempt \in [Updater -> 0..MaxRetries]
  /\ \A k \in Updater : checkoutStage[k] = "backoff" => attempt[k] < MaxRetries

\* No step of a transaction touches the stock.
LEMMA TxKeepsStock ==
  ASSUME U!TxNext
  PROVE  UNCHANGED U!stockVars
<1>1. ASSUME NEW k \in Updater, U!Begin(k) PROVE UNCHANGED U!stockVars
  BY <1>1 DEF U!Begin
<1>2. ASSUME NEW k \in Updater, U!Commit(k) PROVE UNCHANGED U!stockVars
  BY <1>2 DEF U!Commit
<1>3. ASSUME NEW k \in Updater, U!Rollback(k) PROVE UNCHANGED U!stockVars
  BY <1>3 DEF U!Rollback
<1>4. ASSUME NEW k \in Updater, NEW w \in Wallet, U!GetWallet(k, w) PROVE UNCHANGED U!stockVars
  BY <1>4 DEF U!GetWallet
<1>5. ASSUME NEW k \in Updater, NEW w \in Wallet, NEW v \in Wallet, U!Transfer(k, w, v)
      PROVE  UNCHANGED U!stockVars
  BY <1>5 DEF U!Transfer
<1> QED BY <1>1, <1>2, <1>3, <1>4, <1>5 DEF U!TxNext

\* Sessions begin and end.
LEMMA TypedByTransactions ==
  ASSUME U!UpdateParameters, SessionsKnown, UpdatesTyped, U!TxNext, UNCHANGED U!checkoutVars
  PROVE  UpdatesTyped'
<1>1. UNCHANGED <<item, attempt, checkoutStage>>
  <2>1. UNCHANGED U!stockVars
    BY TxKeepsStock
  <2>2. UNCHANGED <<attempt, checkoutStage>>
    BY DEF U!checkoutVars
  <2> QED BY <2>1, <2>2 DEF U!stockVars
<1>p. MaxTx \in Nat
  BY DEF U!UpdateParameters
<1> DEFINE Changed == open' \subseteq Updater /\ commits' \in 0..MaxTx
<1>2. ASSUME NEW k \in Updater, U!Commit(k) PROVE Changed
  <2>1. open' = open \ {k} /\ commits < MaxTx /\ commits' = commits + 1
    BY <1>2 DEF U!Commit, U!Forget
  <2> QED BY <1>p, <2>1 DEF UpdatesTyped
<1>3. ASSUME NEW k \in Updater, U!Rollback(k) PROVE Changed
  BY <1>3 DEF U!Rollback, U!Forget, UpdatesTyped
<1>4. ASSUME NEW k \in Updater,
             U!Begin(k) \/ \E w \in Wallet : U!GetWallet(k, w) \/ \E v \in Wallet : U!Transfer(k, w, v)
      PROVE  Changed
  <2>1. open' \subseteq open \cup {k} /\ UNCHANGED commits
    BY <1>4 DEF U!Begin, U!GetWallet, U!Transfer
  <2> QED BY <2>1 DEF UpdatesTyped
<1>5. Changed
  BY <1>2, <1>3, <1>4 DEF U!TxNext
<1> QED BY <1>1, <1>5 DEF UpdatesTyped

\* A version counts the sales, and a sale leaves what it does not take.
LEMMA TypedByStock ==
  ASSUME U!UpdateParameters, CopiesKnown, UpdatesTyped, U!StockNext, UNCHANGED U!checkoutVars
  PROVE  UpdatesTyped'
<1>1. UNCHANGED <<open, commits, attempt, checkoutStage>>
  BY DEF U!StockNext, U!Get, U!UpdateStock, U!txVars, U!checkoutVars
<1>2. item' \in [stock : 0..Initial, version : 1..(MaxSales + 1)]
  <2>1. CASE item' = item
    BY <2>1 DEF UpdatesTyped
  <2>2. ASSUME NEW k \in Updater, NEW n \in 1..Initial, U!UpdateStock(k, n), U!VersionMatches(k)
        PROVE  item' \in [stock : 0..Initial, version : 1..(MaxSales + 1)]
    <3>1. /\ item' = [stock |-> item.stock - n, version |-> item.version + 1]
          /\ n <= item.stock /\ item.version <= MaxSales
      BY <2>2 DEF U!UpdateStock, U!VersionMatches, CopiesKnown
    <3>2. MaxSales \in Nat /\ Initial \in Nat
      BY DEF U!UpdateParameters
    <3> QED BY <3>1, <3>2 DEF UpdatesTyped
  <2> QED BY <2>1, <2>2 DEF U!StockNext, U!Get, U!UpdateStock
<1> QED BY <1>1, <1>2 DEF UpdatesTyped, U!Staged

\* A deadlock is retried while retries are left.
LEMMA TypedByCheckouts ==
  ASSUME U!UpdateParameters, CheckoutsKnown, UpdatesTyped, U!CheckoutNext,
         UNCHANGED <<U!txVars, U!stockVars>>
  PROVE  UpdatesTyped'
<1>1. UNCHANGED <<open, commits, item>>
  BY DEF U!txVars, U!stockVars
<1>2. /\ MaxRetries \in Nat \ {0} /\ attempt \in [Updater -> 0..MaxRetries]
      /\ \A k \in Updater : checkoutStage[k] = "backoff" => attempt[k] < MaxRetries
      /\ DOMAIN checkoutStage = Updater
  BY DEF U!UpdateParameters, UpdatesTyped, CheckoutsKnown
<1> DEFINE Typed == /\ attempt' \in [Updater -> 0..MaxRetries]
                    /\ \A k \in Updater : checkoutStage'[k] = "backoff" => attempt'[k] < MaxRetries
<1> USE DEF U!Goes
<1>3. ASSUME NEW k \in Updater, NEW n \in 1..Initial, U!Checkout(k, n) PROVE Typed
  BY <1>2, <1>3 DEF U!Checkout
<1>4. ASSUME NEW k \in Updater, U!Try(k) \/ U!DeductInventory(k) \/ U!CommitTx(k) \/ U!Confirmed(k)
      PROVE  Typed
  BY <1>2, <1>4 DEF U!Try, U!DeductInventory, U!CommitTx, U!Confirmed
<1>5. ASSUME NEW k \in Updater, U!Backoff(k) PROVE Typed
  BY <1>2, <1>5 DEF U!Backoff
<1>6. ASSUME NEW k \in Updater, NEW err \in {"deadlock", "lost", "permanent"}, U!TxFails(k, err)
      PROVE  Typed
  BY <1>2, <1>6 DEF U!TxFails
<1>7. Typed
  BY <1>3, <1>4, <1>5, <1>6 DEF U!CheckoutNext
<1> QED BY <1>1, <1>7 DEF UpdatesTyped, U!Staged

\* The whole invariant of the three.
UpdatesInv ==
  /\ TransactionsInv /\ StockInv /\ CheckoutInv
  /\ EntriesPaired /\ OrdersKnown /\ OrdersCounted /\ UpdatesTyped

\* At first nothing is staged, sold or ordered.
LEMMA UpdatesInit ==
  ASSUME U!UpdateParameters, U!Init
  PROVE  UpdatesInv
<1>p. /\ Initial \in Nat /\ MaxTx \in Nat /\ MaxSales \in Nat /\ MaxRetries \in Nat
      /\ IsFiniteSet(Wallet) /\ IsFiniteSet(Updater)
  BY DEF U!UpdateParameters, U!IsFiniteSet, IsFiniteSet
<1> USE DEF U!Init
<1>1. TransactionsInv
  <2>1. \A k \in Updater : U!Staged(k) = {}
    BY DEF U!Nothing, U!Staged
  <2> QED BY <2>1 DEF TransactionsInv, SessionsKnown, U!LedgersAgree, U!Zero, U!Nothing,
                      U!UpdateParameters
<1>2. StockInv
  BY <1>p DEF StockInv, CopiesKnown, U!UnitsAccounted
<1>3. CheckoutInv
  BY DEF CheckoutInv, CheckoutsKnown, U!OrdersCharged
<1>4. EntriesPaired
  BY <1>p, ZeroIsPaired DEF EntriesPaired
<1>5. OrdersKnown /\ savedOrders = {}
  BY <1>p DEF OrdersKnown
<1>6. OrdersCounted
  <2>1. qty \in [Updater -> Int]
    BY <1>p
  <2>2. Sum(qty, savedOrders) = 0
    BY <1>p, <1>5, <2>1, SumOfZeros
  <2> QED BY <1>p, <2>2 DEF OrdersCounted
<1>7. UpdatesTyped
  BY <1>p DEF UpdatesTyped
<1> QED BY <1>1, <1>2, <1>3, <1>4, <1>5, <1>6, <1>7 DEF UpdatesInv

\* A step is one of a transaction, of the stock or of a Checkout.
LEMMA UpdatesStep ==
  ASSUME U!UpdateParameters, UpdatesInv, [U!Next]_(U!vars)
  PROVE  UpdatesInv'
<1>p. IsFiniteSet(Wallet)
  BY DEF U!UpdateParameters, U!IsFiniteSet, IsFiniteSet
<1>0. /\ TransactionsInv /\ StockInv /\ CheckoutInv /\ SessionsKnown /\ CopiesKnown /\ CheckoutsKnown
      /\ EntriesPaired /\ OrdersKnown /\ OrdersCounted /\ UpdatesTyped
  BY DEF UpdatesInv, TransactionsInv, StockInv, CheckoutInv
<1>1. UNCHANGED U!txVars => TransactionsInv' /\ EntriesPaired'
  BY <1>0 DEF U!txVars, TransactionsInv, SessionsKnown, U!LedgersAgree, U!Staged, EntriesPaired
<1>2. UNCHANGED U!stockVars => StockInv'
  BY <1>0 DEF U!stockVars, StockInv, CopiesKnown, U!UnitsAccounted
<1>3. UNCHANGED U!checkoutVars => CheckoutInv' /\ OrdersKnown' /\ OrdersCounted'
  <2> SUFFICES ASSUME UNCHANGED U!checkoutVars PROVE CheckoutInv' /\ OrdersKnown' /\ OrdersCounted'
    OBVIOUS
  <2>1. CheckoutInv'
    BY <1>0 DEF U!checkoutVars, CheckoutInv, CheckoutsKnown, U!OrdersCharged
  <2>2. OrdersKnown' /\ OrdersCounted'
    BY <1>0 DEF U!checkoutVars, OrdersKnown, OrdersCounted
  <2> QED BY <2>1, <2>2
<1>4. CASE U!TxNext /\ UNCHANGED U!checkoutVars
  <2>1. UNCHANGED U!stockVars
    BY <1>4, TxKeepsStock
  <2>2. TransactionsInv'
    <3>1. PICK k \in Updater :
            \/ U!Commit(k)
            \/ \/ U!Begin(k) \/ U!Rollback(k)
               \/ \E w \in Wallet : U!GetWallet(k, w) \/ \E v \in Wallet : U!Transfer(k, w, v)
      BY <1>4 DEF U!TxNext
    <3>p. U!UpdateParameters /\ TransactionsInv
      BY <1>0
    <3>2. CASE U!Commit(k)
      BY ONLY <3>p, <3>2, CommitKeeps
    <3>3. CASE \/ U!Begin(k) \/ U!Rollback(k)
               \/ \E w \in Wallet : U!GetWallet(k, w) \/ \E v \in Wallet : U!Transfer(k, w, v)
      BY ONLY <3>p, <3>3, SessionKeeps
    <3> QED BY <3>1, <3>2, <3>3
  <2>3. EntriesPaired' /\ UpdatesTyped'
    BY <1>p, <1>0, <1>4, EntriesStep, TypedByTransactions
  <2> QED BY <1>2, <1>3, <1>4, <2>1, <2>2, <2>3 DEF UpdatesInv
<1>5. CASE U!StockNext /\ UNCHANGED U!checkoutVars
  <2>1. UNCHANGED U!txVars
    BY <1>5 DEF U!StockNext, U!Get, U!UpdateStock
  <2>2. StockInv' /\ UpdatesTyped'
    BY <1>0, <1>5, StockKeeps, TypedByStock
  <2> QED BY <1>1, <1>3, <1>5, <2>1, <2>2 DEF UpdatesInv
<1>6. CASE U!CheckoutNext /\ UNCHANGED <<U!txVars, U!stockVars>>
  <2>1. CheckoutInv' /\ OrdersKnown' /\ OrdersCounted' /\ UpdatesTyped'
    BY <1>0, <1>6, CheckoutKeeps, OrdersStep, TypedByCheckouts
  <2> QED BY <1>1, <1>2, <1>6, <2>1 DEF UpdatesInv
<1>7. CASE UNCHANGED U!vars
  <2>1. UNCHANGED U!txVars /\ UNCHANGED U!stockVars /\ UNCHANGED U!checkoutVars
    BY <1>7 DEF U!vars
  <2>2. UpdatesTyped'
    BY <1>0, <2>1 DEF UpdatesTyped, U!Staged, U!txVars, U!stockVars, U!checkoutVars
  <2> QED BY <1>1, <1>2, <1>3, <2>1, <2>2 DEF UpdatesInv
<1> QED BY <1>4, <1>5, <1>6, <1>7 DEF U!Next

\* What is known of the entries and of the orders adds up to the properties.
LEMMA UpdatesImply ==
  ASSUME U!UpdateParameters, UpdatesInv
  PROVE  U!TypeOK /\ U!UpdatesKept /\ U!CheckoutAtomic
<1>0. /\ TransactionsInv /\ StockInv /\ CheckoutInv /\ SessionsKnown /\ CopiesKnown /\ CheckoutsKnown
      /\ EntriesPaired /\ OrdersKnown /\ OrdersCounted /\ UpdatesTyped
  BY DEF UpdatesInv, TransactionsInv, StockInv, CheckoutInv
<1>1. U!TypeOK
  <2>1. Initial \in Nat
    BY DEF U!UpdateParameters
  <2>2. \A k \in Updater : copy[k].version \in 0..item.version
    BY <1>0 DEF CopiesKnown
  <2>3. sold \in 0..Initial
    BY <1>0, <2>1 DEF CopiesKnown, StockInv, U!UnitsAccounted, UpdatesTyped
  <2> QED BY <1>0, <2>2, <2>3 DEF U!TypeOK, SessionsKnown, CheckoutsKnown, OrdersKnown, UpdatesTyped
<1>2. U!UpdatesKept
  <2>1. Sum(ledger, Wallet) = U!FoldFunction(LAMBDA x, y : x + y, 0, ledger)
    BY <1>0, Zenon DEF SessionsKnown, Sum, U!FoldFunction
  <2> QED BY <1>0, <2>1 DEF U!UpdatesKept, TransactionsInv, StockInv, EntriesPaired
<1>3. U!CheckoutAtomic
  BY <1>0 DEF U!CheckoutAtomic, CheckoutInv, OrdersCounted, Sum
<1> QED BY <1>1, <1>2, <1>3

\* For any finite sets of clients and wallets, units and retries: every commit of the unit of
\* work adds entries that sum to zero, balances and ledger differ by exactly what
\* commits have overwritten unread, no unit of stock is lost; Checkout's orders are what the inventory has given, and none
\* is charged twice, or booked without the caller's knowing unless its commit's answer was lost.
THEOREM UpdatesKeptHolds ==
  ASSUME U!UpdateParameters
  PROVE  U!Spec => [](U!TypeOK /\ U!UpdatesKept /\ U!CheckoutAtomic)
<1>1. U!Init => UpdatesInv
  BY UpdatesInit
<1>2. UpdatesInv /\ [U!Next]_(U!vars) => UpdatesInv'
  BY UpdatesStep
<1>3. UpdatesInv => U!TypeOK /\ U!UpdatesKept /\ U!CheckoutAtomic
  BY UpdatesImply
<1> QED BY <1>1, <1>2, <1>3, PTL DEF U!Spec

-----------------------------------------------------------------------------
(* The types. *)

\* The locks' tokens and grants keep their bounds.
LEMMA LockTypes == LockSpec => []LockTypeOK
<1>1. LockInit => LockTypeOK
  BY LockAssumption DEF LockInit, LockTypeOK
<1>2. LockInv /\ LockTypeOK /\ [LockNext]_lockVars => LockTypeOK'
  <2> SUFFICES ASSUME LockInv, LockTypeOK, [LockNext]_lockVars PROVE LockTypeOK'
    OBVIOUS
  <2> USE LockAssumption DEF LockTypeOK, Lease
  <2>0. /\ locks \in [Resource -> SUBSET Lease] /\ lease \in [Client -> SUBSET Lease]
        /\ fencingToken = grants
    BY DEF LockInv, LockTyped, LocksWellFormed
  <2>1. ASSUME NEW c \in Client, NEW r \in Resource, Acquire(c, r) PROVE LockTypeOK'
    <3> DEFINE l == [resource |-> r, owner |-> c, token |-> fencingToken + 1, left |-> TTL,
                     grant |-> grants + 1]
    <3>1. grants + 1 \in 1..MaxGrants /\ fencingToken + 1 \in 1..MaxGrants
      BY <2>0, <2>1 DEF Acquire
    <3>2. l \in Lease
      BY <3>1
    <3>3. /\ locks' = [locks EXCEPT ![r] = {l}] /\ lease' = [lease EXCEPT ![c] = {l}]
          /\ fencingToken' = fencingToken + 1 /\ grants' = grants + 1 /\ stored' = stored
      BY <2>1 DEF Acquire, NextToken
    <3> HIDE DEF l
    <3> QED BY <2>0, <3>1, <3>2, <3>3
  <2>2. ASSUME NEW c \in Client, Release(c) \/ Crash(c) PROVE LockTypeOK'
    BY <2>0, <2>2 DEF Release, Crash
  <2>3. ASSUME NEW c \in Client, Write(c) PROVE LockTypeOK'
    <3>1. PICK l \in lease[c] :
            stored' = [stored EXCEPT ![l.resource] = [token |-> l.token, grant |-> l.grant]]
      BY <2>3 DEF Write
    <3>2. l \in Lease
      BY <2>0
    <3> QED BY <2>0, <2>3, <3>1, <3>2 DEF Write
  <2>4. CASE LockTick
    <3>1. ASSUME NEW l \in Lease PROVE Older(l) \in Lease
      <4>1. (IF l.left = 0 THEN 0 ELSE l.left - 1) \in 0..TTL
        OBVIOUS
      <4> QED BY <4>1 DEF Older
    <3>2. /\ locks' = [r \in Resource |-> {Older(l) : l \in locks[r]}]
          /\ lease' = [c \in Client |-> {Older(l) : l \in lease[c]}]
          /\ UNCHANGED <<fencingToken, stored, grants>>
      BY <2>4 DEF LockTick, Aged, Older
    <3> HIDE DEF Lease, LockTypeOK
    <3>3. locks' \in [Resource -> SUBSET Lease] /\ lease' \in [Client -> SUBSET Lease]
      BY <2>0, <3>1, <3>2
    <3> QED BY <3>2, <3>3 DEF LockTypeOK
  <2>5. CASE UNCHANGED lockVars
    BY <2>5 DEF lockVars
  <2> QED BY <2>1, <2>2, <2>3, <2>4, <2>5 DEF LockNext
<1> QED BY <1>1, <1>2, LockInvariant, PTL DEF LockSpec

\* What is left of a lease keeps its bounds, and the candidates are known ones.
LEMMA ElectorTypes ==
  ASSUME ElectorParameters
  PROVE  ElectorInit /\ [][ElectorNext]_electorVars => []ElectorTypeOK
<1> USE DEF ElectorParameters, ElectorTypeOK
<1>1. ElectorInit => ElectorTypeOK
  BY DEF ElectorInit
<1>2. ElectorTypeOK /\ [ElectorNext]_electorVars => ElectorTypeOK'
  BY DEF ElectorNext, electorVars, Join, TryAcquireOrRenew, Refused, Resign, CandidateCrash, ElectorTick
<1> QED BY <1>1, <1>2, PTL

\* Only jobs that were enqueued run.
LEMMA VisibilityTypes ==
  ASSUME VisibilityParameters
  PROVE  QueueInit /\ [][QueueNext]_queueVars => []QueueTypeOK
<1> USE DEF VisibilityParameters, QueueTypeOK
<1>1. QueueInit => QueueTypeOK /\ VisibilityInv
  BY DEF QueueInit, VisibilityInv, OneLiveReceipt
<1>2. VisibilityInv /\ QueueTypeOK /\ [QueueNext]_queueVars => QueueTypeOK' /\ VisibilityInv'
  <2> SUFFICES ASSUME VisibilityInv, QueueTypeOK, [QueueNext]_queueVars PROVE QueueTypeOK'
    BY VisibilityStep
  <2>1. ASSUME NEW j \in Job, Enqueue(j) \/ \E w \in Worker : Dequeue(w, j) PROVE QueueTypeOK'
    BY <2>1 DEF Enqueue, Dequeue, Kept
  <2>2. ASSUME NEW w \in Worker, Heartbeat(w) \/ Ack(w) \/ Abandon(w) PROVE QueueTypeOK'
    BY <2>2 DEF Heartbeat, Extended, Ack, Abandon, Drop
  <2>3. ASSUME NEW w \in Worker, Complete(w) PROVE QueueTypeOK'
    BY <2>3 DEF Complete, VisibilityInv
  <2>4. CASE QueueTick
    BY <2>4 DEF QueueTick
  <2>5. CASE UNCHANGED queueVars
    BY <2>5 DEF queueVars
  <2> QED BY <2>1, <2>2, <2>3, <2>4, <2>5 DEF QueueNext
<1> QED BY <1>1, <1>2, PTL

\* The saga completes its own steps only.
SagaTyped ==
  /\ phase \in {"new", "forward", "backward", "succeeded", "compensated", "inconsistent"}
  /\ {effects, failures} \subseteq SUBSET (1..Steps)

\* With the steps in order this types the saga.
LEMMA SagaTypes ==
  ASSUME R!SagaParameters
  PROVE  R!SagaInit /\ [][R!SagaNext]_(R!sagaVars) => []R!SagaTypeOK
<1> USE DEF R!SagaParameters, SagaTyped
<1>1. R!SagaInit => SagaInv /\ SagaTyped
  BY DEF R!SagaInit, SagaInv, StepsInOrder, EffectsKnown, R!Outcome
<1>2. SagaInv /\ SagaTyped /\ [R!SagaNext]_(R!sagaVars) => SagaInv' /\ SagaTyped'
  <2> SUFFICES ASSUME SagaInv, SagaTyped, [R!SagaNext]_(R!sagaVars) PROVE SagaInv' /\ SagaTyped'
    OBVIOUS
  <2>1. CASE UNCHANGED R!sagaVars
    BY <2>1 DEF R!sagaVars, SagaInv, StepsInOrder, EffectsKnown, R!Outcome
  <2>2. ASSUME R!Compensate PROVE SagaTyped'
    <3>1. R!LatestFirst(completedSteps) \in 1..Steps
      BY <2>2 DEF R!Compensate, R!LatestFirst, SagaInv, StepsInOrder
    <3> QED BY <2>2, <3>1 DEF R!Compensate
  <2>3. ASSUME R!ActionSucceeds PROVE SagaTyped'
    BY <2>3 DEF R!ActionSucceeds, SagaInv, StepsInOrder
  <2>4. ASSUME R!Execute \/ R!ActionFails \/ R!AllDone \/ R!Compensated PROVE SagaTyped'
    BY <2>4 DEF R!Execute, R!ActionFails, R!AllDone, R!Compensated
  <2> QED BY <2>1, <2>2, <2>3, <2>4, SagaStep DEF R!SagaNext
<1>3. SagaInv /\ SagaTyped => R!SagaTypeOK
  <2> SUFFICES ASSUME SagaInv PROVE completedSteps \in Seq(1..Steps)
    BY DEF R!SagaTypeOK
  <2>1. /\ completedSteps \in [1..Len(completedSteps) -> Nat] /\ Len(completedSteps) \in Nat
        /\ \A i \in 1..Len(completedSteps) : completedSteps[i] \in 1..Steps
    BY DEF SagaInv, StepsInOrder
  <2>2. completedSteps \in [1..Len(completedSteps) -> 1..Steps]
    BY <2>1
  <2> QED BY <2>1, <2>2, SeqDef
<1> QED BY <1>1, <1>2, <1>3, PTL

\* The stores and the snapshots have known records only.
RecordsTyped ==
  /\ R!RecordTypeOK
  /\ DOMAIN rpc = Runner /\ DOMAIN todo = Runner
  /\ DOMAIN sourceRecords = Runner /\ DOMAIN targetRecords = Runner

\* A repair writes what a snapshot has, and a deletion adds nothing.
LEMMA RecordTypes ==
  ASSUME R!ReconciliationParameters
  PROVE  R!RecordInit /\ [][R!RecordNext]_(R!recordVars) => []R!RecordTypeOK
<1> USE DEF R!ReconciliationParameters, RecordsTyped, R!RecordTypeOK, R!Empty, R!stores, R!snapshots
<1>1. R!RecordInit => RecordsTyped
  BY DEF R!RecordInit, R!Drifted
<1>2. RecordsTyped /\ [R!RecordNext]_(R!recordVars) => RecordsTyped'
  <2> SUFFICES ASSUME RecordsTyped, [R!RecordNext]_(R!recordVars) PROVE RecordsTyped'
    OBVIOUS
  <2>1. CASE R!WriteSource
    <3>1. DOMAIN source' \subseteq Id
      BY <2>1 DEF R!WriteSource, R!Upsert, R!Delete
    <3> QED BY <2>1, <3>1 DEF R!WriteSource
  <2>2. ASSUME NEW e \in Runner, R!ReadSource(e) \/ R!ReadTarget(e) PROVE RecordsTyped'
    BY <2>2 DEF R!ReadSource, R!ReadTarget
  <2>3. ASSUME NEW e \in Runner, R!ReadFails(e) \/ R!RepairsDone(e) \/ R!Return(e)
        PROVE  RecordsTyped'
    BY <2>3 DEF R!ReadFails, R!RepairsDone, R!Return
  <2>4. ASSUME NEW repaired, DOMAIN repaired \subseteq Id, R!Applied(repaired)
        PROVE  DOMAIN target' \subseteq Id /\ errors' \in 0..MaxErrors
    BY <2>4 DEF R!Applied
  <2>5. ASSUME NEW e \in Runner, R!Repair(e) \/ R!DeleteOrphan(e) PROVE RecordsTyped'
    <3>1. DOMAIN target' \subseteq Id /\ errors' \in 0..MaxErrors
      <4>1. PICK i \in todo[e] :
              \/ R!Applied(R!Upsert(target, i, sourceRecords[e][i]))
              \/ R!Applied(R!Delete(target, i))
              \/ UNCHANGED <<target, errors>>
        BY <2>5 DEF R!Repair, R!DeleteOrphan
      <4>2. /\ DOMAIN R!Upsert(target, i, sourceRecords[e][i]) \subseteq Id
            /\ DOMAIN R!Delete(target, i) \subseteq Id
        BY DEF R!Upsert, R!Delete
      <4>3. CASE UNCHANGED <<target, errors>>
        BY <4>3
      <4> QED BY ONLY <2>4, <4>1, <4>2, <4>3
    <3>2. /\ UNCHANGED <<source, writes, rpc, sourceRecords, targetRecords>>
          /\ \E i \in todo[e] : todo' = [todo EXCEPT ![e] = @ \ {i}]
      BY <2>5 DEF R!Repair, R!DeleteOrphan
    <3> QED BY <3>1, <3>2
  <2>6. CASE UNCHANGED R!recordVars
    BY <2>6 DEF R!recordVars
  <2> QED BY <2>1, <2>2, <2>3, <2>5, <2>6 DEF R!RecordNext, R!ReconcileStep
<1>3. RecordsTyped => R!RecordTypeOK
  OBVIOUS
<1> QED BY <1>1, <1>2, <1>3, PTL

-----------------------------------------------------------------------------
(* The suite. *)

\* A step of the suite is a step of a component, or leaves it alone.
LEMMA SuiteSteps ==
  ASSUME [SuiteNext]_suiteVars
  PROVE  /\ [LockNext]_lockVars /\ [ElectorNext]_electorVars /\ [QueueNext]_queueVars /\ [R!SagaNext]_(R!sagaVars)
         /\ [P!Next]_(P!vars) /\ [U!Next]_(U!vars) /\ [D!Next]_(D!vars) /\ [T!Next]_(T!vars)
         /\ [R!RecordNext]_(R!recordVars)
<1> USE DEF SuiteNext, Rests, suiteVars
<1>1. [LockNext]_lockVars
  BY DEF lockVars
<1>2. [ElectorNext]_electorVars
  BY DEF electorVars
<1>3. [QueueNext]_queueVars
  BY DEF queueVars
<1>4. [R!SagaNext]_(R!sagaVars)
  BY DEF sagaVars, R!sagaVars
<1>5. [P!Next]_(P!vars)
  BY DEF paymentVars, P!vars
<1>6. [U!Next]_(U!vars)
  BY DEF updateVars, checkoutVars, U!vars, U!txVars, U!stockVars, U!checkoutVars, U!Next
<1>7. [D!Next]_(D!vars)
  BY DEF rolloutVars, D!vars, D!routing, D!pods, D!router
<1>8. [T!Next]_(T!vars)
  BY DEF tokenVars, T!vars
<1>9. [R!RecordNext]_(R!recordVars)
  BY DEF recordVars, R!recordVars
<1> QED BY <1>1, <1>2, <1>3, <1>4, <1>5, <1>6, <1>7, <1>8, <1>9

\* For any values of the constants: no lease, receipt, session, record or weight leaves its
\* range, and no charge, version or stock does.
THEOREM SuiteKeepsTypes == SuiteSpec => []SuiteTypeOK
<1>1. SuiteSpec => /\ LockSpec /\ (ElectorInit /\ [][ElectorNext]_electorVars)
                   /\ (QueueInit /\ [][QueueNext]_queueVars)
                   /\ (R!SagaInit /\ [][R!SagaNext]_(R!sagaVars)) /\ P!Spec
  BY SuiteSteps, PTL DEF SuiteSpec, SuiteOnly, SuiteInit, LockSpec, P!Spec
<1>2. SuiteSpec => /\ U!Spec /\ (R!RecordInit /\ [][R!RecordNext]_(R!recordVars))
                   /\ (D!Init /\ [][D!Next]_(D!vars))
                   /\ T!Spec
  BY SuiteSteps, PTL DEF SuiteSpec, SuiteOnly, SuiteInit, U!Spec, T!Spec
<1>3. /\ LockSpec => []LockTypeOK
      /\ ElectorInit /\ [][ElectorNext]_electorVars => []ElectorTypeOK
      /\ QueueInit /\ [][QueueNext]_queueVars => []QueueTypeOK
      /\ R!SagaInit /\ [][R!SagaNext]_(R!sagaVars) => []R!SagaTypeOK
      /\ P!Spec => []P!TypeOK
  BY LockTypes, ElectorTypes, VisibilityTypes, SagaTypes, P!TypesHold, Parameters DEF Parameters
<1>4. /\ U!Spec => [](U!TypeOK /\ U!UpdatesKept /\ U!CheckoutAtomic)
      /\ R!RecordInit /\ [][R!RecordNext]_(R!recordVars) => []R!RecordTypeOK
      /\ D!Init /\ [][D!Next]_(D!vars) => [](D!TypeOK /\ D!ZeroDowntime)
      /\ T!Spec => [](T!TypeOK /\ T!RotationSound)
  BY UpdatesKeptHolds, RecordTypes, ZeroDowntimeHolds, T!RotationSoundHolds, Parameters
     DEF Parameters
<1> QED BY <1>1, <1>2, <1>3, <1>4, PTL DEF SuiteTypeOK

\* For any clients, candidates, workers, leases and timeouts: whoever has time left on a
\* lock, as the leader or with a job holds it alone.
THEOREM OneHolderPerLeaseHolds == SuiteSpec => []OneHolderPerLease
<1>1. SuiteSpec => /\ LockSpec /\ (ElectorInit /\ [][ElectorNext]_electorVars)
                   /\ (QueueInit /\ [][QueueNext]_queueVars)
  BY SuiteSteps, PTL DEF SuiteSpec, SuiteOnly, SuiteInit, LockSpec
<1>2. OneLiveLease /\ OneBeliever /\ OneLiveReceipt => OneHolderPerLease
  BY DEF OneHolderPerLease
<1> QED BY <1>1, <1>2, OneLiveLeaseHolds, OneBelieverHolds, OneLiveReceiptHolds, Parameters, PTL
        DEF Parameters

\* The storage refuses late writes in the suite, too.
THEOREM SuiteFencesWrites == SuiteSpec => FencedWrites
  BY SuiteSteps, FencedWritesHolds, PTL DEF SuiteSpec, SuiteOnly, SuiteInit, LockSpec

\* The saga is all or nothing, of what can be undone, and undoes it in reverse.
THEOREM SuiteSagaAtomic == SuiteSpec => SagaAtomic
  BY SuiteSteps, SagaAtomicHolds, Parameters, PTL
     DEF SuiteSpec, SuiteOnly, SuiteInit, Parameters, SagaAtomic

\* Payments whose answers arrive are made once under their key.
THEOREM SuitePaysOnce ==
  ASSUME P!AnswersArrive
  PROVE  SuiteSpec => PaidOnce
  BY SuiteSteps, P!PaidOnceHolds, PTL DEF SuiteSpec, SuiteOnly, SuiteInit, P!Spec, PaidOnce

\* Units move and are sold without loss, and a Checkout is charged and booked once.
THEOREM SuiteKeepsUpdates == SuiteSpec => []UpdatesKept
  BY SuiteSteps, UpdatesKeptHolds, Parameters, PTL
     DEF SuiteSpec, SuiteOnly, SuiteInit, U!Spec, Parameters, UpdatesKept

\* Requests find a pod that serves, through canaries, cutovers and restarts.
THEOREM SuiteHasNoDowntime == SuiteSpec => []ZeroDowntime
  BY SuiteSteps, ZeroDowntimeHolds, Parameters, PTL
     DEF SuiteSpec, SuiteOnly, SuiteInit, Parameters, ZeroDowntime

\* A refresh token that is presented again revokes its family, and nothing else does.
THEOREM SuiteRotatesSoundly == SuiteSpec => []RotationSound
  BY SuiteSteps, T!RotationSoundHolds, Parameters, PTL
     DEF SuiteSpec, SuiteOnly, SuiteInit, T!Spec, Parameters, RotationSound

=============================================================================
