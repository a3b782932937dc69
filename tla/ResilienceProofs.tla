--------------------------- MODULE ResilienceProofs ---------------------------
(***************************************************************************)
(* Proofs about token bucket, breaker, pool, shedders, bulkheads and the   *)
(* chain of middlewares, for every value of the constants.  A section per  *)
(* component has its inductive invariant and what follows from it; the     *)
(* last one carries the results over to the suite, whose behaviours        *)
(* exercise one component and leave the others alone.                      *)
(***************************************************************************)
EXTENDS MCResilience, FiniteSetTheorems, SequenceTheorems, TLAPS

-----------------------------------------------------------------------------
(* The token bucket. *)

\* Time credited in one go is worth what it is worth tick by tick.
LEMMA CappedTwice ==
  ASSUME TokenBucketParameters, NEW m \in Nat, NEW n \in Nat
  PROVE  /\ Capped(Capped(m) + n) = Capped(m + n)
         /\ Capped(m) \in 0..Capacity
  BY DEF TokenBucketParameters, Capped

\* Without time to credit a level within the capacity stays.
LEMMA CappedWithin ==
  ASSUME TokenBucketParameters, NEW t \in 0..Capacity
  PROVE  Capped(t + Rate * 0) = t
<1>1. Rate * 0 = 0
  BY DEF TokenBucketParameters
<1>2. t \in Int /\ t + 0 = t /\ ~(t > Capacity)
  BY DEF TokenBucketParameters
<1> QED
  BY <1>1, <1>2 DEF Capped

\* The credit of the time since the last call is a level of the bucket.
LEMMA ReplenishedType ==
  ASSUME TokenBucketParameters, TypeOK
  PROVE  Rate * idle \in Nat /\ Replenished \in 0..Capacity
<1>1. Rate * idle \in Nat
  BY DEF TokenBucketParameters, TypeOK
<1>2. tokens + Rate * idle \in Nat
  BY <1>1 DEF TokenBucketParameters, TypeOK
<1> QED
  BY <1>1, <1>2, CappedTwice DEF Replenished

\* Each step keeps the types.
LEMMA BucketTyped ==
  ASSUME TokenBucketParameters, TypeOK, [Next]_bucketVars
  PROVE  TypeOK'
<1>1. Replenished \in 0..Capacity
  BY ReplenishedType
<1>2. CASE RecordRequest
  <2>1. Capped(Replenished + Ratio) \in 0..Capacity
    BY <1>1 DEF TokenBucketParameters, Capped
  <2> QED
    BY <1>2, <2>1 DEF RecordRequest, TypeOK, parities
<1>3. ASSUME Taken \/ Refused
      PROVE  /\ tokens' \in 0..Capacity /\ idle' \in Nat
             /\ {clock', requests', admissions'} \subseteq {0, 1}
  BY <1>1, <1>3 DEF TokenBucketParameters, Taken, Refused, TypeOK, parities
<1>4. CASE TryAcquireRetry
  BY <1>3, <1>4 DEF TryAcquireRetry, TypeOK
<1>5. CASE Tick
  BY <1>5 DEF Tick, TypeOK
<1>6. ASSUME NEW w \in Waiter, Call(w) \/ Poll(w) \/ Cancel(w)
      PROVE  TypeOK'
  BY <1>3, <1>6 DEF Call, Poll, Cancel, TypeOK, parities
<1>7. CASE UNCHANGED bucketVars
  BY <1>7 DEF bucketVars, parities, TypeOK
<1> QED
  BY <1>2, <1>4, <1>5, <1>6, <1>7 DEF Next

\* A full bucket is full in both.
LEMMA InitRefines ==
  ASSUME TokenBucketParameters, Init
  PROVE  TypeOK /\ Ideal!Init
<1>1. TypeOK
  BY DEF TokenBucketParameters, Init, TypeOK
<1>2. Replenished = Capacity
  BY DEF TokenBucketParameters, Init, Replenished, Capped
<1> QED
  BY <1>1, <1>2 DEF Init, Ideal!Init

\* A call that takes a token takes it from the ideal bucket, a refused call and
\* a cancellation do nothing to it, a tick lets it accrue.
LEMMA StepRefines ==
  ASSUME TokenBucketParameters, TypeOK, [Next]_bucketVars
  PROVE  [Ideal!Next]_<<Replenished, parities>>
<1>1. Rate * idle \in Nat /\ Replenished \in 0..Capacity
  BY ReplenishedType
<1>2. ASSUME idle' = 0, tokens' \in 0..Capacity
      PROVE  Replenished' = tokens'
  <2>1. Capped(tokens' + Rate * 0) = tokens'
    BY <1>2, CappedWithin
  <2> QED
    BY <1>2, <2>1, Zenon DEF Replenished
<1>3. CASE RecordRequest
  <2>1. Capped(Replenished + Ratio) \in 0..Capacity
    BY <1>1 DEF TokenBucketParameters, Capped
  <2>2. Replenished' = Capped(Replenished + Ratio)
    BY <1>2, <1>3, <2>1 DEF RecordRequest
  <2> QED
    BY <1>3, <2>2 DEF RecordRequest, Ideal!Next, Ideal!Deposit, Ideal!Capped, Capped
<1>4. CASE Taken
  <2>1. Replenished >= One /\ Replenished' = Replenished - One
    BY <1>1, <1>2, <1>4 DEF TokenBucketParameters, Taken
  <2> QED
    BY <1>4, <2>1 DEF Taken, Ideal!Next, Ideal!Take
<1>5. CASE Refused
  BY <1>1, <1>2, <1>5 DEF Refused, parities
<1>6. CASE Tick
  <2>1. tokens + Rate * idle \in Nat /\ tokens' + Rate * idle' = tokens + Rate * idle + Rate
    BY <1>1, <1>6 DEF TokenBucketParameters, Tick, TypeOK
  <2>2. Replenished' = Capped(tokens + Rate * idle + Rate)
    BY <2>1 DEF Replenished
  <2>3. Capped(tokens + Rate * idle + Rate) = Capped(Replenished + Rate)
    BY <2>1, CappedTwice DEF TokenBucketParameters, Replenished
  <2> QED
    BY <1>6, <2>2, <2>3 DEF Tick, Ideal!Next, Ideal!Accrue, Ideal!Capped, Capped
<1>7. ASSUME NEW w \in Waiter, Call(w) \/ Cancel(w)
      PROVE  UNCHANGED <<Replenished, parities>>
  BY <1>7 DEF parities, Call, Cancel, Replenished
<1>8. CASE UNCHANGED bucketVars
  BY <1>8 DEF bucketVars, parities, Replenished
<1> QED
  BY <1>3, <1>4, <1>5, <1>6, <1>7, <1>8 DEF Next, TryAcquireRetry, Poll

\* replenishLocked: crediting the elapsed time at each call admits exactly what a
\* bucket that fills continuously would, for every rate, ratio and capacity.
THEOREM BucketImplementation ==
  ASSUME TokenBucketParameters
  PROVE  Spec => ImplementsIdealBucket
<1>1. Init => TypeOK /\ Ideal!Init
  BY InitRefines
<1>2. TypeOK /\ [Next]_bucketVars => TypeOK' /\ [Ideal!Next]_(Ideal!idealVars)
  BY BucketTyped, StepRefines DEF Ideal!idealVars, parities
<1> QED
  BY <1>1, <1>2, PTL DEF Spec, ImplementsIdealBucket, Ideal!Spec

-----------------------------------------------------------------------------
(* The circuit breaker. *)

\* The breaker counts with the same Cardinality.
LEMMA BreakerCardinality ==
  ASSUME NEW X
  PROVE  /\ B!IsFiniteSet(X) <=> IsFiniteSet(X)
         /\ B!Cardinality(X) = Cardinality(X)
  BY DEF B!IsFiniteSet, IsFiniteSet, B!Cardinality, Cardinality

\* The callers that met the service sick.
Sick == {k \in Caller : call[k] = "sick"}

\* In an outage each call that counts is under way, or it has failed since the state was
\* entered: closed, it is one of the consecutive failures; half open, it has opened the
\* breaker.
BreakerInv ==
  /\ B!TypeOK
  /\ state = "CLOSED" => consecutiveFails < FailureThreshold
  /\ state = "OPEN" => hits = 0
  /\ hits > 0 => B!Outage
  /\ hits <= Cardinality(Sick) + (IF state = "CLOSED" THEN consecutiveFails ELSE 0)

\* Counting callers.
LEMMA SickCounts ==
  ASSUME IsFiniteSet(Caller), call \in [Caller -> {"none", "sound", "sick"}],
         NEW k \in Caller, NEW v \in {"none", "sound", "sick"},
         call' = [call EXCEPT ![k] = v]
  PROVE  /\ Cardinality(Sick) \in 0..Cardinality(Caller) /\ Cardinality(Sick)' \in Nat
         /\ Cardinality(Caller) \in Nat
         /\ call[k] # "sick" /\ v = "sick" => Cardinality(Sick)' = Cardinality(Sick) + 1
         /\ call[k] = "sick" /\ v # "sick" => Cardinality(Sick)' = Cardinality(Sick) - 1
         /\ (call[k] = "sick" <=> v = "sick") => Cardinality(Sick)' = Cardinality(Sick)
<1>1. /\ IsFiniteSet(Sick) /\ IsFiniteSet(Sick')
      /\ Cardinality(Sick) <= Cardinality(Caller)
  BY FS_Subset DEF Sick
<1>2. Cardinality(Sick) \in Nat /\ Cardinality(Sick') \in Nat /\ Cardinality(Caller) \in Nat
  BY <1>1, FS_CardinalityType
<1>3. CASE call[k] # "sick" /\ v = "sick"
  <2>1. Sick' = Sick \cup {k} /\ k \notin Sick
    BY <1>3 DEF Sick
  <2> QED BY <1>1, <1>2, <1>3, <2>1, FS_AddElement
<1>4. CASE call[k] = "sick" /\ v # "sick"
  <2>1. Sick' = Sick \ {k} /\ k \in Sick
    BY <1>4 DEF Sick
  <2> QED BY <1>1, <1>2, <1>4, <2>1, FS_RemoveElement
<1>5. CASE call[k] = "sick" <=> v = "sick"
  <2>1. Sick' = Sick
    BY <1>5 DEF Sick
  <2> QED BY <1>1, <1>2, <1>5, <2>1
<1> QED BY <1>3, <1>4, <1>5

\* Each step keeps the invariant.
LEMMA BreakerStep ==
  ASSUME B!BreakerParameters, BreakerInv, [B!Next]_breakerVars
  PROVE  BreakerInv'
<1> USE DEF B!BreakerParameters, B!TypeOK, BreakerInv
<1>1. /\ IsFiniteSet(Caller) /\ CooldownTimeout \in Nat
      /\ FailureThreshold \in Nat \ {0} /\ SuccessThreshold \in Nat \ {0}
  BY BreakerCardinality
<1>2. IsFiniteSet(Sick) /\ Cardinality(Sick) \in Nat
  BY <1>1, FS_Subset, FS_CardinalityType DEF Sick
<1>3. ASSUME NEW k \in Caller, B!Begin(k)
      PROVE  BreakerInv'
  <2>1. B!TypeOK' /\ (state' = "CLOSED" => consecutiveFails' < FailureThreshold)
    BY <1>1, <1>3 DEF B!Begin, B!CheckStateTransition, B!HitsKept
  <2>2. state' # "OPEN" /\ (hits' > 0 => ~healthy)
    BY <1>3 DEF B!Begin, B!HitsKept, B!Outage
  <2>3. hits' > 0 => B!Outage'
    <3>1. hits' > 0 => B!Outage
      BY <1>3 DEF B!Begin, B!HitsKept
    <3>2. B!Outage => B!Outage'
      BY <1>3 DEF B!Begin, B!Outage
    <3> QED BY <3>1, <3>2
  <2>4. hits' > 0 => Cardinality(Sick)' = Cardinality(Sick) + 1
    BY <1>1, <1>3, <2>2, SickCounts DEF B!Begin
  <2>5. hits' <= hits + 1
    BY <1>3 DEF B!Begin, B!HitsKept
  <2>6. state' = state => consecutiveFails' = consecutiveFails
    BY <1>3 DEF B!Begin, B!CheckStateTransition, B!Expired
  <2>7. state' # state => hits' <= 1 /\ state' = "HALF_OPEN"
    BY <1>3 DEF B!Begin, B!CheckStateTransition, B!Expired, B!HitsKept
  <2>8. Cardinality(Sick)' \in Nat
    BY <1>1, <1>3, SickCounts DEF B!Begin
  <2> QED BY <1>2, <2>1, <2>2, <2>3, <2>4, <2>5, <2>6, <2>7, <2>8
<1>4. ASSUME NEW k \in Caller, B!EndFailed(k)
      PROVE  BreakerInv'
  <2>1. B!TypeOK' /\ (state' = "CLOSED" => consecutiveFails' < FailureThreshold)
    BY <1>1, <1>4 DEF B!EndFailed, B!RecordFailure, B!TooMany, B!Trip, B!HitsKept
  <2>2. /\ Cardinality(Sick)' \in Nat
        /\ Cardinality(Sick)' >= Cardinality(Sick) - 1
    <3>1. call' = [call EXCEPT ![k] = "none"] /\ "none" \in {"none", "sound", "sick"}
      BY <1>4 DEF B!EndFailed
    <3>2. /\ Cardinality(Sick)' \in Nat
          /\ call[k] = "sick" => Cardinality(Sick)' = Cardinality(Sick) - 1
          /\ call[k] # "sick" => Cardinality(Sick)' = Cardinality(Sick)
      <4>1. call \in [Caller -> {"none", "sound", "sick"}]
        OBVIOUS
      <4> HIDE DEF B!TypeOK, B!BreakerParameters, BreakerInv
      <4> QED BY <1>1, <3>1, <4>1, SickCounts
    <3> QED BY <1>2, <3>2
  <2>3. B!Outage => B!Outage'
    BY <1>4 DEF B!EndFailed, B!Outage
  <2>4. hits' > 0 => state' = state /\ state # "OPEN" /\ hits' = hits
    BY <1>4 DEF B!EndFailed, B!HitsKept
  <2>5. hits' > 0 => state = "CLOSED" /\ consecutiveFails' = consecutiveFails + 1
    BY <1>4, <2>4 DEF B!EndFailed, B!RecordFailure, B!Trip
  <2>6. state' = "OPEN" => hits' = 0
    BY <2>1, <2>4
  <2> QED BY <1>2, <2>1, <2>2, <2>3, <2>4, <2>5, <2>6
<1>5. ASSUME NEW k \in Caller, B!EndSucceeded(k)
      PROVE  BreakerInv'
  <2>1. B!TypeOK' /\ (state' = "CLOSED" => consecutiveFails' < FailureThreshold)
    BY <1>1, <1>5 DEF B!EndSucceeded, B!RecordSuccess, B!Enough, B!HitsKept
  <2>2. hits = 0 /\ hits' = 0
    BY <1>5 DEF B!EndSucceeded, B!Outage, B!HitsKept
  <2>3. Cardinality(Sick)' \in Nat
    BY <1>1, <1>5, SickCounts DEF B!EndSucceeded
  <2> QED BY <2>1, <2>2, <2>3
<1>6. CASE UNCHANGED call /\ (hits' = 0 \/ (UNCHANGED <<state, consecutiveFails, healthy, hits>>))
           /\ B!TypeOK' /\ (state' = "CLOSED" => consecutiveFails' < FailureThreshold)
  <2>1. UNCHANGED Sick /\ Cardinality(Sick)' = Cardinality(Sick)
    BY <1>6 DEF Sick
  <2>2. CASE hits' = 0
    BY <1>2, <1>6, <2>1, <2>2
  <2>3. CASE UNCHANGED <<state, consecutiveFails, healthy, hits>>
    BY <1>2, <1>6, <2>1, <2>3 DEF B!Outage
  <2> QED BY <1>6, <2>2, <2>3
<1>7. CASE B!State
  BY <1>6, <1>7 DEF B!State, B!CheckStateTransition, B!Expired, B!HitsKept
<1>8. CASE B!Tick
  BY <1>1, <1>6, <1>8 DEF B!Tick
<1>9. CASE B!Break
  <2>1. hits = 0
    BY <1>9 DEF B!Break, B!Outage
  <2>2. UNCHANGED <<state, consecutiveFails, consecutiveSuccess, cooldown, call, hits>>
    BY <1>9 DEF B!Break
  <2>3. healthy' \in BOOLEAN /\ outages' \in Nat
    <3>1. healthy' = FALSE /\ outages' = outages + 1
      BY <1>9 DEF B!Break
    <3>2. outages + 1 \in Nat
      OBVIOUS
    <3> QED BY <3>1, <3>2, Zenon
  <2>4. B!TypeOK' /\ (state' = "CLOSED" => consecutiveFails' < FailureThreshold)
    BY <2>2, <2>3
  <2> QED BY <1>6, <2>1, <2>2, <2>4
<1>10. CASE B!Recover
  BY <1>6, <1>10 DEF B!Recover
<1>11. CASE UNCHANGED breakerVars
  BY <1>6, <1>11 DEF breakerVars
<1> QED BY <1>3, <1>4, <1>5, <1>7, <1>8, <1>9, <1>10, <1>11 DEF B!Next

\* It begins true, and says what the property says.
LEMMA BreakerInit ==
  ASSUME B!BreakerParameters, B!Init
  PROVE  BreakerInv
<1>1. Sick = {}
  BY DEF B!Init, Sick
<1>2. Cardinality(Sick) = 0
  BY <1>1, FS_EmptySet
<1> QED BY <1>2 DEF B!BreakerParameters, B!Init, BreakerInv, B!TypeOK

LEMMA BreakerImplies ==
  ASSUME B!BreakerParameters, BreakerInv
  PROVE  B!OutageContained
<1>1. IsFiniteSet(Caller)
  BY BreakerCardinality DEF B!BreakerParameters
<1>2. /\ Cardinality(Sick) \in Nat /\ Cardinality(Caller) \in Nat
      /\ Cardinality(Sick) <= Cardinality(Caller)
  BY <1>1, FS_Subset, FS_CardinalityType DEF Sick
<1> QED BY <1>2, BreakerCardinality DEF B!BreakerParameters, BreakerInv, B!TypeOK, B!OutageContained

\* Execute: whatever results come late, a dead service is hit by no more calls than it takes
\* to trip the breaker and callers had begun, and half open by one of each caller.
THEOREM OutageContainedHolds ==
  ASSUME B!BreakerParameters
  PROVE  B!Spec => []B!OutageContained
<1>1. B!Init => BreakerInv
  BY BreakerInit
<1>2. BreakerInv /\ [B!Next]_(B!breakerVars) => BreakerInv'
  BY BreakerStep DEF breakerVars, B!breakerVars
<1>3. BreakerInv => B!OutageContained
  BY BreakerImplies
<1> QED BY <1>1, <1>2, <1>3, PTL DEF B!Spec

-----------------------------------------------------------------------------
(* The connection pool, whose users close a connection once. *)

\* Close and Acquire pass a connection from one user to the next: it is idle or has one
\* user, whose Close finds the flag reset; and connections are as many as permits missing.
Held == {"using", "releasing"}
Holders == {k \in User : pc[k] \in Held}

ConnsApart ==
  /\ \A k, m \in Holders : conn[k] = conn[m] => k = m
  /\ \A k \in Holders : conn[k] \in 1..nextID /\ \A i \in 1..Len(idleConns) : idleConns[i] # conn[k]
  /\ \A i, j \in 1..Len(idleConns) : idleConns[i] = idleConns[j] => i = j

FlagsReset ==
  /\ again = {}
  /\ \A k \in User : pc[k] = "using" => ~released[conn[k]]
  /\ \A i \in 1..MaxConns : i > nextID => ~released[i]

ConnsCounted ==
  /\ permits + nextID = MaxCapacity
  /\ Len(idleConns) + Cardinality(Holders) = nextID

PoolInv == L!PoolTypeOK /\ ConnsApart /\ FlagsReset /\ ConnsCounted

\* The pool counts with the same Cardinality.
LEMMA PoolCardinality ==
  ASSUME NEW X
  PROVE  /\ L!IsFiniteSet(X) <=> IsFiniteSet(X)
         /\ L!Cardinality(X) = Cardinality(X)
  BY DEF L!IsFiniteSet, IsFiniteSet, L!Cardinality, Cardinality

\* Counting users.
LEMMA HoldersCount ==
  ASSUME IsFiniteSet(User), NEW k \in User, NEW l,
         pc \in [User -> {"idle", "lookIdle", "lookTokens", "waiting", "using", "releasing"}],
         pc' = [pc EXCEPT ![k] = l]
  PROVE  /\ Cardinality(Holders) \in Nat
         /\ pc[k] \notin Held /\ l \in Held =>
              /\ Holders' = Holders \cup {k}
              /\ Cardinality(Holders') = Cardinality(Holders) + 1
         /\ pc[k] \in Held /\ l \notin Held =>
              /\ Holders' = Holders \ {k}
              /\ Cardinality(Holders') = Cardinality(Holders) - 1
         /\ (pc[k] \in Held <=> l \in Held) =>
              /\ Holders' = Holders
              /\ Cardinality(Holders') = Cardinality(Holders)
<1>1. IsFiniteSet(Holders) /\ Cardinality(Holders) \in Nat
  BY FS_Subset, FS_CardinalityType DEF Holders
<1>2. ASSUME pc[k] \notin Held, l \in Held
      PROVE  Holders' = Holders \cup {k} /\ Cardinality(Holders') = Cardinality(Holders) + 1
  <2>1. Holders' = Holders \cup {k} /\ k \notin Holders
    BY <1>2 DEF Holders, Held
  <2> QED BY <1>1, <2>1, FS_AddElement
<1>3. ASSUME pc[k] \in Held, l \notin Held
      PROVE  Holders' = Holders \ {k} /\ Cardinality(Holders') = Cardinality(Holders) - 1
  <2>1. Holders' = Holders \ {k} /\ k \in Holders
    BY <1>3 DEF Holders, Held
  <2> QED BY <1>1, <2>1, FS_RemoveElement
<1>4. ASSUME pc[k] \in Held <=> l \in Held
      PROVE  Holders' = Holders
  BY <1>4 DEF Holders, Held
<1> QED BY <1>1, <1>2, <1>3, <1>4

\* Steps that leave conns, permits and flags alone, and give nobody a connection.
LEMMA PoolIdles ==
  ASSUME L!PoolParameters, PoolInv, NEW k \in User, NEW l \in {"idle", "lookIdle", "lookTokens", "waiting"},
         pc[k] \notin Held, pc' = [pc EXCEPT ![k] = l],
         UNCHANGED <<permits, idleConns, nextID, released, conn>>, again' = {}
  PROVE  PoolInv'
<1>1. IsFiniteSet(User)
  BY PoolCardinality DEF L!PoolParameters
<1>2. Holders' = Holders /\ Cardinality(Holders') = Cardinality(Holders)
  <2>1. l \notin Held
    BY DEF Held
  <2> QED BY <1>1, <2>1, HoldersCount DEF PoolInv, L!PoolTypeOK
<1>3. L!PoolTypeOK'
  BY DEF PoolInv, L!PoolTypeOK
<1>4. ConnsApart'
  BY <1>2 DEF PoolInv, ConnsApart
<1>5. FlagsReset'
  BY DEF PoolInv, FlagsReset, L!PoolTypeOK
<1>6. ConnsCounted'
  BY <1>2 DEF PoolInv, ConnsCounted
<1> QED BY <1>3, <1>4, <1>5, <1>6 DEF PoolInv

\* An idle connection becomes the user's.
LEMMA PoolTakesIdle ==
  ASSUME L!PoolParameters, PoolInv, NEW k \in User, pc[k] \notin Held, L!TakeIdle(k)
  PROVE  PoolInv'
<1> DEFINE i == Head(idleConns)
<1>1. IsFiniteSet(User)
  BY PoolCardinality DEF L!PoolParameters
<1>2. /\ Holders' = Holders \cup {k} /\ k \notin Holders
      /\ Cardinality(Holders') = Cardinality(Holders) + 1 /\ Cardinality(Holders) \in Nat
  <2>1. pc' = [pc EXCEPT ![k] = "using"] /\ "using" \in Held
    BY DEF L!TakeIdle, L!Goto, Held
  <2> QED BY <1>1, <2>1, HoldersCount DEF PoolInv, L!PoolTypeOK, Holders
<1>3. /\ idleConns \in Seq(1..nextID) /\ Len(idleConns) \in Nat \ {0}
      /\ i = idleConns[1] /\ i \in 1..nextID
  BY DEF PoolInv, L!PoolTypeOK, L!TakeIdle
<1>4. /\ idleConns' \in Seq(1..nextID) /\ Len(idleConns') = Len(idleConns) - 1
      /\ \A j \in 1..Len(idleConns') : idleConns'[j] = idleConns[j + 1] /\ j + 1 \in 1..Len(idleConns)
  BY <1>3 DEF L!TakeIdle
<1>5. /\ nextID \in 0..MaxConns /\ MaxConns \in Nat /\ i \in 1..MaxConns
      /\ conn' = [conn EXCEPT ![k] = i] /\ conn \in [User -> 0..nextID]
      /\ UNCHANGED <<permits, nextID, again>>
  BY <1>3 DEF PoolInv, L!PoolTypeOK, L!TakeIdle, L!PoolParameters
<1>6. L!PoolTypeOK'
  <2>1. permits' \in 0..MaxCapacity /\ nextID' \in 0..MaxConns /\ again' \subseteq User
    BY <1>5 DEF PoolInv, L!PoolTypeOK
  <2>2. idleConns' \in Seq(1..nextID') /\ Len(idleConns') <= MaxCapacity
    BY <1>3, <1>4, <1>5 DEF PoolInv, L!PoolTypeOK, L!PoolParameters
  <2>3. released' \in [1..MaxConns -> BOOLEAN]
    BY DEF PoolInv, L!PoolTypeOK, L!TakeIdle
  <2>4. pc' \in [User -> {"idle", "lookIdle", "lookTokens", "waiting", "using", "releasing"}]
    BY DEF PoolInv, L!PoolTypeOK, L!TakeIdle, L!Goto
  <2>5. conn' \in [User -> 0..nextID']
    BY <1>3, <1>5
  <2> QED BY <2>1, <2>2, <2>3, <2>4, <2>5 DEF L!PoolTypeOK
<1>7. ConnsApart'
  <2> HIDE DEF i
  <2>1. \A m \in Holders : conn'[m] = conn[m] /\ m # k /\ conn[m] # i /\ conn[m] \in 1..nextID
    BY <1>2, <1>3, <1>5 DEF PoolInv, ConnsApart, Holders
  <2>2. conn'[k] = i
    BY <1>5
  <2>3. \A m, n \in Holders' : conn'[m] = conn'[n] => m = n
    BY <1>2, <2>1, <2>2 DEF PoolInv, ConnsApart
  <2>4. \A m \in Holders' : conn'[m] \in 1..nextID'
    BY <1>2, <1>3, <1>5, <2>1, <2>2
  <2>5. \A j \in 1..Len(idleConns') : idleConns'[j] # i
    BY <1>3, <1>4 DEF PoolInv, ConnsApart
  <2>6. \A m \in Holders' : \A j \in 1..Len(idleConns') : idleConns'[j] # conn'[m]
    BY <1>2, <1>4, <2>1, <2>2, <2>5 DEF PoolInv, ConnsApart
  <2>7. \A j, n \in 1..Len(idleConns') : idleConns'[j] = idleConns'[n] => j = n
    BY <1>4 DEF PoolInv, ConnsApart
  <2> QED BY <2>3, <2>4, <2>6, <2>7 DEF ConnsApart
<1>8. FlagsReset'
  <2> HIDE DEF i
  <2>1. released' = [released EXCEPT ![i] = FALSE] /\ released \in [1..MaxConns -> BOOLEAN]
    BY DEF i, L!TakeIdle, PoolInv, L!PoolTypeOK
  <2>2. pc' = [pc EXCEPT ![k] = "using"]
    BY DEF L!TakeIdle, L!Goto
  <2>3. \A m \in User : pc'[m] = "using" => ~released'[conn'[m]]
    <3> SUFFICES ASSUME NEW m \in User, pc'[m] = "using"
                 PROVE  ~released'[conn'[m]]
      OBVIOUS
    <3>1. CASE m = k
      BY <1>5, <2>1, <3>1
    <3>2. CASE m # k
      <4>1. m \in Holders /\ conn'[m] = conn[m] /\ ~released[conn[m]]
        BY <1>5, <2>2, <3>2 DEF PoolInv, FlagsReset, Holders, Held, L!PoolTypeOK
      <4>2. conn[m] \in 1..MaxConns
        BY <1>5, <4>1 DEF PoolInv, ConnsApart
      <4> QED BY <2>1, <4>1, <4>2
    <3> QED BY <3>1, <3>2
  <2>4. \A j \in 1..MaxConns : j > nextID' => ~released'[j]
    BY <1>3, <1>5, <2>1 DEF PoolInv, FlagsReset
  <2> QED BY <1>5, <2>3, <2>4 DEF PoolInv, FlagsReset
<1>9. ConnsCounted'
  BY <1>2, <1>3, <1>4, <1>5 DEF PoolInv, ConnsCounted
<1> QED BY <1>6, <1>7, <1>8, <1>9 DEF PoolInv

\* A permit becomes a new connection.
LEMMA PoolTakesToken ==
  ASSUME L!PoolParameters, PoolInv, NEW k \in User, pc[k] \notin Held, L!TakeToken(k)
  PROVE  PoolInv'
<1>1. IsFiniteSet(User)
  BY PoolCardinality DEF L!PoolParameters
<1>2. /\ Holders' = Holders \cup {k} /\ k \notin Holders
      /\ Cardinality(Holders') = Cardinality(Holders) + 1 /\ Cardinality(Holders) \in Nat
  <2>1. pc' = [pc EXCEPT ![k] = "using"] /\ "using" \in Held
    BY DEF L!TakeToken, L!Goto, Held
  <2> QED BY <1>1, <2>1, HoldersCount DEF PoolInv, L!PoolTypeOK, Holders
<1>3. /\ nextID \in Nat /\ nextID + 1 \in 1..MaxConns /\ nextID' = nextID + 1 /\ MaxConns \in Nat
      /\ permits \in Nat /\ permits > 0 /\ permits' = permits - 1 /\ MaxCapacity \in Nat
      /\ conn' = [conn EXCEPT ![k] = nextID + 1] /\ conn \in [User -> 0..nextID]
      /\ UNCHANGED <<idleConns, released, again>>
  BY DEF PoolInv, L!PoolTypeOK, L!TakeToken, L!PoolParameters
<1>4. idleConns \in Seq(1..nextID) /\ Len(idleConns) \in Nat
  BY DEF PoolInv, L!PoolTypeOK
<1>5. \A j \in 1..Len(idleConns) : idleConns[j] \in 1..nextID
  BY <1>4, ElementOfSeq
<1>6. L!PoolTypeOK'
  <2>1. permits' \in 0..MaxCapacity /\ nextID' \in 0..MaxConns /\ again' \subseteq User
    BY <1>3 DEF PoolInv, L!PoolTypeOK
  <2>2. idleConns \in Seq(1..nextID')
    <3>1. 1..nextID \subseteq 1..nextID'
      BY <1>3
    <3> QED BY <1>4, <3>1, SeqMonotonic
  <2>3. Len(idleConns') <= MaxCapacity /\ released' \in [1..MaxConns -> BOOLEAN]
    BY <1>3 DEF PoolInv, L!PoolTypeOK
  <2>4. pc' \in [User -> {"idle", "lookIdle", "lookTokens", "waiting", "using", "releasing"}]
    BY DEF PoolInv, L!PoolTypeOK, L!TakeToken, L!Goto
  <2>5. conn' \in [User -> 0..nextID']
    <3>1. nextID + 1 \in 0..nextID' /\ 0..nextID \subseteq 0..nextID'
      BY <1>3
    <3> QED BY <1>3, <3>1
  <2> QED BY <1>3, <2>1, <2>2, <2>3, <2>4, <2>5 DEF L!PoolTypeOK
<1>7. ConnsApart'
  <2>1. \A m \in Holders : conn'[m] = conn[m] /\ m # k /\ conn[m] \in 1..nextID /\ conn[m] # nextID + 1
    BY <1>2, <1>3 DEF PoolInv, ConnsApart, Holders
  <2>2. conn'[k] = nextID + 1
    BY <1>3
  <2>3. \A m, n \in Holders' : conn'[m] = conn'[n] => m = n
    BY <1>2, <2>1, <2>2 DEF PoolInv, ConnsApart
  <2>4. \A m \in Holders' : conn'[m] \in 1..nextID'
    BY <1>2, <1>3, <2>1, <2>2
  <2>5. \A m \in Holders' : \A j \in 1..Len(idleConns') : idleConns'[j] # conn'[m]
    BY <1>2, <1>3, <1>5, <2>1, <2>2 DEF PoolInv, ConnsApart
  <2>6. \A j, n \in 1..Len(idleConns') : idleConns'[j] = idleConns'[n] => j = n
    BY <1>3 DEF PoolInv, ConnsApart
  <2> QED BY <2>3, <2>4, <2>5, <2>6 DEF ConnsApart
<1>8. FlagsReset'
  <2>1. pc' = [pc EXCEPT ![k] = "using"]
    BY DEF L!TakeToken, L!Goto
  <2>2. ~released[nextID + 1]
    BY <1>3 DEF PoolInv, FlagsReset
  <2>3. \A m \in User : pc'[m] = "using" => ~released'[conn'[m]]
    BY <1>3, <2>1, <2>2 DEF PoolInv, FlagsReset, L!PoolTypeOK
  <2>4. \A j \in 1..MaxConns : j > nextID' => ~released'[j]
    BY <1>3 DEF PoolInv, FlagsReset
  <2> QED BY <1>3, <2>3, <2>4 DEF PoolInv, FlagsReset
<1>9. ConnsCounted'
  <2>1. permits + nextID = MaxCapacity /\ Len(idleConns) + Cardinality(Holders) = nextID
    BY DEF PoolInv, ConnsCounted
  <2>2. permits' + nextID' = MaxCapacity
    BY <1>3, <2>1
  <2>3. Len(idleConns) + (Cardinality(Holders) + 1) = nextID'
    BY <1>2, <1>3, <1>4, <2>1
  <2> QED BY <1>2, <1>3, <2>2, <2>3 DEF ConnsCounted
<1> QED BY <1>6, <1>7, <1>8, <1>9 DEF PoolInv

\* Close: the user of a connection gives it back, whose flag is set from now on,
LEMMA PoolCloses ==
  ASSUME L!PoolParameters, ~MayCloseTwice, PoolInv, NEW k \in User, L!CloseConn(k)
  PROVE  PoolInv'
<1>1. IsFiniteSet(User)
  BY PoolCardinality DEF L!PoolParameters
<1>2. pc[k] = "using" /\ ~released[conn[k]] /\ again' = {}
  BY DEF L!CloseConn, PoolInv, FlagsReset
<1>3. /\ pc' = [pc EXCEPT ![k] = "releasing"] /\ released' = [released EXCEPT ![conn[k]] = TRUE]
      /\ UNCHANGED <<permits, idleConns, nextID, conn>>
  BY <1>2 DEF L!CloseConn, L!Unreleased, L!Goto
<1>4. k \in Holders
  BY <1>2 DEF Holders, Held
<1>5. Holders' = Holders /\ Cardinality(Holders') = Cardinality(Holders)
  <2>1. "releasing" \in Held /\ pc[k] \in Held
    BY <1>2 DEF Held
  <2> QED BY <1>1, <1>3, <2>1, HoldersCount DEF PoolInv, L!PoolTypeOK
<1>6. L!PoolTypeOK'
  BY <1>2, <1>3 DEF PoolInv, L!PoolTypeOK
<1>7. ConnsApart'
  BY <1>3, <1>5 DEF PoolInv, ConnsApart
<1>8. FlagsReset'
  <2>1. nextID \in 0..MaxConns /\ MaxConns \in Nat /\ released \in [1..MaxConns -> BOOLEAN]
    BY DEF PoolInv, L!PoolTypeOK, L!PoolParameters
  <2>2. conn[k] \in 1..nextID /\ conn[k] \in 1..MaxConns
    BY <1>4, <2>1 DEF PoolInv, ConnsApart
  <2>3. \A m \in User : pc'[m] = "using" =>
          m # k /\ pc[m] = "using" /\ m \in Holders /\ conn[m] # conn[k] /\ conn[m] \in 1..MaxConns
    <3> SUFFICES ASSUME NEW m \in User, pc'[m] = "using"
                 PROVE  m # k /\ pc[m] = "using" /\ m \in Holders /\ conn[m] # conn[k]
                        /\ conn[m] \in 1..MaxConns
      OBVIOUS
    <3>1. m # k /\ pc[m] = "using" /\ m \in Holders
      BY <1>3 DEF PoolInv, L!PoolTypeOK, Holders, Held
    <3> QED BY <1>4, <2>1, <3>1 DEF PoolInv, ConnsApart
  <2>4. \A m \in User : pc'[m] = "using" => ~released'[conn'[m]]
    BY <1>3, <2>1, <2>3 DEF PoolInv, FlagsReset
  <2>5. \A j \in 1..MaxConns : j > nextID' => ~released'[j]
    BY <1>3, <2>1, <2>2 DEF PoolInv, FlagsReset
  <2> QED BY <1>2, <2>4, <2>5 DEF FlagsReset
<1>9. ConnsCounted'
  BY <1>3, <1>5 DEF PoolInv, ConnsCounted
<1> QED BY <1>6, <1>7, <1>8, <1>9 DEF PoolInv

\* and release finds room for it among the idle ones.
LEMMA PoolReleases ==
  ASSUME L!PoolParameters, PoolInv, NEW k \in User, L!ReleaseConn(k)
  PROVE  PoolInv'
<1>1. IsFiniteSet(User)
  BY PoolCardinality DEF L!PoolParameters
<1>2. pc[k] = "releasing" /\ pc' = [pc EXCEPT ![k] = "idle"]
      /\ UNCHANGED <<nextID, released, conn, again>>
  BY DEF L!ReleaseConn, L!Goto
<1>3. /\ Holders' = Holders \ {k} /\ k \in Holders
      /\ Cardinality(Holders') = Cardinality(Holders) - 1 /\ Cardinality(Holders) \in Nat
      /\ Cardinality(Holders') \in Nat
  <2>1. pc[k] \in Held /\ "idle" \notin Held /\ k \in Holders
    BY <1>2 DEF Held, Holders
  <2>2. IsFiniteSet(Holders')
    BY <1>1, FS_Subset DEF Holders
  <2> QED BY <1>1, <1>2, <2>1, <2>2, HoldersCount, FS_CardinalityType DEF PoolInv, L!PoolTypeOK
<1>4. /\ idleConns \in Seq(1..nextID) /\ Len(idleConns) \in Nat /\ permits \in Nat
      /\ nextID \in Nat /\ MaxCapacity \in Nat
  BY DEF PoolInv, L!PoolTypeOK, L!PoolParameters
<1>5. Len(idleConns) < MaxCapacity
  BY <1>3, <1>4 DEF PoolInv, ConnsCounted
<1>6. idleConns' = Append(idleConns, conn[k]) /\ permits' = permits
  BY <1>4, <1>5 DEF L!ReleaseConn
<1>7. conn[k] \in 1..nextID
  BY <1>3 DEF PoolInv, ConnsApart
<1>8. /\ idleConns' \in Seq(1..nextID) /\ Len(idleConns') = Len(idleConns) + 1
      /\ idleConns'[Len(idleConns')] = conn[k]
      /\ \A j \in 1..Len(idleConns) : idleConns'[j] = idleConns[j]
  BY <1>4, <1>6, <1>7
<1>9. L!PoolTypeOK'
  BY <1>2, <1>4, <1>5, <1>6, <1>8 DEF PoolInv, L!PoolTypeOK
<1>10. ConnsApart'
  <2>1. \A m \in Holders' : m \in Holders /\ conn'[m] = conn[m] /\ conn[m] # conn[k]
    BY <1>2, <1>3 DEF PoolInv, ConnsApart
  <2>2. \A m, n \in Holders' : conn'[m] = conn'[n] => m = n
    BY <2>1 DEF PoolInv, ConnsApart
  <2>3. \A m \in Holders' : conn'[m] \in 1..nextID'
    BY <1>2, <2>1 DEF PoolInv, ConnsApart
  <2>4. \A j \in 1..Len(idleConns') : j \in 1..Len(idleConns) \/ j = Len(idleConns')
    BY <1>4, <1>8
  <2>5. \A m \in Holders' : \A j \in 1..Len(idleConns') : idleConns'[j] # conn'[m]
    BY <1>8, <2>1, <2>4 DEF PoolInv, ConnsApart
  <2>6. \A j \in 1..Len(idleConns) : idleConns[j] # conn[k]
    BY <1>3 DEF PoolInv, ConnsApart
  <2>7. \A j, n \in 1..Len(idleConns') : idleConns'[j] = idleConns'[n] => j = n
    BY <1>8, <2>4, <2>6 DEF PoolInv, ConnsApart
  <2> QED BY <2>2, <2>3, <2>5, <2>7 DEF ConnsApart
<1>11. FlagsReset'
  BY <1>2 DEF PoolInv, FlagsReset, L!PoolTypeOK
<1>12. ConnsCounted'
  BY <1>2, <1>3, <1>4, <1>6, <1>8 DEF PoolInv, ConnsCounted
<1> QED BY <1>9, <1>10, <1>11, <1>12 DEF PoolInv

\* Each step keeps the invariant.
LEMMA PoolStep ==
  ASSUME L!PoolParameters, ~MayCloseTwice, PoolInv, [L!PoolNext]_poolVars
  PROVE  PoolInv'
<1>1. again = {}
  BY DEF PoolInv, FlagsReset
<1>2. ASSUME NEW k \in User, L!CallAcquire(k) \/ L!GiveUp(k)
      PROVE  PoolInv'
  <2>1. pc[k] \notin Held /\ again' = {} /\ UNCHANGED <<permits, idleConns, nextID, released, conn>>
    BY <1>1, <1>2 DEF L!CallAcquire, L!GiveUp, L!Skip, Held
  <2>2. pc' = [pc EXCEPT ![k] = "lookIdle"] \/ pc' = [pc EXCEPT ![k] = "idle"]
    BY <1>2 DEF L!CallAcquire, L!GiveUp, L!Skip, L!Goto
  <2> QED BY <2>1, <2>2, PoolIdles
<1>3. ASSUME NEW k \in User, L!LookIdle(k)
      PROVE  PoolInv'
  <2>1. pc[k] \notin Held
    BY <1>3 DEF L!LookIdle, Held
  <2>2. CASE L!TakeIdle(k)
    BY <2>1, <2>2, PoolTakesIdle
  <2>3. CASE L!Skip(k, "lookTokens")
    BY <1>1, <2>1, <2>3, PoolIdles DEF L!Skip, L!Goto
  <2> QED BY <1>3, <2>2, <2>3 DEF L!LookIdle
<1>4. ASSUME NEW k \in User, L!LookTokens(k)
      PROVE  PoolInv'
  <2>1. pc[k] \notin Held
    BY <1>4 DEF L!LookTokens, Held
  <2>2. CASE L!TakeToken(k)
    BY <2>1, <2>2, PoolTakesToken
  <2>3. CASE L!Skip(k, "waiting")
    BY <1>1, <2>1, <2>3, PoolIdles DEF L!Skip, L!Goto
  <2> QED BY <1>4, <2>2, <2>3 DEF L!LookTokens
<1>5. ASSUME NEW k \in User, L!Receive(k)
      PROVE  PoolInv'
  <2>1. pc[k] \notin Held
    BY <1>5 DEF L!Receive, Held
  <2> QED BY <1>5, <2>1, PoolTakesIdle, PoolTakesToken DEF L!Receive, L!WaitBoth
<1>6. CASE UNCHANGED poolVars
  <2>1. UNCHANGED Holders /\ UNCHANGED <<permits, idleConns, nextID, released, pc, conn, again>>
    BY <1>6 DEF poolVars, Holders
  <2> QED BY <2>1 DEF PoolInv, L!PoolTypeOK, ConnsApart, FlagsReset, ConnsCounted
<1> QED
  BY <1>2, <1>3, <1>4, <1>5, <1>6, PoolCloses, PoolReleases DEF L!PoolNext

LEMMA PoolInit ==
  ASSUME L!PoolParameters, L!PoolInit
  PROVE  PoolInv
<1>1. Holders = {} /\ Cardinality(Holders) = 0
  <2>1. Holders = {}
    BY DEF L!PoolInit, Holders, Held
  <2> QED BY <2>1, FS_EmptySet
<1>2. MaxCapacity \in Nat /\ MaxConns \in Nat
  BY DEF L!PoolParameters
<1>3. idleConns = <<>> /\ idleConns \in Seq(1..nextID) /\ Len(idleConns) = 0
  BY DEF L!PoolInit
<1>4. L!PoolTypeOK
  BY <1>2, <1>3 DEF L!PoolInit, L!PoolTypeOK
<1>5. ConnsApart
  BY <1>1, <1>3 DEF ConnsApart
<1>6. FlagsReset
  BY DEF L!PoolInit, FlagsReset
<1>7. ConnsCounted
  BY <1>1, <1>2, <1>3 DEF L!PoolInit, ConnsCounted
<1> QED BY <1>4, <1>5, <1>6, <1>7 DEF PoolInv

LEMMA PoolImplies ==
  ASSUME L!PoolParameters, PoolInv
  PROVE  L!ExclusiveConns /\ L!PermitsConserved
<1>1. L!Using \cup L!Releasing = Holders
  BY DEF L!Using, L!Releasing, Holders, Held
<1>2. L!ExclusiveConns
  <2>1. DOMAIN idleConns = 1..Len(idleConns)
    BY LenProperties DEF PoolInv, L!PoolTypeOK
  <2>2. \A k \in User : pc[k] \in {"using", "releasing"} => k \in Holders
    BY DEF Holders, Held
  <2> QED BY <2>1, <2>2 DEF PoolInv, ConnsApart, L!ExclusiveConns, L!Using
<1>3. L!PermitsConserved
  <2>1. permits \in Nat /\ nextID \in Nat /\ MaxCapacity \in Nat /\ Len(idleConns) \in Nat
    BY DEF PoolInv, L!PoolTypeOK, L!PoolParameters
  <2>2. Cardinality(Holders) \in Nat
    BY PoolCardinality, FS_Subset, FS_CardinalityType DEF L!PoolParameters, Holders
  <2>3. permits + nextID = MaxCapacity /\ Len(idleConns) + Cardinality(Holders) = nextID
    BY DEF PoolInv, ConnsCounted
  <2>4. /\ permits + Len(idleConns) + Cardinality(Holders) = MaxCapacity
        /\ nextID <= MaxCapacity
    BY <2>1, <2>2, <2>3
  <2>5. L!Cardinality(L!Using \cup L!Releasing) = Cardinality(Holders)
    BY <1>1, PoolCardinality
  <2> QED BY <2>4, <2>5 DEF L!PermitsConserved
<1> QED BY <1>2, <1>3

\* Acquire, Close, release: no connection has two users, no permit is lost or made, and no
\* more than MaxCapacity connections are ever open, if nobody closes a connection twice.
THEOREM PoolSound ==
  ASSUME L!PoolParameters, ~MayCloseTwice
  PROVE  L!PoolSpec => [](L!ExclusiveConns /\ L!PermitsConserved)
<1>1. L!PoolInit => PoolInv
  BY PoolInit
<1>2. PoolInv /\ [L!PoolNext]_(L!poolVars) => PoolInv'
  BY PoolStep DEF poolVars, L!poolVars
<1>3. PoolInv => L!ExclusiveConns /\ L!PermitsConserved
  BY PoolImplies
<1> QED BY <1>1, <1>2, <1>3, PTL DEF L!PoolSpec

-----------------------------------------------------------------------------
(* The load shedders. *)

\* LayeredAdmission is inductive as it stands.
Layered(f, d, l, n, c) ==
  /\ {f, d, l, n, c} \subseteq Nat
  /\ f = l + n + c + d
  /\ 10 * l <= 7 * MaxInFlight /\ 10 * (l + n) <= 9 * MaxInFlight
  /\ l + n + c <= MaxInFlight

LoadInv ==
  /\ admitted \in [L!Priority -> Nat]
  /\ Layered(currentInFlight, dropping, admitted["low"], admitted["normal"], admitted["critical"])

\* What the thresholds leave to the others.
LEMMA Thresholds ==
  ASSUME L!ShedderParameters, NEW n \in Nat
  PROVE  /\ n <= L!Threshold("low") => 10 * n <= 7 * MaxInFlight
         /\ n <= L!Threshold("normal") => 10 * n <= 9 * MaxInFlight
         /\ \A p \in L!Priority : n <= L!Threshold(p) => n <= MaxInFlight
<1>1. MaxInFlight \in Nat
  BY DEF L!ShedderParameters
<1>2. /\ L!Threshold("low") = (MaxInFlight * 70) \div 100
      /\ L!Threshold("normal") = (MaxInFlight * 90) \div 100
      /\ L!Threshold("critical") = MaxInFlight
  BY DEF L!Threshold
<1>3. n <= (MaxInFlight * 70) \div 100 => 10 * n <= 7 * MaxInFlight
  BY <1>1
<1>4. n <= (MaxInFlight * 90) \div 100 => 10 * n <= 9 * MaxInFlight
  BY <1>1
<1>5. /\ 10 * n <= 7 * MaxInFlight => n <= MaxInFlight
      /\ 10 * n <= 9 * MaxInFlight => n <= MaxInFlight
  BY <1>1
<1> QED BY <1>2, <1>3, <1>4, <1>5 DEF L!Priority

\* A request leaves, or is being dropped,
LEMMA OneLess ==
  ASSUME MaxInFlight \in Nat, NEW f, NEW d, NEW l, NEW n, NEW c, Layered(f, d, l, n, c)
  PROVE  /\ l > 0 => Layered(f - 1, d, l - 1, n, c)
         /\ n > 0 => Layered(f - 1, d, l, n - 1, c)
         /\ c > 0 => Layered(f - 1, d, l, n, c - 1)
         /\ d > 0 => Layered(f - 1, d - 1, l, n, c)
         /\ Layered(f + 1, d + 1, l, n, c)
<1>1. /\ f \in Nat /\ d \in Nat /\ l \in Nat /\ n \in Nat /\ c \in Nat
      /\ f = l + n + c + d
      /\ 10 * l <= 7 * MaxInFlight /\ 10 * (l + n) <= 9 * MaxInFlight
      /\ l + n + c <= MaxInFlight
  BY DEF Layered
<1> QED BY <1>1 DEF Layered

\* or is let in, whose place in the count leaves the room it should.
LEMMA OneMore ==
  ASSUME MaxInFlight \in Nat, NEW f, NEW d, NEW l, NEW n, NEW c, Layered(f, d, l, n, c),
         f + 1 <= MaxInFlight
  PROVE  /\ 10 * (f + 1) <= 7 * MaxInFlight => Layered(f + 1, d, l + 1, n, c)
         /\ 10 * (f + 1) <= 9 * MaxInFlight => Layered(f + 1, d, l, n + 1, c)
         /\ Layered(f + 1, d, l, n, c + 1)
<1>1. /\ f \in Nat /\ d \in Nat /\ l \in Nat /\ n \in Nat /\ c \in Nat
      /\ f = l + n + c + d
      /\ 10 * l <= 7 * MaxInFlight /\ 10 * (l + n) <= 9 * MaxInFlight
      /\ l + n + c <= MaxInFlight
  BY DEF Layered
<1> QED BY <1>1 DEF Layered

\* Each step keeps the invariant.
LEMMA LoadStep ==
  ASSUME L!ShedderParameters, LoadInv, [L!LoadNext]_loadVars
  PROVE  LoadInv'
<1>1. /\ MaxInFlight \in Nat /\ admitted \in [L!Priority -> Nat]
      /\ Layered(currentInFlight, dropping, admitted["low"], admitted["normal"],
                 admitted["critical"])
      /\ currentInFlight \in Nat
  BY DEF LoadInv, L!ShedderParameters, Layered
<1>3. CASE L!Drop
  BY <1>1, <1>3, OneLess DEF L!Drop, LoadInv
<1>4. ASSUME NEW p \in L!Priority, L!Release(p)
      PROVE  LoadInv'
  <2>1. /\ admitted' = [admitted EXCEPT ![p] = admitted[p] - 1] /\ admitted[p] \in Nat
        /\ admitted[p] > 0
        /\ currentInFlight' = currentInFlight - 1 /\ dropping' = dropping
    BY <1>1, <1>4 DEF L!Release
  <2>2. admitted' \in [L!Priority -> Nat]
    BY <1>1, <2>1
  <2>3. CASE p = "low"
    BY <1>1, <2>1, <2>2, <2>3, OneLess DEF LoadInv, L!Priority
  <2>4. CASE p = "normal"
    BY <1>1, <2>1, <2>2, <2>4, OneLess DEF LoadInv, L!Priority
  <2>5. CASE p = "critical"
    BY <1>1, <2>1, <2>2, <2>5, OneLess DEF LoadInv, L!Priority
  <2> QED BY <2>3, <2>4, <2>5 DEF L!Priority
<1>5. ASSUME NEW p \in L!Priority, L!Allow(p)
      PROVE  LoadInv'
  <2>1. currentInFlight' = currentInFlight + 1
    BY <1>5 DEF L!Allow
  <2>2. CASE currentInFlight' > L!Threshold(p)
    BY <1>1, <1>5, <2>1, <2>2, OneLess DEF L!Allow, LoadInv
  <2>3. CASE ~(currentInFlight' > L!Threshold(p))
    <3>1. admitted' = [admitted EXCEPT ![p] = admitted[p] + 1] /\ dropping' = dropping
      BY <1>5, <2>3 DEF L!Allow
    <3>2. admitted' \in [L!Priority -> Nat]
      BY <1>1, <3>1
    <3>3. L!Threshold(p) \in Int
      BY <1>1 DEF L!Threshold, L!Priority
    <3>4. currentInFlight + 1 \in Nat /\ currentInFlight + 1 <= L!Threshold(p)
      BY <1>1, <2>1, <2>3, <3>3
    <3>5. /\ currentInFlight + 1 <= MaxInFlight
          /\ p = "low" => 10 * (currentInFlight + 1) <= 7 * MaxInFlight
          /\ p = "normal" => 10 * (currentInFlight + 1) <= 9 * MaxInFlight
      BY <3>4, Thresholds
    <3>6. CASE p = "low"
      BY <1>1, <2>1, <3>1, <3>2, <3>5, <3>6, OneMore DEF LoadInv, L!Priority
    <3>7. CASE p = "normal"
      BY <1>1, <2>1, <3>1, <3>2, <3>5, <3>7, OneMore DEF LoadInv, L!Priority
    <3>8. CASE p = "critical"
      BY <1>1, <2>1, <3>1, <3>2, <3>5, <3>8, OneMore DEF LoadInv, L!Priority
    <3> QED BY <3>6, <3>7, <3>8 DEF L!Priority
  <2> QED BY <2>2, <2>3
<1>6. CASE UNCHANGED loadVars
  BY <1>6 DEF loadVars, LoadInv
<1> QED BY <1>3, <1>4, <1>5, <1>6 DEF L!LoadNext

\* The average moves towards the response time by a tenth.
EMAInv ==
  /\ currentEMA \in Nat /\ activeCount \in 0..MaxActive /\ active \subseteq Request
  /\ spikes \in Nat
  /\ spikes = 0 => ~degraded
  /\ L!SheddingSound

LEMMA ShedderCardinality ==
  ASSUME NEW X
  PROVE  /\ L!IsFiniteSet(X) <=> IsFiniteSet(X)
         /\ L!Cardinality(X) = Cardinality(X)
  BY DEF L!IsFiniteSet, IsFiniteSet, L!Cardinality, Cardinality

LEMMA EMAStep ==
  ASSUME L!ShedderParameters, EMAInv, [L!LatencyNext]_emaVars
  PROVE  EMAInv'
<1>1. /\ {MaxActive, Fast, Slow, TargetSLA} \subseteq Nat /\ Fast <= TargetSLA
  BY DEF L!ShedderParameters
<1>2. /\ IsFiniteSet(active) /\ activeCount = Cardinality(active) /\ activeCount \in 0..MaxActive
      /\ active \subseteq Request /\ currentEMA \in Nat /\ spikes \in Nat
      /\ spikes = 0 => ~degraded /\ currentEMA <= TargetSLA
  BY ShedderCardinality, FS_Subset DEF L!ShedderParameters, EMAInv, L!SheddingSound
<1>3. ASSUME NEW r \in Request, L!AllowBelowTarget(r)
      PROVE  EMAInv'
  <2>1. /\ r \notin active /\ active' = active \cup {r} /\ activeCount' = activeCount + 1
        /\ activeCount < MaxActive
        /\ UNCHANGED <<currentEMA, degraded, spikes>>
    BY <1>1, <1>2, <1>3 DEF L!AllowBelowTarget, L!Shed
  <2>2. Cardinality(active') = Cardinality(active) + 1
    BY <1>2, <2>1, FS_AddElement
  <2>3. activeCount' = L!Cardinality(active')
    BY <1>2, <2>1, <2>2, ShedderCardinality
  <2> QED BY <1>1, <1>2, <2>1, <2>3 DEF EMAInv, L!SheddingSound
<1>4. ASSUME NEW r \in Request, L!Done(r)
      PROVE  EMAInv'
  <2>1. /\ r \in active /\ active' = active \ {r} /\ activeCount' = activeCount - 1
        /\ UNCHANGED <<degraded, spikes>>
    BY <1>4 DEF L!Done
  <2>2. Cardinality(active') = Cardinality(active) - 1 /\ Cardinality(active') \in Nat
    BY <1>2, <2>1, FS_RemoveElement, FS_CardinalityType
  <2>3. activeCount' = L!Cardinality(active')
    BY <1>2, <2>1, <2>2, ShedderCardinality
  <2>4. \A n \in Nat : (n + 9 * currentEMA) \div 10 \in Nat
    BY <1>2
  <2>5. currentEMA' = ((IF degraded THEN Slow ELSE Fast) + 9 * currentEMA) \div 10
    BY <1>4 DEF L!Done
  <2>6. currentEMA' \in Nat
    BY <1>1, <2>4, <2>5
  <2>7. spikes = 0 => currentEMA' <= TargetSLA
    <3> SUFFICES ASSUME spikes = 0
                 PROVE  currentEMA' <= TargetSLA
      OBVIOUS
    <3>1. currentEMA' = (Fast + 9 * currentEMA) \div 10 /\ currentEMA <= TargetSLA
      BY <1>2, <2>5
    <3> QED BY <1>1, <1>2, <3>1
  <2> QED BY <1>1, <1>2, <2>1, <2>2, <2>3, <2>6, <2>7 DEF EMAInv, L!SheddingSound
<1>5. CASE L!Degrade
  <2>1. UNCHANGED <<currentEMA, activeCount, active>> /\ spikes' = spikes + 1
    BY <1>5 DEF L!Degrade
  <2>2. spikes' \in Nat /\ spikes' # 0
    BY <1>2, <2>1
  <2> QED BY <1>2, <2>1, <2>2 DEF EMAInv, L!SheddingSound
<1>6. CASE L!Recover
  BY <1>2, <1>6 DEF L!Recover, EMAInv, L!SheddingSound
<1>7. CASE UNCHANGED emaVars
  BY <1>7 DEF emaVars, EMAInv, L!SheddingSound
<1> QED BY <1>3, <1>4, <1>5, <1>6, <1>7 DEF L!LatencyNext

LEMMA ShedderInit ==
  ASSUME L!ShedderParameters, L!ShedderInit
  PROVE  LoadInv /\ EMAInv
<1>1. LoadInv
  BY DEF L!ShedderParameters, L!ShedderInit, L!Priority, LoadInv, Layered
<1>2. TargetSLA \div 2 \in Nat /\ TargetSLA \div 2 <= TargetSLA
  BY DEF L!ShedderParameters
<1>3. L!Cardinality(active) = 0 /\ active = {}
  BY ShedderCardinality, FS_EmptySet DEF L!ShedderInit
<1>4. EMAInv
  BY <1>2, <1>3 DEF L!ShedderParameters, L!ShedderInit, EMAInv, L!SheddingSound
<1> QED BY <1>1, <1>4

LEMMA ShedderImplies ==
  /\ LoadInv => L!LayeredAdmission
  /\ EMAInv => L!SheddingSound
<1>1. LoadInv => L!LayeredAdmission
  BY DEF LoadInv, Layered, L!LayeredAdmission, L!InProgress
<1> QED BY <1>1 DEF EMAInv

\* Allow and release, AllowBelowTarget and done: the counters are exact, each priority leaves
\* its share of the room to the others though a request adds itself before it compares, and
\* the average of a server that never degraded sheds nothing.
THEOREM ShedderSound ==
  ASSUME L!ShedderParameters
  PROVE  L!ShedderSpec => [](L!LayeredAdmission /\ L!SheddingSound)
<1>1. L!ShedderInit => LoadInv /\ EMAInv
  BY ShedderInit
<1>2. LoadInv /\ EMAInv /\ [L!LoadNext /\ UNCHANGED L!emaVars]_(L!shedderVars)
        => LoadInv' /\ EMAInv'
  BY LoadStep, EMAStep DEF loadVars, emaVars, L!loadVars, L!emaVars, L!shedderVars
<1>3. LoadInv /\ EMAInv /\ [L!LatencyNext /\ UNCHANGED L!loadVars]_(L!shedderVars)
        => LoadInv' /\ EMAInv'
  BY LoadStep, EMAStep DEF loadVars, emaVars, L!loadVars, L!emaVars, L!shedderVars
<1>4. LoadInv /\ EMAInv => L!LayeredAdmission /\ L!SheddingSound
  BY ShedderImplies
<1> QED BY <1>1, <1>2, <1>3, <1>4, PTL DEF L!ShedderSpec

-----------------------------------------------------------------------------
(* The tokens of the bulkheads. *)

Runners(ch) == {k \in Caller : using[k] = <<"runs", ch>>}

\* No call has a channel that is not yet registered.
TokenInv ==
  /\ registered \in [Dependency -> 0..MaxRegistrations]
  /\ slots \in [L!Channel -> Nat]
  /\ using \in [Caller -> {<<>>} \cup ({"looked", "runs"} \X L!Channel)]
  /\ \A k \in Caller : using[k] # <<>> => using[k][2][2] <= registered[using[k][2][1]]
  /\ \A ch \in L!Channel : ch[2] <= registered[ch[1]] =>
       slots[ch] + Cardinality(Runners(ch)) = MaxConcurrency

LEMMA TokenCardinality ==
  ASSUME NEW X
  PROVE  /\ L!IsFiniteSet(X) <=> IsFiniteSet(X)
         /\ L!Cardinality(X) = Cardinality(X)
  BY DEF L!IsFiniteSet, IsFiniteSet, L!Cardinality, Cardinality

\* Counting calls.
LEMMA RunnersFinite ==
  ASSUME L!BulkheadParameters, NEW ch
  PROVE  IsFiniteSet(Runners(ch)) /\ Cardinality(Runners(ch)) \in Nat
<1>1. IsFiniteSet(Caller)
  BY TokenCardinality DEF L!BulkheadParameters
<1> QED BY <1>1, FS_Subset, FS_CardinalityType DEF Runners

\* A call that begins to run is one runner more,
LEMMA RunnerComes ==
  ASSUME L!BulkheadParameters, NEW k \in Caller, NEW v, NEW ch,
         DOMAIN using = Caller, using' = [using EXCEPT ![k] = v],
         using[k] # <<"runs", ch>>, v = <<"runs", ch>>
  PROVE  Cardinality(Runners(ch)') = Cardinality(Runners(ch)) + 1
<1>1. Runners(ch)' = Runners(ch) \cup {k} /\ k \notin Runners(ch)
  BY DEF Runners
<1> QED BY <1>1, RunnersFinite, FS_AddElement

\* one that ends is one less,
LEMMA RunnerGoes ==
  ASSUME L!BulkheadParameters, NEW k \in Caller, NEW v, NEW ch,
         DOMAIN using = Caller, using' = [using EXCEPT ![k] = v],
         using[k] = <<"runs", ch>>, v # <<"runs", ch>>
  PROVE  Cardinality(Runners(ch)') = Cardinality(Runners(ch)) - 1
<1>1. Runners(ch)' = Runners(ch) \ {k} /\ k \in Runners(ch)
  BY DEF Runners
<1> QED BY <1>1, RunnersFinite, FS_RemoveElement

\* and any other leaves the runners of the channel as they are.
LEMMA RunnersStay ==
  ASSUME NEW k \in Caller, NEW v, NEW ch,
         DOMAIN using = Caller, using' = [using EXCEPT ![k] = v],
         using[k] # <<"runs", ch>>, v # <<"runs", ch>>
  PROVE  Runners(ch)' = Runners(ch)
BY DEF Runners

\* A call with a channel has looked its token up or runs with one.
LEMMA CallHasChannel ==
  ASSUME TokenInv, NEW k \in Caller, using[k] # <<>>
  PROVE  \E tag \in {"looked", "runs"}, ch \in L!Channel :
           /\ using[k] = <<tag, ch>> /\ using[k][1] = tag /\ using[k][2] = ch
           /\ ch[2] <= registered[ch[1]]
<1>1. using[k] \in {"looked", "runs"} \X L!Channel
  BY DEF TokenInv
<1>2. using[k][2][2] <= registered[using[k][2][1]]
  BY DEF TokenInv
<1>3. PICK tag \in {"looked", "runs"}, ch \in L!Channel : using[k] = <<tag, ch>>
  BY <1>1
<1>4. using[k][1] = tag /\ using[k][2] = ch
  BY <1>3
<1>5. ch[2] <= registered[ch[1]]
  BY <1>2, <1>4
<1> QED BY <1>3, <1>4, <1>5

\* Register: a channel that no call has yet.
LEMMA TokenRegister ==
  ASSUME L!BulkheadParameters, TokenInv, NEW d \in Dependency, L!Register(d)
  PROVE  TokenInv'
<1> DEFINE new == <<d, registered[d] + 1>>
<1>1. /\ registered[d] \in Nat /\ registered[d] + 1 \in 1..MaxRegistrations
      /\ registered' = [registered EXCEPT ![d] = registered[d] + 1]
      /\ registered' \in [Dependency -> 0..MaxRegistrations]
      /\ MaxConcurrency \in Nat
  BY DEF TokenInv, L!Register, L!BulkheadParameters
<1>2. new \in L!Channel /\ new[1] = d /\ new[2] = registered[d] + 1
  BY <1>1 DEF L!Channel
<1>3. slots' = [slots EXCEPT ![new] = MaxConcurrency] /\ using' = using
  <2>1. registered'[d] = registered[d] + 1
    BY <1>1 DEF TokenInv
  <2> QED BY <2>1 DEF L!Register
<1> HIDE DEF new
<1>4. \A e \in Dependency : registered[e] \in Nat /\ registered'[e] \in Nat /\ registered[e] <= registered'[e]
                            /\ (e # d => registered'[e] = registered[e])
  BY <1>1 DEF TokenInv
<1>5. \A ch \in L!Channel : ch[1] \in Dependency /\ ch[2] \in Nat /\ ch = <<ch[1], ch[2]>>
  BY DEF L!Channel
<1>6. \A k \in Caller : using'[k] # <<>> => using'[k][2][2] <= registered'[using'[k][2][1]]
  <2> SUFFICES ASSUME NEW k \in Caller, using[k] # <<>>
               PROVE  using[k][2][2] <= registered'[using[k][2][1]]
    BY <1>3
  <2>1. PICK tag \in {"looked", "runs"}, ch \in L!Channel :
          using[k][2] = ch /\ ch[2] <= registered[ch[1]]
    BY CallHasChannel
  <2> QED BY <1>4, <1>5, <2>1
<1>7. Runners(new) = {} /\ Cardinality(Runners(new)) = 0
  <2>1. ASSUME NEW k \in Caller, using[k] = <<"runs", new>>
        PROVE  FALSE
    <3>1. PICK tag \in {"looked", "runs"}, ch \in L!Channel :
            using[k] = <<tag, ch>> /\ ch[2] <= registered[ch[1]]
      BY <2>1, CallHasChannel
    <3>2. ch = new
      BY <2>1, <3>1
    <3> QED BY <1>1, <1>2, <3>1, <3>2
  <2>2. Runners(new) = {}
    BY <2>1 DEF Runners
  <2> QED BY <2>2, FS_EmptySet
<1>8. ASSUME NEW ch \in L!Channel, ch[2] <= registered'[ch[1]]
      PROVE  slots'[ch] + Cardinality(Runners(ch)') = MaxConcurrency
  <2>1. Runners(ch)' = Runners(ch)
    BY <1>3 DEF Runners
  <2>2. CASE ch = new
    <3>1. Cardinality(Runners(ch)') = 0
      BY <1>7, <2>1, <2>2
    <3>2. slots'[ch] = MaxConcurrency
      BY <1>2, <1>3, <2>2 DEF TokenInv
    <3> QED BY <1>1, <3>1, <3>2
  <2>3. CASE ch # new
    <3>1. ch[2] <= registered[ch[1]]
      <4>1. CASE ch[1] = d
        <5>1. ch[2] # registered[d] + 1
          BY <1>5, <2>3, <4>1 DEF new
        <5>2. registered'[d] = registered[d] + 1
          BY <1>1 DEF TokenInv
        <5> QED BY <1>1, <1>5, <1>8, <4>1, <5>1, <5>2
      <4>2. CASE ch[1] # d
        BY <1>4, <1>5, <1>8, <4>2
      <4> QED BY <4>1, <4>2
    <3>2. slots'[ch] = slots[ch]
      BY <1>3, <2>3 DEF TokenInv
    <3>3. slots[ch] + Cardinality(Runners(ch)) = MaxConcurrency
      BY <3>1 DEF TokenInv
    <3> QED BY <2>1, <3>2, <3>3
  <2> QED BY <2>2, <2>3
<1>9. slots' \in [L!Channel -> Nat]
  BY <1>1, <1>3 DEF TokenInv
<1> QED BY <1>1, <1>3, <1>6, <1>8, <1>9 DEF TokenInv

\* A call looks its channel up, takes a token of it, returns the token to it.
LEMMA TokenCall ==
  ASSUME L!BulkheadParameters, TokenInv, NEW k \in Caller, UNCHANGED registered,
         L!AcquireToken(k) \/ L!Finished(k) \/ \E d \in Dependency : L!Lookup(k, d)
  PROVE  TokenInv'
<1>1. /\ using \in [Caller -> {<<>>} \cup ({"looked", "runs"} \X L!Channel)]
      /\ slots \in [L!Channel -> Nat] /\ MaxConcurrency \in Nat
  BY DEF TokenInv, L!BulkheadParameters
<1>2. ASSUME NEW v \in {<<>>} \cup ({"looked", "runs"} \X L!Channel),
             using' = [using EXCEPT ![k] = v],
             v # <<>> => v[2][2] <= registered[v[2][1]]
      PROVE  /\ using' \in [Caller -> {<<>>} \cup ({"looked", "runs"} \X L!Channel)]
             /\ \A m \in Caller :
                  using'[m] # <<>> => using'[m][2][2] <= registered'[using'[m][2][1]]
  <2>1. \A m \in Caller : using'[m] = IF m = k THEN v ELSE using[m]
    BY <1>1, <1>2
  <2>2. \A m \in Caller : using[m] # <<>> => using[m][2][2] <= registered[using[m][2][1]]
    BY DEF TokenInv
  <2> QED BY <1>1, <1>2, <2>1, <2>2
<1>3. ASSUME NEW v \in {<<>>} \cup ({"looked", "runs"} \X L!Channel),
             using' = [using EXCEPT ![k] = v], slots' = slots,
             v # <<>> => v[2][2] <= registered[v[2][1]],
             \A ch \in L!Channel : v # <<"runs", ch>> /\ using[k] # <<"runs", ch>>
      PROVE  TokenInv'
  <2>1. \A ch \in L!Channel : Runners(ch)' = Runners(ch)
    BY <1>1, <1>3, RunnersStay
  <2> QED BY <1>2, <1>3, <2>1 DEF TokenInv
<1>4. ASSUME NEW d \in Dependency, L!Lookup(k, d)
      PROVE  TokenInv'
  <2> DEFINE v == <<"looked", <<d, registered[d]>> >>
  <2>1. /\ using' = [using EXCEPT ![k] = v] /\ using[k] = <<>> /\ slots' = slots
        /\ registered[d] > 0 /\ registered[d] \in 0..MaxRegistrations
    BY <1>4 DEF L!Lookup, TokenInv
  <2>2. <<d, registered[d]>> \in L!Channel
    BY <2>1 DEF L!Channel
  <2>3. /\ v \in {"looked", "runs"} \X L!Channel /\ v[2][2] <= registered[v[2][1]]
        /\ \A ch \in L!Channel : v # <<"runs", ch>> /\ using[k] # <<"runs", ch>>
    BY <2>1, <2>2
  <2> HIDE DEF v
  <2> QED BY <1>3, <2>1, <2>3
<1>5. CASE L!AcquireToken(k)
  <2>1. PICK tag \in {"looked", "runs"}, c0 \in L!Channel :
          /\ using[k] = <<tag, c0>> /\ using[k][1] = tag /\ using[k][2] = c0
          /\ c0[2] <= registered[c0[1]]
    BY <1>5, CallHasChannel DEF L!AcquireToken
  <2>2. tag = "looked" /\ using[k] = <<"looked", c0>>
    BY <1>5, <2>1 DEF L!AcquireToken
  <2> DEFINE v == <<"runs", c0>>
  <2>5. /\ v \in {"looked", "runs"} \X L!Channel /\ v[2][2] <= registered[v[2][1]]
        /\ \A ch \in L!Channel : using[k] # <<"runs", ch>> /\ (v = <<"runs", ch>> <=> ch = c0)
    BY <2>1, <2>2
  <2>3. CASE /\ slots[c0] > 0 /\ slots' = [slots EXCEPT ![c0] = slots[c0] - 1]
             /\ using' = [using EXCEPT ![k] = <<"runs", c0>>]
    <3>1. slots' \in [L!Channel -> Nat]
      BY <1>1, <2>3
    <3>0. using' = [using EXCEPT ![k] = v]
      BY <2>3
    <3> HIDE DEF v
    <3>4. /\ k \in Caller /\ using' = [using EXCEPT ![k] = v]
          /\ DOMAIN using = Caller
      BY <1>1, <3>0
    <3>2. ASSUME NEW ch \in L!Channel, ch[2] <= registered'[ch[1]]
          PROVE  slots'[ch] + Cardinality(Runners(ch)') = MaxConcurrency
      <4>1. slots[ch] + Cardinality(Runners(ch)) = MaxConcurrency /\ slots[ch] \in Nat
        BY <1>1, <3>2 DEF TokenInv
      <4>2. CASE ch = c0
        <5>1. /\ Cardinality(Runners(ch)') = Cardinality(Runners(ch)) + 1
              /\ Cardinality(Runners(ch)) \in Nat
          <6>1. using[k] # <<"runs", ch>> /\ v = <<"runs", ch>>
            BY <2>5, <4>2
          <6> QED BY <3>4, <6>1, RunnersFinite, RunnerComes
        <5> QED BY <1>1, <2>3, <4>1, <4>2, <5>1
      <4>3. CASE ch # c0
        <5>1. Runners(ch)' = Runners(ch)
          <6>1. using[k] # <<"runs", ch>> /\ v # <<"runs", ch>>
            BY <2>5, <4>3
          <6> QED BY <3>4, <6>1, RunnersStay
        <5> QED BY <1>1, <2>3, <4>1, <4>3, <5>1
      <4> QED BY <4>2, <4>3
    <3>3. /\ using' \in [Caller -> {<<>>} \cup ({"looked", "runs"} \X L!Channel)]
          /\ \A m \in Caller :
               using'[m] # <<>> => using'[m][2][2] <= registered'[using'[m][2][1]]
      BY <1>2, <2>5, <3>0
    <3> QED BY <3>1, <3>2, <3>3 DEF TokenInv
  <2>4. CASE slots' = slots /\ using' = [using EXCEPT ![k] = <<>>]
    <3> DEFINE none == <<>>
    <3>1. /\ none \in {<<>>} \cup ({"looked", "runs"} \X L!Channel) /\ ~(none # <<>>)
          /\ \A ch \in L!Channel : none # <<"runs", ch>> /\ using[k] # <<"runs", ch>>
      BY <2>2
    <3>2. using' = [using EXCEPT ![k] = none]
      BY <2>4
    <3> HIDE DEF none
    <3> QED BY <1>3, <2>4, <3>1, <3>2
  <2> QED BY <1>5, <2>1, <2>3, <2>4 DEF L!AcquireToken
<1>6. CASE L!Finished(k)
  <2>1. PICK tag \in {"looked", "runs"}, c0 \in L!Channel :
          /\ using[k] = <<tag, c0>> /\ using[k][1] = tag /\ using[k][2] = c0
          /\ c0[2] <= registered[c0[1]]
    BY <1>6, CallHasChannel DEF L!Finished
  <2>2. /\ using[k] = <<"runs", c0>> /\ slots' = [slots EXCEPT ![c0] = slots[c0] + 1]
        /\ using' = [using EXCEPT ![k] = <<>>]
    BY <1>6, <2>1 DEF L!Finished, L!ReturnTo
  <2> DEFINE v == <<>>
  <2>6. /\ v \in {<<>>} \cup ({"looked", "runs"} \X L!Channel) /\ ~(v # <<>>)
        /\ using' = [using EXCEPT ![k] = v]
        /\ \A ch \in L!Channel : v # <<"runs", ch>> /\ (using[k] = <<"runs", ch>> <=> ch = c0)
    BY <2>2
  <2> HIDE DEF v
  <2>7. /\ k \in Caller /\ using' = [using EXCEPT ![k] = v]
        /\ DOMAIN using = Caller
    BY <1>1, <2>6
  <2>3. slots' \in [L!Channel -> Nat]
    BY <1>1, <2>2
  <2>4. ASSUME NEW ch \in L!Channel, ch[2] <= registered'[ch[1]]
        PROVE  slots'[ch] + Cardinality(Runners(ch)') = MaxConcurrency
    <3>1. slots[ch] + Cardinality(Runners(ch)) = MaxConcurrency /\ slots[ch] \in Nat
      BY <1>1, <2>4 DEF TokenInv
    <3>2. CASE ch = c0
      <4>1. /\ Cardinality(Runners(ch)') = Cardinality(Runners(ch)) - 1
            /\ Cardinality(Runners(ch)) \in Nat
        <5>1. using[k] = <<"runs", ch>> /\ v # <<"runs", ch>>
          BY <2>6, <3>2
        <5> QED BY <2>7, <5>1, RunnersFinite, RunnerGoes
      <4> QED BY <1>1, <2>2, <3>1, <3>2, <4>1
    <3>3. CASE ch # c0
      <4>1. Runners(ch)' = Runners(ch)
        <5>1. using[k] # <<"runs", ch>> /\ v # <<"runs", ch>>
          BY <2>6, <3>3
        <5> QED BY <2>7, <5>1, RunnersStay
      <4> QED BY <1>1, <2>2, <3>1, <3>3, <4>1
    <3> QED BY <3>2, <3>3
  <2>5. /\ using' \in [Caller -> {<<>>} \cup ({"looked", "runs"} \X L!Channel)]
        /\ \A m \in Caller :
             using'[m] # <<>> => using'[m][2][2] <= registered'[using'[m][2][1]]
    BY <1>2, <2>6
  <2> QED BY <2>3, <2>4, <2>5 DEF TokenInv
<1> QED BY <1>4, <1>5, <1>6

\* It begins true, and each step keeps it.
LEMMA TokenInit ==
  ASSUME L!BulkheadParameters, L!BulkheadInit
  PROVE  TokenInv
<1>1. \A ch \in L!Channel : ~(ch[2] <= registered[ch[1]])
  BY DEF L!BulkheadInit, L!Channel, L!BulkheadParameters
<1> QED BY <1>1 DEF L!BulkheadInit, TokenInv, L!BulkheadParameters

LEMMA TokenStep ==
  ASSUME L!BulkheadParameters, TokenInv, [L!TokenNext]_tokenVars
  PROVE  TokenInv'
<1>1. CASE UNCHANGED tokenVars
  <2>1. UNCHANGED <<registered, slots, using>> /\ \A ch : Runners(ch)' = Runners(ch)
    BY <1>1 DEF tokenVars, Runners
  <2> QED BY <2>1 DEF TokenInv
<1>2. ASSUME NEW d \in Dependency, L!Register(d)
      PROVE  TokenInv'
  BY <1>2, TokenRegister
<1>3. ASSUME NEW k \in Caller, L!AcquireToken(k) \/ L!Finished(k) \/ \E d \in Dependency : L!Lookup(k, d)
      PROVE  TokenInv'
  <2>1. UNCHANGED registered
    BY <1>3 DEF L!AcquireToken, L!Finished, L!Lookup
  <2> QED BY <1>3, <2>1, TokenCall
<1> QED BY <1>1, <1>2, <1>3 DEF L!TokenNext

LEMMA TokenImplies ==
  ASSUME TokenInv
  PROVE  L!TokensConserved
<1>1. \A ch \in L!Channel :
        L!Cardinality({k \in Caller : using[k] = <<"runs", ch>>}) = Cardinality(Runners(ch))
  BY TokenCardinality DEF Runners
<1> QED BY <1>1 DEF TokenInv, L!TokensConserved

LEMMA ExcessImplied ==
  ASSUME L!BulkheadParameters, TokenInv
  PROVE  L!ExcessIsStale
<1> SUFFICES ASSUME NEW d \in Dependency
             PROVE  L!Cardinality({k \in L!Running(d) : using[k][2][2] = registered[d]})
                      <= MaxConcurrency
  BY DEF L!ExcessIsStale
<1> DEFINE ch == <<d, registered[d]>>
           current == {k \in L!Running(d) : using[k][2][2] = registered[d]}
<1>1. current \subseteq Runners(ch)
  BY DEF L!Running, Runners
<1>2. /\ IsFiniteSet(Runners(ch)) /\ Cardinality(Runners(ch)) \in Nat
      /\ IsFiniteSet(current) /\ Cardinality(current) \in Nat
      /\ Cardinality(current) <= Cardinality(Runners(ch))
  <2>1. IsFiniteSet(Caller) /\ Runners(ch) \subseteq Caller
    BY TokenCardinality DEF L!BulkheadParameters, Runners
  <2> HIDE DEF ch, current
  <2> QED BY <1>1, <2>1, FS_Subset, FS_CardinalityType
<1>3. MaxConcurrency \in Nat
  BY DEF L!BulkheadParameters
<1>4. CASE current = {}
  <2>1. Cardinality(current) = 0
    BY <1>4, FS_EmptySet
  <2> QED BY <1>3, <2>1, TokenCardinality
<1>5. CASE current # {}
  <2>1. PICK k \in current : TRUE
    BY <1>5
  <2>2. registered[d] \in 1..MaxRegistrations
    BY <2>1 DEF L!Running
  <2>3. ch \in L!Channel /\ ch[1] = d /\ ch[2] = registered[d]
    BY <2>2 DEF L!Channel
  <2>4. slots[ch] + Cardinality(Runners(ch)) = MaxConcurrency /\ slots[ch] \in Nat
    BY <2>2, <2>3 DEF TokenInv
  <2> HIDE DEF ch, current
  <2>5. Cardinality(current) <= MaxConcurrency
    BY <1>2, <1>3, <2>4
  <2> QED BY <2>5, TokenCardinality DEF current
<1> QED BY <1>4, <1>5

\* Execute and Call, RegisterPartition and RegisterDependency: the tokens of each channel and
\* its calls make up its limit, through registrations while calls are in flight, and a
\* dependency exceeds its limit only by calls from before its latest registration.
THEOREM TokensConservedHolds ==
  ASSUME L!BulkheadParameters
  PROVE  L!BulkheadSpec => [](L!TokensConserved /\ L!ExcessIsStale)
<1>1. L!BulkheadInit => TokenInv
  BY TokenInit
<1>2. TokenInv /\ [L!TokenNext /\ UNCHANGED L!bulkheadVars]_<<L!bulkheadVars, L!tokenVars>> => TokenInv'
  BY TokenStep DEF tokenVars, L!tokenVars
<1>3. TokenInv /\ [L!WorkloadNext /\ UNCHANGED L!tokenVars]_<<L!bulkheadVars, L!tokenVars>> => TokenInv'
  BY TokenStep DEF tokenVars, L!tokenVars
<1>4. TokenInv => L!TokensConserved /\ L!ExcessIsStale
  BY TokenImplies, ExcessImplied
<1> QED BY <1>1, <1>2, <1>3, <1>4, PTL DEF L!BulkheadSpec

\* The room of a channel that is not registered yet is untouched.
Roomy == \A ch \in L!Channel : slots[ch] <= MaxConcurrency

LEMMA RoomyStep ==
  ASSUME L!BulkheadParameters, TokenInv, TokenInv', Roomy, [L!TokenNext]_tokenVars
  PROVE  Roomy'
<1> SUFFICES ASSUME NEW ch \in L!Channel
             PROVE  slots'[ch] <= MaxConcurrency
  BY DEF Roomy
<1>1. CASE ch[2] <= registered'[ch[1]]
  <2>1. slots'[ch] + Cardinality(Runners(ch)') = MaxConcurrency
    BY <1>1 DEF TokenInv
  <2>2. Cardinality(Runners(ch)') \in Nat
    <3>1. IsFiniteSet(Caller) /\ Runners(ch)' \subseteq Caller
      BY TokenCardinality DEF L!BulkheadParameters, Runners
    <3> QED BY <3>1, FS_Subset, FS_CardinalityType
  <2>3. slots'[ch] \in Nat /\ MaxConcurrency \in Nat
    BY DEF TokenInv, L!BulkheadParameters
  <2> QED BY <2>1, <2>2, <2>3
<1>2. CASE ~(ch[2] <= registered'[ch[1]])
  <2> SUFFICES slots'[ch] = slots[ch]
    BY DEF Roomy
  <2>1. CASE UNCHANGED tokenVars
    BY <2>1 DEF tokenVars
  <2>2. ASSUME NEW d \in Dependency, L!Register(d)
        PROVE  slots'[ch] = slots[ch]
    <3>1. /\ slots' = [slots EXCEPT ![<<d, registered'[d]>>] = MaxConcurrency]
          /\ registered'[d] \in Nat
      BY <2>2 DEF L!Register, TokenInv
    <3>2. ch # <<d, registered'[d]>>
      BY <1>2, <3>1
    <3> QED BY <3>1, <3>2 DEF TokenInv
  <2>3. ASSUME NEW k \in Caller,
               L!AcquireToken(k) \/ L!Finished(k) \/ \E d \in Dependency : L!Lookup(k, d)
        PROVE  slots'[ch] = slots[ch]
    <3>1. UNCHANGED registered
      BY <2>3 DEF L!AcquireToken, L!Finished, L!Lookup
    <3>2. CASE using[k] = <<>>
      BY <2>3, <3>2 DEF L!AcquireToken, L!Finished, L!Lookup
    <3>3. CASE using[k] # <<>>
      <4>1. using[k][2][2] <= registered[using[k][2][1]]
        BY <3>3 DEF TokenInv
      <4>2. ch # using[k][2]
        BY <1>2, <3>1, <4>1
      <4> QED BY <2>3, <4>2 DEF L!AcquireToken, L!Finished, L!Lookup, L!ReturnTo, TokenInv
    <3> QED BY <3>2, <3>3
  <2> QED BY <2>1, <2>2, <2>3 DEF L!TokenNext
<1> QED BY <1>1, <1>2

-----------------------------------------------------------------------------
(* The queues and workers of the bulkheads. *)

\* A job is queued once, and not after it was started.
JobInv ==
  /\ queues \in [Workload -> Seq(accepted)] /\ \A t \in Workload : Len(queues[t]) <= QueueSize
  /\ worker \in [L!AllWorkers -> L!AllJobs \cup {"waiting", "returned"}]
  /\ cancelled \in BOOLEAN /\ accepted \subseteq L!AllJobs
  /\ runs \in [L!AllJobs -> 0..1]
  /\ \A t, u \in Workload : \A i \in 1..Len(queues[t]), j \in 1..Len(queues[u]) :
       queues[t][i] = queues[u][j] => t = u /\ i = j
  /\ \A t \in Workload : \A i \in 1..Len(queues[t]) : runs[queues[t][i]] = 0
  /\ \A j \in L!AllJobs \ accepted : runs[j] = 0

\* Dispatch queues a job that was not accepted before,
LEMMA JobDispatched ==
  ASSUME L!BulkheadParameters, JobInv, NEW t \in Workload, NEW j \in Job[t], L!Dispatch(t, j)
  PROVE  JobInv'
<1>1. /\ j \in L!AllJobs /\ j \notin accepted /\ Len(queues[t]) < QueueSize /\ QueueSize \in Nat
      /\ queues' = [queues EXCEPT ![t] = Append(queues[t], j)] /\ accepted' = accepted \cup {j}
      /\ UNCHANGED <<worker, cancelled, runs>>
  BY DEF L!Dispatch, L!QueueOf, L!AllJobs, L!BulkheadParameters
<1>2. queues \in [Workload -> Seq(accepted)]
  BY DEF JobInv
<1>3. queues[t] \in Seq(accepted) /\ Len(queues[t]) \in Nat
  BY <1>2
<1>4. /\ \A u \in Workload : queues[u] \in Seq(accepted')
      /\ \A u \in Workload : \A i \in 1..Len(queues[u]) : queues[u][i] \in accepted
  <2>1. accepted \subseteq accepted'
    BY <1>1
  <2> QED BY <1>2, <2>1, SeqMonotonic, ElementOfSeq
<1>5. /\ queues'[t] = Append(queues[t], j) /\ queues'[t] \in Seq(accepted')
      /\ Len(queues'[t]) = Len(queues[t]) + 1
      /\ queues'[t][Len(queues[t]) + 1] = j
      /\ \A i \in 1..Len(queues[t]) : queues'[t][i] = queues[t][i]
      /\ \A u \in Workload \ {t} : queues'[u] = queues[u]
  <2>1. j \in accepted' /\ queues[t] \in Seq(accepted')
    BY <1>1, <1>4
  <2>2. queues'[t] = Append(queues[t], j) /\ \A u \in Workload \ {t} : queues'[u] = queues[u]
    BY <1>1, <1>2
  <2> QED BY <1>3, <2>1, <2>2, AppendProperties
<1>6. queues' \in [Workload -> Seq(accepted')]
  BY <1>1, <1>2, <1>4, <1>5
<1>7. \A u \in Workload : \A i \in 1..Len(queues'[u]) :
        \/ i \in 1..Len(queues[u]) /\ queues'[u][i] = queues[u][i] /\ queues[u][i] # j
           /\ queues[u][i] \in accepted
        \/ u = t /\ i = Len(queues[t]) + 1 /\ queues'[u][i] = j
  <2> SUFFICES ASSUME NEW u \in Workload, NEW i \in 1..Len(queues'[u])
               PROVE  \/ i \in 1..Len(queues[u]) /\ queues'[u][i] = queues[u][i] /\ queues[u][i] # j
                         /\ queues[u][i] \in accepted
                      \/ u = t /\ i = Len(queues[t]) + 1 /\ queues'[u][i] = j
    OBVIOUS
  <2>1. CASE u = t
    <3>1. i \in 1..Len(queues[t]) \/ i = Len(queues[t]) + 1
      BY <1>3, <1>5, <2>1
    <3> QED BY <1>1, <1>4, <1>5, <2>1, <3>1
  <2>2. CASE u # t
    BY <1>1, <1>4, <1>5, <2>2
  <2> QED BY <2>1, <2>2
<1>8. \A u, v \in Workload : \A i \in 1..Len(queues'[u]), m \in 1..Len(queues'[v]) :
        queues'[u][i] = queues'[v][m] => u = v /\ i = m
  <2> SUFFICES ASSUME NEW u \in Workload, NEW v \in Workload, NEW i \in 1..Len(queues'[u]),
                      NEW m \in 1..Len(queues'[v]), queues'[u][i] = queues'[v][m]
               PROVE  u = v /\ i = m
    OBVIOUS
  <2>1. \A x, y \in Workload : \A a1 \in 1..Len(queues[x]), a2 \in 1..Len(queues[y]) :
          queues[x][a1] = queues[y][a2] => x = y /\ a1 = a2
    BY DEF JobInv
  <2>2. CASE i \in 1..Len(queues[u]) /\ queues'[u][i] = queues[u][i] /\ queues[u][i] # j
    <3>1. m \in 1..Len(queues[v]) /\ queues'[v][m] = queues[v][m]
      <4>1. queues'[v][m] # j
        BY <2>2
      <4>2. \/ m \in 1..Len(queues[v]) /\ queues'[v][m] = queues[v][m]
            \/ queues'[v][m] = j
        BY <1>7, Zenon
      <4> QED BY <4>1, <4>2
    <3>2. queues[u][i] = queues[v][m] /\ i \in 1..Len(queues[u])
      BY <2>2, <3>1
    <3>3. \A a1 \in 1..Len(queues[u]), a2 \in 1..Len(queues[v]) :
            queues[u][a1] = queues[v][a2] => u = v /\ a1 = a2
      BY <2>1, Zenon
    <3> QED BY <3>1, <3>2, <3>3
  <2>3. CASE u = t /\ i = Len(queues[t]) + 1 /\ queues'[u][i] = j
    <3>1. v = t /\ m = Len(queues[t]) + 1
      BY <1>7, <2>3
    <3> QED BY <2>3, <3>1
  <2> QED BY <1>7, <2>2, <2>3
<1>9. \A u \in Workload : Len(queues'[u]) <= QueueSize
  BY <1>1, <1>3, <1>5 DEF JobInv
<1>10. \A u \in Workload : \A i \in 1..Len(queues'[u]) : runs'[queues'[u][i]] = 0
  BY <1>1, <1>7 DEF JobInv
<1> QED BY <1>1, <1>6, <1>8, <1>9, <1>10 DEF JobInv

\* and a worker takes one out and starts it.
LEMMA JobReceived ==
  ASSUME L!BulkheadParameters, JobInv, NEW t \in Workload, NEW k \in Worker[t], L!ReceiveJob(t, k)
  PROVE  JobInv'
<1> DEFINE h == Head(queues[t])
<1>1. /\ queues' = [queues EXCEPT ![t] = Tail(queues[t])] /\ queues[t] # <<>>
      /\ worker' = [worker EXCEPT ![k] = h] /\ runs' = [runs EXCEPT ![h] = runs[h] + 1]
      /\ UNCHANGED <<cancelled, accepted>>
  BY DEF L!ReceiveJob, L!QueueOf
<1>2. queues \in [Workload -> Seq(accepted)] /\ queues[t] \in Seq(accepted)
  BY DEF JobInv
<1>3. /\ Len(queues[t]) \in Nat \ {0} /\ h = queues[t][1] /\ h \in accepted /\ h \in L!AllJobs
      /\ runs[h] = 0 /\ 1 \in 1..Len(queues[t])
  <2>1. Len(queues[t]) \in Nat \ {0} /\ h = queues[t][1] /\ h \in accepted
    BY <1>1, <1>2
  <2>2. 1 \in 1..Len(queues[t])
    BY <2>1
  <2> QED BY <2>1, <2>2 DEF JobInv
<1>4. /\ Tail(queues[t]) \in Seq(accepted) /\ Len(Tail(queues[t])) = Len(queues[t]) - 1
      /\ \A i \in 1..Len(Tail(queues[t])) : Tail(queues[t])[i] = queues[t][i + 1]
                                           /\ i + 1 \in 1..Len(queues[t]) /\ i + 1 # 1
  BY <1>1, <1>2, <1>3
<1>5. queues'[t] = Tail(queues[t]) /\ \A u \in Workload \ {t} : queues'[u] = queues[u]
  BY <1>1, <1>2
<1>6. queues' \in [Workload -> Seq(accepted')]
  BY <1>1, <1>2, <1>4
<1>7. \A u \in Workload : Len(queues'[u]) <= QueueSize
  <2>1. QueueSize \in Nat /\ \A u \in Workload : Len(queues[u]) <= QueueSize
    BY DEF JobInv, L!BulkheadParameters
  <2>2. Len(queues'[t]) <= QueueSize
    BY <1>3, <1>4, <1>5, <2>1
  <2> QED BY <1>5, <2>1, <2>2
<1>8. ASSUME NEW u \in Workload, NEW i \in 1..Len(queues'[u])
      PROVE  \E m \in 1..Len(queues[u]) :
               /\ queues'[u][i] = queues[u][m] /\ m = IF u = t THEN i + 1 ELSE i
               /\ queues[u][m] # h
  <2>1. CASE u = t
    <3>1. /\ queues'[u][i] = queues[t][i + 1] /\ i + 1 \in 1..Len(queues[t]) /\ i + 1 # 1
      BY <1>4, <1>5, <1>8, <2>1
    <3>2. queues[t][i + 1] # h
      BY <1>3, <3>1 DEF JobInv
    <3> QED BY <2>1, <3>1, <3>2
  <2>2. CASE u # t
    <3>1. queues'[u] = queues[u] /\ queues[u][i] # h
      BY <1>3, <1>5, <1>8, <2>2 DEF JobInv
    <3> QED BY <1>8, <2>2, <3>1
  <2> QED BY <2>1, <2>2
<1>9. ASSUME NEW u \in Workload, NEW v \in Workload, NEW i \in 1..Len(queues'[u]),
             NEW n \in 1..Len(queues'[v]), queues'[u][i] = queues'[v][n]
      PROVE  u = v /\ i = n
  <2>1. PICK m \in 1..Len(queues[u]) :
          queues'[u][i] = queues[u][m] /\ m = IF u = t THEN i + 1 ELSE i
    BY <1>8
  <2>2. PICK w \in 1..Len(queues[v]) :
          queues'[v][n] = queues[v][w] /\ w = IF v = t THEN n + 1 ELSE n
    BY <1>8
  <2>3. u = v /\ m = w
    <3>1. \A x, y \in Workload : \A a1 \in 1..Len(queues[x]), a2 \in 1..Len(queues[y]) :
            queues[x][a1] = queues[y][a2] => x = y /\ a1 = a2
      BY DEF JobInv
    <3>2. queues[u][m] = queues[v][w]
      BY <1>9, <2>1, <2>2
    <3> QED BY <3>1, <3>2, Zenon
  <2>4. i \in Int /\ n \in Int
    OBVIOUS
  <2> QED BY <2>1, <2>2, <2>3, <2>4
<1>10. /\ runs' \in [L!AllJobs -> 0..1]
       /\ \A j \in L!AllJobs : j # h => runs'[j] = runs[j]
  BY <1>1, <1>3 DEF JobInv
<1>11. \A u \in Workload : \A i \in 1..Len(queues'[u]) : runs'[queues'[u][i]] = 0
  <2> SUFFICES ASSUME NEW u \in Workload, NEW i \in 1..Len(queues'[u])
               PROVE  runs'[queues'[u][i]] = 0
    OBVIOUS
  <2>1. PICK m \in 1..Len(queues[u]) : queues'[u][i] = queues[u][m] /\ queues[u][m] # h
    BY <1>8
  <2>2. queues[u][m] \in L!AllJobs /\ runs[queues[u][m]] = 0
    BY ElementOfSeq DEF JobInv
  <2> QED BY <1>10, <2>1, <2>2
<1>12. \A j \in L!AllJobs \ accepted' : runs'[j] = 0
  BY <1>1, <1>3, <1>10 DEF JobInv
<1>13. worker' \in [L!AllWorkers -> L!AllJobs \cup {"waiting", "returned"}]
  BY <1>1, <1>3 DEF JobInv
<1> QED BY <1>1, <1>6, <1>7, <1>9, <1>10, <1>11, <1>12, <1>13 DEF JobInv

\* Each step keeps the invariant.
LEMMA JobStep ==
  ASSUME L!BulkheadParameters, JobInv, [L!WorkloadNext]_workloadVars
  PROVE  JobInv'
<1>1. ASSUME NEW k \in L!AllWorkers, L!Finish(k) \/ L!Return(k)
      PROVE  JobInv'
  <2>1. /\ UNCHANGED <<queues, cancelled, accepted, runs>>
        /\ worker' \in [L!AllWorkers -> L!AllJobs \cup {"waiting", "returned"}]
    BY <1>1 DEF L!Finish, L!Return, JobInv
  <2> QED BY <2>1 DEF JobInv
<1>2. CASE L!Stop
  BY <1>2 DEF L!Stop, JobInv
<1>3. CASE UNCHANGED workloadVars
  BY <1>3 DEF workloadVars, JobInv
<1> QED BY <1>1, <1>2, <1>3, JobDispatched, JobReceived DEF L!WorkloadNext

LEMMA JobInit ==
  ASSUME L!BulkheadParameters, L!BulkheadInit
  PROVE  JobInv
<1>1. /\ queues = [t \in Workload |-> <<>>] /\ accepted = {} /\ QueueSize \in Nat
      /\ <<>> \in Seq(accepted) /\ Len(<<>>) = 0
  BY DEF L!BulkheadInit, L!BulkheadParameters
<1>2. /\ queues \in [Workload -> Seq(accepted)]
      /\ \A t \in Workload : Len(queues[t]) = 0 /\ 1..Len(queues[t]) = {}
  BY <1>1
<1>3. /\ worker \in [L!AllWorkers -> L!AllJobs \cup {"waiting", "returned"}]
      /\ runs \in [L!AllJobs -> 0..1] /\ \A j \in L!AllJobs : runs[j] = 0
      /\ cancelled \in BOOLEAN /\ accepted \subseteq L!AllJobs
  <2>1. /\ worker = [k \in L!AllWorkers |-> "waiting"] /\ runs = [j \in L!AllJobs |-> 0]
        /\ cancelled = FALSE /\ accepted = {} /\ 0 \in 0..1
    BY DEF L!BulkheadInit
  <2>2. worker \in [L!AllWorkers -> L!AllJobs \cup {"waiting", "returned"}]
    BY <2>1
  <2>3. runs \in [L!AllJobs -> 0..1] /\ \A j \in L!AllJobs : runs[j] = 0
    BY <2>1
  <2> QED BY <2>1, <2>2, <2>3
<1>4. \A t \in Workload : Len(queues[t]) <= QueueSize
  BY <1>1, <1>2
<1> QED BY <1>2, <1>3, <1>4 DEF JobInv

-----------------------------------------------------------------------------
(* The chain of middlewares. *)

Place == {"idle", "refused", "starting", "parked", "panicking", "expired",
          "writing", "leaving", "recording", "creating", "counting", "ended"}
Counted == {"refused", "starting", "parked", "panicking", "expired", "writing", "leaving"}
HandlerPlace == {"none", "running", "writing", "wrote", "panicked", "done"}

\* What the goroutines may do to a request that is on its way.
LEMMA ChainTyped ==
  ASSUME R!ChainParameters, R!TypeOK, [R!Next]_chainVars
  PROVE  R!TypeOK'
<1>1. ASSUME NEW r \in Visitor,
             R!Arrive(r) \/ R!HandlerLooks(r) \/ R!HandlerWrites(r) \/ R!HandlerPanics(r)
               \/ R!ClosesDone(r) \/ R!Deadline(r)
      PROVE  R!TypeOK'
  BY <1>1 DEF R!TypeOK, R!Arrive, R!HandlerLooks, R!HandlerWrites, R!HandlerPanics, R!ClosesDone,
              R!Deadline, R!Goes, R!WritesHeader, R!Sends, R!Status, R!writerVars, R!metricsVars
<1>2. ASSUME NEW r \in Visitor,
             R!Select(r) \/ R!TimeoutLooks(r) \/ R!TimeoutWrites(r) \/ R!Recover(r) \/ R!Leave(r)
      PROVE  R!TypeOK'
  BY <1>2 DEF R!TypeOK, R!Select, R!TimeoutLooks, R!TimeoutWrites, R!Recover, R!Leave,
              R!Goes, R!WritesHeader, R!Sends, R!Status, R!writerVars, R!metricsVars
<1>3. ASSUME NEW r \in Visitor, R!RecordLooks(r) \/ R!RecordCreates(r) \/ R!RecordCounts(r)
      PROVE  R!TypeOK'
  BY <1>3 DEF R!TypeOK, R!RecordLooks, R!RecordCreates, R!RecordCounts, R!StillAbsent,
              R!Goes, R!Sends, R!Status, R!writerVars
<1>4. CASE UNCHANGED chainVars
  BY <1>4 DEF chainVars, R!TypeOK
<1> QED BY <1>1, <1>2, <1>3, <1>4 DEF R!Next, R!Serve

\* The requests on the counter, and those of them that were let in.
LetIn == {r \in R!InChain : at[r] # "refused"}
ActiveInv == R!TypeOK /\ R!ActiveBounded

LEMMA ChainCardinality ==
  ASSUME NEW X
  PROVE  /\ R!IsFiniteSet(X) <=> IsFiniteSet(X)
         /\ R!Cardinality(X) = Cardinality(X)
  BY DEF R!IsFiniteSet, IsFiniteSet, R!Cardinality, Cardinality

LEMMA InChainCount ==
  ASSUME R!ChainParameters, NEW r \in Visitor, NEW s \in Place,
         at \in [Visitor -> Place], at' = [at EXCEPT ![r] = s]
  PROVE  /\ IsFiniteSet(R!InChain) /\ Cardinality(R!InChain) \in Nat
         /\ IsFiniteSet(LetIn') /\ Cardinality(LetIn) \in Nat /\ Cardinality(LetIn') \in Nat
         /\ Cardinality(R!InChain') \in Nat /\ Cardinality(LetIn') <= Cardinality(R!InChain')
         /\ at[r] \notin Counted /\ s \in Counted =>
              Cardinality(R!InChain') = Cardinality(R!InChain) + 1
         /\ at[r] \in Counted /\ s \notin Counted =>
              Cardinality(R!InChain') = Cardinality(R!InChain) - 1
         /\ (at[r] \in Counted <=> s \in Counted) => R!InChain' = R!InChain
         /\ (s \in Counted \ {"refused"} => at[r] \in Counted \ {"refused"}) =>
              Cardinality(LetIn') <= Cardinality(LetIn)
<1>1. IsFiniteSet(Visitor)
  BY ChainCardinality DEF R!ChainParameters
<1>2. \A q \in Visitor : q \in R!InChain <=> at[q] \in Counted
  BY DEF R!InChain, Place, Counted
<1>3. at' \in [Visitor -> Place]
  OBVIOUS
<1>4. \A q \in Visitor : q \in R!InChain' <=> at'[q] \in Counted
  BY <1>3 DEF R!InChain, Place, Counted
<1>5. /\ R!InChain \subseteq Visitor /\ R!InChain' \subseteq Visitor
      /\ LetIn \subseteq R!InChain /\ LetIn' \subseteq R!InChain'
  BY DEF R!InChain, LetIn
<1>6. /\ IsFiniteSet(R!InChain) /\ IsFiniteSet(R!InChain')
      /\ IsFiniteSet(LetIn) /\ IsFiniteSet(LetIn')
      /\ Cardinality(LetIn') <= Cardinality(R!InChain')
  BY <1>1, <1>5, FS_Subset
<1>7. /\ Cardinality(R!InChain) \in Nat /\ Cardinality(R!InChain') \in Nat
      /\ Cardinality(LetIn) \in Nat /\ Cardinality(LetIn') \in Nat
  BY <1>6, FS_CardinalityType
<1>8. ASSUME at[r] \notin Counted, s \in Counted
      PROVE  Cardinality(R!InChain') = Cardinality(R!InChain) + 1
  <2>1. R!InChain' = R!InChain \cup {r} /\ r \notin R!InChain
    BY <1>2, <1>4, <1>5, <1>8
  <2> QED BY <1>6, <2>1, FS_AddElement
<1>9. ASSUME at[r] \in Counted, s \notin Counted
      PROVE  Cardinality(R!InChain') = Cardinality(R!InChain) - 1
  <2>1. R!InChain' = R!InChain \ {r} /\ r \in R!InChain
    BY <1>2, <1>4, <1>5, <1>9
  <2> QED BY <1>6, <2>1, FS_RemoveElement
<1>10. ASSUME at[r] \in Counted <=> s \in Counted
       PROVE  R!InChain' = R!InChain
  BY <1>2, <1>4, <1>5, <1>10
<1>11. ASSUME s \in Counted \ {"refused"} => at[r] \in Counted \ {"refused"}
       PROVE  Cardinality(LetIn') <= Cardinality(LetIn)
  <2>1. \A q \in Visitor : q \in LetIn <=> at[q] \in Counted \ {"refused"}
    BY <1>2 DEF LetIn, R!InChain
  <2>2. \A q \in Visitor : q \in LetIn' <=> at'[q] \in Counted \ {"refused"}
    BY <1>4 DEF LetIn, R!InChain
  <2>3. LetIn' \subseteq LetIn
    BY <1>5, <1>11, <2>1, <2>2
  <2> QED BY <1>6, <2>3, FS_Subset
<1> QED BY <1>6, <1>7, <1>8, <1>9, <1>10, <1>11

\* A request moves on and stays on the counter, or off it.
LEMMA ActiveMoves ==
  ASSUME R!ChainParameters, ActiveInv, R!TypeOK', UNCHANGED activeRequests,
         \/ UNCHANGED at
         \/ \E r \in Visitor, s \in Place :
              /\ at' = [at EXCEPT ![r] = s]
              /\ at[r] \in Counted <=> s \in Counted
              /\ s \in Counted \ {"refused"} => at[r] \in Counted \ {"refused"}
  PROVE  ActiveInv'
<1>1. /\ activeRequests = Cardinality(R!InChain) /\ Cardinality(LetIn) <= MaxActiveRequests
      /\ at \in [Visitor -> Place] /\ MaxActiveRequests \in Nat
  BY ChainCardinality DEF ActiveInv, R!ActiveBounded, LetIn, R!TypeOK, Place, R!ChainParameters
<1>2. CASE UNCHANGED at
  <2>1. R!InChain' = R!InChain /\ LetIn' = LetIn
    BY <1>2 DEF R!InChain, LetIn
  <2> QED BY <1>1, <2>1, ChainCardinality DEF ActiveInv, R!ActiveBounded, LetIn
<1>3. ASSUME NEW r \in Visitor, NEW s \in Place, at' = [at EXCEPT ![r] = s],
             at[r] \in Counted <=> s \in Counted,
             s \in Counted \ {"refused"} => at[r] \in Counted \ {"refused"}
      PROVE  ActiveInv'
  <2>1. R!InChain' = R!InChain /\ Cardinality(LetIn') <= Cardinality(LetIn)
        /\ Cardinality(LetIn) \in Nat /\ Cardinality(LetIn') \in Nat
    BY <1>1, <1>3, InChainCount
  <2>2. Cardinality(LetIn') <= MaxActiveRequests
    BY <1>1, <2>1
  <2> QED BY <1>1, <2>1, <2>2, ChainCardinality DEF ActiveInv, R!ActiveBounded, LetIn
<1> QED BY <1>2, <1>3

\* Each step keeps the counter exact and its limit.
LEMMA ActiveStep ==
  ASSUME R!ChainParameters, ActiveInv, [R!Next]_chainVars
  PROVE  ActiveInv'
<1>1. R!TypeOK'
  BY ChainTyped DEF ActiveInv
<1>2. /\ activeRequests = Cardinality(R!InChain) /\ Cardinality(LetIn) <= MaxActiveRequests
      /\ at \in [Visitor -> Place] /\ MaxActiveRequests \in Nat
  BY ChainCardinality DEF ActiveInv, R!ActiveBounded, LetIn, R!TypeOK, Place, R!ChainParameters
<1>3. ASSUME Cardinality(R!InChain') = activeRequests', Cardinality(LetIn') <= MaxActiveRequests
      PROVE  ActiveInv'
  BY <1>1, <1>3, ChainCardinality DEF ActiveInv, R!ActiveBounded, LetIn
<1>4. ASSUME NEW r \in Visitor, R!Arrive(r)
      PROVE  ActiveInv'
  <2>1. at[r] \notin Counted /\ activeRequests' = activeRequests + 1
    BY <1>4 DEF R!Arrive, Counted
  <2>2. CASE activeRequests' > MaxActiveRequests
    <3>1. at' = [at EXCEPT ![r] = "refused"] /\ "refused" \in Place /\ "refused" \in Counted
          /\ "refused" \notin Counted \ {"refused"}
      BY <1>4, <2>2 DEF R!Arrive, R!TooMany, R!Goes, Place, Counted
    <3>2. /\ Cardinality(R!InChain') = Cardinality(R!InChain) + 1
          /\ Cardinality(LetIn') <= Cardinality(LetIn)
          /\ Cardinality(LetIn) \in Nat /\ Cardinality(LetIn') \in Nat
      BY <1>2, <2>1, <3>1, InChainCount
    <3> QED BY <1>2, <1>3, <2>1, <3>2
  <2>3. CASE ~(activeRequests' > MaxActiveRequests)
    <3>1. at' = [at EXCEPT ![r] = "starting"] /\ "starting" \in Place /\ "starting" \in Counted
      BY <1>4, <2>3 DEF R!Arrive, R!TooMany, R!Goes, Place, Counted
    <3>2. /\ Cardinality(R!InChain') = Cardinality(R!InChain) + 1
          /\ Cardinality(LetIn') <= Cardinality(R!InChain')
          /\ Cardinality(LetIn') \in Nat /\ Cardinality(R!InChain) \in Nat
      BY <1>2, <2>1, <3>1, InChainCount
    <3> QED BY <1>2, <1>3, <2>1, <2>3, <3>2
  <2> QED BY <2>2, <2>3
<1>5. ASSUME NEW r \in Visitor, R!Recover(r) \/ R!Leave(r)
      PROVE  ActiveInv'
  <2>1. /\ at[r] \in Counted /\ activeRequests' = activeRequests - 1
        /\ \E s \in Place \ Counted : at' = [at EXCEPT ![r] = s]
    BY <1>5 DEF R!Recover, R!Leave, R!Goes, R!Discounted, Counted, Place
  <2>2. /\ Cardinality(R!InChain') = Cardinality(R!InChain) - 1
        /\ Cardinality(LetIn') <= Cardinality(LetIn)
        /\ Cardinality(LetIn) \in Nat /\ Cardinality(LetIn') \in Nat
    BY <1>2, <2>1, InChainCount
  <2> QED BY <1>2, <1>3, <2>1, <2>2
<1>6. ASSUME NEW r \in Visitor, R!HandlerLooks(r) \/ R!HandlerWrites(r)
      PROVE  ActiveInv'
  <2>1. UNCHANGED <<at, activeRequests>>
    BY <1>6 DEF R!HandlerLooks, R!HandlerWrites
  <2> QED BY <1>1, <2>1, ActiveMoves
<1>7. ASSUME NEW r \in Visitor, R!HandlerPanics(r) \/ R!ClosesDone(r) \/ R!Deadline(r)
      PROVE  ActiveInv'
  <2>1. /\ UNCHANGED activeRequests
        /\ \/ UNCHANGED at
           \/ /\ at[r] = "parked"
              /\ \E s \in {"panicking", "leaving", "expired"} : at' = [at EXCEPT ![r] = s]
    BY <1>7 DEF R!HandlerPanics, R!ClosesDone, R!Deadline, R!Goes
  <2> QED BY <1>1, <2>1, ActiveMoves DEF Counted, Place
<1>8. ASSUME NEW r \in Visitor, R!Select(r)
      PROVE  ActiveInv'
  <2>1. /\ UNCHANGED activeRequests /\ at[r] = "starting"
        /\ \E s \in {"panicking", "leaving", "expired", "parked"} : at' = [at EXCEPT ![r] = s]
    BY <1>8 DEF R!Select, R!Goes
  <2> QED BY <1>1, <2>1, ActiveMoves DEF Counted, Place
<1>9. ASSUME NEW r \in Visitor, R!TimeoutLooks(r) \/ R!TimeoutWrites(r)
      PROVE  ActiveInv'
  <2>1. /\ UNCHANGED activeRequests /\ at[r] \in {"expired", "writing"}
        /\ \E s \in {"writing", "leaving"} : at' = [at EXCEPT ![r] = s]
    BY <1>9 DEF R!TimeoutLooks, R!TimeoutWrites, R!Goes
  <2> QED BY <1>1, <2>1, ActiveMoves DEF Counted, Place
<1>10. ASSUME NEW r \in Visitor, R!RecordLooks(r) \/ R!RecordCreates(r) \/ R!RecordCounts(r)
       PROVE  ActiveInv'
  <2>1. /\ UNCHANGED activeRequests /\ at[r] \in {"recording", "creating", "counting"}
        /\ \E s \in {"creating", "counting", "ended"} : at' = [at EXCEPT ![r] = s]
    BY <1>10 DEF R!RecordLooks, R!RecordCreates, R!RecordCounts, R!Goes
  <2> QED BY <1>1, <2>1, ActiveMoves DEF Counted, Place
<1>11. CASE UNCHANGED chainVars
  BY <1>1, <1>11, ActiveMoves DEF chainVars
<1> QED
  BY <1>4, <1>5, <1>6, <1>7, <1>8, <1>9, <1>10, <1>11 DEF R!Next, R!Serve

\* A status that was sent has its reason: what is known of request r.
Told(r) ==
  /\ at[r] = "idle" => handler[r] = "none" /\ sent[r] = 0
  /\ at[r] # "idle" /\ handler[r] = "none" =>
       sent[r] = 503 /\ at[r] \in {"refused", "recording", "creating", "counting", "ended"}
  /\ at[r] = "refused" => handler[r] = "none"
  /\ at[r] = "panicking" => r \in panicChan
  /\ at[r] \in {"expired", "writing"} => r \in expired
  /\ sent[r] = 503 => handler[r] = "none"
  /\ sent[r] = 500 => r \in panicChan
  /\ sent[r] = 504 => r \in expired
  /\ at[r] = "ended" => sent[r] # 0

\* A step of request r leaves the others alone.
LEMMA OthersTold ==
  ASSUME R!TypeOK, NEW r \in Visitor, NEW q \in Visitor \ {r}, Told(q),
         at' = at \/ \E s : at' = [at EXCEPT ![r] = s],
         handler' = handler \/ \E s : handler' = [handler EXCEPT ![r] = s],
         sent' = sent \/ \E s : sent' = [sent EXCEPT ![r] = s],
         panicChan \subseteq panicChan', expired \subseteq expired'
  PROVE  Told(q)'
<1>1. at'[q] = at[q] /\ handler'[q] = handler[q] /\ sent'[q] = sent[q]
  BY DEF R!TypeOK
<1> QED BY <1>1 DEF Told

\* A request that arrives, and what its handler and its deadline do.
LEMMA HandlerTold ==
  ASSUME R!TypeOK, NEW r \in Visitor, Told(r),
         R!Arrive(r) \/ R!HandlerLooks(r) \/ R!HandlerWrites(r) \/ R!HandlerPanics(r)
           \/ R!ClosesDone(r) \/ R!Deadline(r)
  PROVE  Told(r)'
<1>1. r \in DOMAIN at /\ r \in DOMAIN handler /\ r \in DOMAIN sent
  BY DEF R!TypeOK
<1>2. CASE R!Arrive(r)
  BY <1>1, <1>2 DEF R!TypeOK, R!Arrive, R!Goes, R!WritesHeader, R!Sends, R!writerVars, Told
<1>3. CASE R!HandlerLooks(r)
  BY <1>1, <1>3 DEF R!TypeOK, R!HandlerLooks, R!writerVars, Told
<1>4. CASE R!HandlerWrites(r)
  BY <1>1, <1>4 DEF R!TypeOK, R!HandlerWrites, R!WritesHeader, R!Sends, Told
<1>5. CASE R!HandlerPanics(r)
  BY <1>1, <1>5 DEF R!TypeOK, R!HandlerPanics, R!Goes, R!writerVars, Told
<1>6. CASE R!ClosesDone(r)
  BY <1>1, <1>6 DEF R!TypeOK, R!ClosesDone, R!Goes, R!writerVars, Told
<1>7. CASE R!Deadline(r)
  BY <1>1, <1>7 DEF R!TypeOK, R!Deadline, R!Goes, R!writerVars, Told
<1> QED BY <1>2, <1>3, <1>4, <1>5, <1>6, <1>7

\* What its own goroutine does.
LEMMA ServeTold ==
  ASSUME R!TypeOK, NEW r \in Visitor, Told(r), R!Serve(r)
  PROVE  Told(r)'
<1>1. r \in DOMAIN at /\ r \in DOMAIN handler /\ r \in DOMAIN sent
  BY DEF R!TypeOK
<1>2. CASE R!Select(r)
  BY <1>1, <1>2 DEF R!TypeOK, R!Select, R!Goes, R!writerVars, Told
<1>3. CASE R!TimeoutLooks(r)
  BY <1>1, <1>3 DEF R!TypeOK, R!TimeoutLooks, R!Goes, R!writerVars, Told
<1>4. CASE R!TimeoutWrites(r)
  BY <1>1, <1>4 DEF R!TypeOK, R!TimeoutWrites, R!Goes, R!WritesHeader, R!Sends, Told
<1>5. CASE R!Recover(r)
  BY <1>1, <1>5 DEF R!TypeOK, R!Recover, R!Goes, R!Sends, Told
<1>6. CASE R!Leave(r)
  BY <1>1, <1>6 DEF R!TypeOK, R!Leave, R!Goes, R!writerVars, Told
<1>7. CASE R!RecordLooks(r)
  BY <1>1, <1>7 DEF R!TypeOK, R!RecordLooks, R!Goes, R!writerVars, Told
<1>8. CASE R!RecordCreates(r)
  BY <1>1, <1>8 DEF R!TypeOK, R!RecordCreates, R!Goes, R!writerVars, Told
<1>9. CASE R!RecordCounts(r)
  BY <1>1, <1>9 DEF R!TypeOK, R!RecordCounts, R!Goes, R!Sends, Told
<1> QED BY <1>2, <1>3, <1>4, <1>5, <1>6, <1>7, <1>8, <1>9 DEF R!Serve

\* Each step keeps what is known of every request.
LEMMA ToldStep ==
  ASSUME R!TypeOK, \A q \in Visitor : Told(q), [R!Next]_chainVars
  PROVE  \A q \in Visitor : Told(q)'
<1>1. CASE UNCHANGED chainVars
  BY <1>1 DEF chainVars, Told
<1>2. ASSUME NEW r \in Visitor,
             R!Arrive(r) \/ R!HandlerLooks(r) \/ R!HandlerWrites(r) \/ R!HandlerPanics(r)
               \/ R!ClosesDone(r) \/ R!Deadline(r) \/ R!Serve(r)
      PROVE  \A q \in Visitor : Told(q)'
  <2>1. Told(r)'
    BY <1>2, HandlerTold, ServeTold
  <2>2. at' = at \/ \E s : at' = [at EXCEPT ![r] = s]
    BY <1>2 DEF R!Arrive, R!HandlerLooks, R!HandlerWrites, R!HandlerPanics, R!ClosesDone, R!Deadline,
                R!Serve, R!Select, R!TimeoutLooks, R!TimeoutWrites, R!Recover, R!Leave,
                R!RecordLooks, R!RecordCreates, R!RecordCounts, R!Goes
  <2>3. handler' = handler \/ \E s : handler' = [handler EXCEPT ![r] = s]
    BY <1>2 DEF R!Arrive, R!HandlerLooks, R!HandlerWrites, R!HandlerPanics, R!ClosesDone, R!Deadline,
                R!Serve, R!Select, R!TimeoutLooks, R!TimeoutWrites, R!Recover, R!Leave,
                R!RecordLooks, R!RecordCreates, R!RecordCounts
  <2>4. sent' = sent \/ \E s : sent' = [sent EXCEPT ![r] = s]
    BY <1>2 DEF R!Arrive, R!HandlerLooks, R!HandlerWrites, R!HandlerPanics, R!ClosesDone, R!Deadline,
                R!Serve, R!Select, R!TimeoutLooks, R!TimeoutWrites, R!Recover, R!Leave,
                R!RecordLooks, R!RecordCreates, R!RecordCounts, R!WritesHeader, R!Sends, R!writerVars
  <2>5. panicChan \subseteq panicChan' /\ expired \subseteq expired'
    BY <1>2 DEF R!Arrive, R!HandlerLooks, R!HandlerWrites, R!HandlerPanics, R!ClosesDone, R!Deadline,
                R!Serve, R!Select, R!TimeoutLooks, R!TimeoutWrites, R!Recover, R!Leave,
                R!RecordLooks, R!RecordCreates, R!RecordCounts
  <2> QED BY <2>1, <2>2, <2>3, <2>4, <2>5, OthersTold
<1> QED BY <1>1, <1>2 DEF R!Next

\* The requests that a counter counts.
Ended(s) == {r \in Visitor : at[r] = "ended" /\ recorded[r] = s}
Recording == {"creating", "counting"}

\* Each status has the counter of the request that made it, which no other status has; who is
\* about to count has it in hand; and a counter that no status has counted nothing.
CountersNamed ==
  /\ counter \in [Visitor -> Visitor \cup {R!NoCounter}] /\ count \in [Visitor -> Nat]
  /\ \A s \in R!Status : requestCount[s] # R!NoCounter =>
       recorded[requestCount[s]] = s /\ at[requestCount[s]] \in {"counting", "ended"}
  /\ \A s \in R!Status : requestCount[s] = R!NoCounter => Ended(s) = {}
  /\ \A r \in Visitor : (\A s \in R!Status : requestCount[s] # r) => count[r] = 0
  /\ \A r \in Visitor : at[r] \in Recording => recorded[r] \in R!Status
  /\ \A r \in Visitor : at[r] = "counting" =>
       counter[r] = requestCount[recorded[r]] /\ counter[r] # R!NoCounter
  /\ \A r \in Visitor : at[r] \notin Recording \cup {"ended"} => recorded[r] = 0

Counts == \A s \in R!Status : requestCount[s] # R!NoCounter =>
            count[requestCount[s]] = Cardinality(Ended(s))

MetricsInv == R!TypeOK /\ CountersNamed /\ Counts

\* Steps before Record: a request that ends by a panic has recorded nothing.
LEMMA MetricsRest ==
  ASSUME MetricsInv, R!TypeOK',
         UNCHANGED <<recorded, requestCount, counter, count>>,
         \A q \in Visitor : at'[q] # at[q] =>
           at[q] \notin Recording \cup {"ended"} /\ at'[q] \notin Recording
  PROVE  MetricsInv'
<1>1. \A q \in Visitor : at'[q] # at[q] => recorded[q] = 0
  BY DEF MetricsInv, CountersNamed
<1>2. \A s \in R!Status : Ended(s)' = Ended(s)
  <2> SUFFICES ASSUME NEW s \in R!Status PROVE Ended(s)' = Ended(s)
    OBVIOUS
  <2>1. s # 0
    BY DEF R!Status
  <2>2. \A q \in Visitor : (at'[q] = "ended" /\ recorded'[q] = s) <=> (at[q] = "ended" /\ recorded[q] = s)
    BY <1>1, <2>1
  <2> QED BY <2>2 DEF Ended
<1>3. CountersNamed'
  <2>1. \A s \in R!Status : requestCount'[s] # R!NoCounter =>
          recorded'[requestCount'[s]] = s /\ at'[requestCount'[s]] \in {"counting", "ended"}
    <3> SUFFICES ASSUME NEW s \in R!Status, requestCount[s] # R!NoCounter
                 PROVE  recorded[requestCount[s]] = s /\ at'[requestCount[s]] \in {"counting", "ended"}
      OBVIOUS
    <3>1. requestCount[s] \in Visitor
      BY DEF MetricsInv, R!TypeOK
    <3> QED BY <3>1 DEF MetricsInv, CountersNamed, Recording
  <2>2. /\ counter' \in [Visitor -> Visitor \cup {R!NoCounter}] /\ count' \in [Visitor -> Nat]
        /\ \A s \in R!Status : requestCount'[s] = R!NoCounter => Ended(s)' = {}
        /\ \A r \in Visitor : (\A s \in R!Status : requestCount'[s] # r) => count'[r] = 0
    BY <1>2 DEF MetricsInv, CountersNamed
  <2>3. /\ \A r \in Visitor : at'[r] \in Recording => recorded'[r] \in R!Status
        /\ \A r \in Visitor : at'[r] = "counting" =>
             counter'[r] = requestCount'[recorded'[r]] /\ counter'[r] # R!NoCounter
        /\ \A r \in Visitor : at'[r] \notin Recording \cup {"ended"} => recorded'[r] = 0
    BY <1>1 DEF MetricsInv, CountersNamed, Recording
  <2> QED BY <2>1, <2>2, <2>3 DEF CountersNamed
<1>4. Counts'
  BY <1>2 DEF MetricsInv, Counts
<1> QED BY <1>3, <1>4 DEF MetricsInv

\* Record finds the counter of its status, or none;
LEMMA MetricsLooks ==
  ASSUME MetricsInv, R!TypeOK', NEW r \in Visitor, R!RecordLooks(r)
  PROVE  MetricsInv'
<1> DEFINE t == statusCode[r]
<1>1. /\ at[r] = "recording" /\ t \in R!Status
      /\ recorded' = [recorded EXCEPT ![r] = t] /\ counter' = [counter EXCEPT ![r] = requestCount[t]]
      /\ UNCHANGED <<requestCount, count>>
  BY DEF R!RecordLooks, MetricsInv, R!TypeOK
<1>2. /\ recorded \in [Visitor -> R!Status \cup {0}]
      /\ counter \in [Visitor -> Visitor \cup {R!NoCounter}]
      /\ requestCount \in [R!Status -> Visitor \cup {R!NoCounter}] /\ r \in DOMAIN at
      /\ count \in [Visitor -> Nat]
  BY DEF MetricsInv, CountersNamed, R!TypeOK
<1>3. at' = [at EXCEPT ![r] = IF requestCount[t] = R!NoCounter THEN "creating" ELSE "counting"]
  <2>1. counter'[r] = requestCount[t]
    BY <1>1, <1>2
  <2> QED BY <2>1 DEF R!RecordLooks, R!Goes
<1> HIDE DEF t
<1>4. /\ recorded'[r] = t /\ counter'[r] = requestCount[t] /\ at'[r] \in Recording
      /\ at'[r] = "counting" => requestCount[t] # R!NoCounter
      /\ \A q \in Visitor : q # r =>
           recorded'[q] = recorded[q] /\ counter'[q] = counter[q] /\ at'[q] = at[q]
  BY <1>1, <1>2, <1>3 DEF Recording
<1>5. \A s \in R!Status : Ended(s)' = Ended(s)
  <2> SUFFICES ASSUME NEW s \in R!Status PROVE Ended(s)' = Ended(s)
    OBVIOUS
  <2>1. at[r] # "ended" /\ at'[r] # "ended"
    BY <1>1, <1>4 DEF Recording
  <2>2. \A q \in Visitor : (at'[q] = "ended" /\ recorded'[q] = s) <=> (at[q] = "ended" /\ recorded[q] = s)
    BY <1>4, <2>1
  <2> QED BY <2>2 DEF Ended
<1>6. CountersNamed'
  <2>1. \A s \in R!Status : requestCount'[s] # R!NoCounter =>
          recorded'[requestCount'[s]] = s /\ at'[requestCount'[s]] \in {"counting", "ended"}
    <3> SUFFICES ASSUME NEW s \in R!Status, requestCount[s] # R!NoCounter
                 PROVE  /\ recorded'[requestCount[s]] = s
                        /\ at'[requestCount[s]] \in {"counting", "ended"}
      BY <1>1
    <3>1. /\ requestCount[s] \in Visitor /\ recorded[requestCount[s]] = s
          /\ at[requestCount[s]] \in {"counting", "ended"}
      BY <1>2 DEF MetricsInv, CountersNamed
    <3>2. requestCount[s] # r
      BY <1>1, <3>1
    <3> QED BY <1>4, <3>1, <3>2
  <2>2. counter' \in [Visitor -> Visitor \cup {R!NoCounter}] /\ count' \in [Visitor -> Nat]
    BY <1>1, <1>2
  <2>3. /\ \A s \in R!Status : requestCount'[s] = R!NoCounter => Ended(s)' = {}
        /\ \A q \in Visitor : (\A s \in R!Status : requestCount'[s] # q) => count'[q] = 0
    BY <1>1, <1>5 DEF MetricsInv, CountersNamed
  <2>4. \A q \in Visitor : at'[q] \in Recording => recorded'[q] \in R!Status
    BY <1>1, <1>4 DEF MetricsInv, CountersNamed
  <2>5. \A q \in Visitor : at'[q] = "counting" =>
          counter'[q] = requestCount'[recorded'[q]] /\ counter'[q] # R!NoCounter
    BY <1>1, <1>4 DEF MetricsInv, CountersNamed
  <2>6. \A q \in Visitor : at'[q] \notin Recording \cup {"ended"} => recorded'[q] = 0
    BY <1>4 DEF MetricsInv, CountersNamed
  <2> QED BY <2>1, <2>2, <2>3, <2>4, <2>5, <2>6 DEF CountersNamed
<1>7. Counts'
  BY <1>1, <1>5 DEF MetricsInv, Counts
<1> QED BY <1>6, <1>7 DEF MetricsInv

\* makes one, unless another request of the status has;
LEMMA MetricsCreates ==
  ASSUME R!ChainParameters, MetricsInv, R!TypeOK', NEW r \in Visitor, R!RecordCreates(r)
  PROVE  MetricsInv'
<1> DEFINE t == recorded[r]
<1>1. /\ at[r] = "creating" /\ t \in R!Status /\ at' = [at EXCEPT ![r] = "counting"]
      /\ requestCount' = IF requestCount[t] = R!NoCounter THEN [requestCount EXCEPT ![t] = r]
                         ELSE requestCount
      /\ counter' = [counter EXCEPT ![r] = requestCount'[t]]
      /\ UNCHANGED <<recorded, count>>
  BY DEF R!RecordCreates, R!Goes, R!StillAbsent, MetricsInv, CountersNamed, Recording
<1>2. /\ counter \in [Visitor -> Visitor \cup {R!NoCounter}]
      /\ requestCount \in [R!Status -> Visitor \cup {R!NoCounter}] /\ r \in DOMAIN at
      /\ count \in [Visitor -> Nat] /\ R!NoCounter \notin Visitor
  BY DEF MetricsInv, CountersNamed, R!TypeOK, R!ChainParameters
<1> HIDE DEF t
<1>3. /\ requestCount'[t] \in Visitor
      /\ requestCount[t] = R!NoCounter => requestCount'[t] = r
      /\ \A s \in R!Status : s # t \/ requestCount[t] # R!NoCounter => requestCount'[s] = requestCount[s]
  BY <1>1, <1>2
<1>4. /\ counter'[r] = requestCount'[t] /\ at'[r] = "counting"
      /\ \A q \in Visitor : q # r => counter'[q] = counter[q] /\ at'[q] = at[q]
  BY <1>1, <1>2
<1>5. \A s \in R!Status : requestCount[s] # R!NoCounter =>
        /\ requestCount[s] \in Visitor /\ requestCount[s] # r
        /\ recorded[requestCount[s]] = s /\ at'[requestCount[s]] \in {"counting", "ended"}
  <2> SUFFICES ASSUME NEW s \in R!Status, requestCount[s] # R!NoCounter
               PROVE  /\ requestCount[s] \in Visitor /\ requestCount[s] # r
                      /\ recorded[requestCount[s]] = s /\ at'[requestCount[s]] \in {"counting", "ended"}
    OBVIOUS
  <2>1. /\ requestCount[s] \in Visitor /\ recorded[requestCount[s]] = s
        /\ at[requestCount[s]] \in {"counting", "ended"}
    BY <1>2 DEF MetricsInv, CountersNamed
  <2>2. requestCount[s] # r
    BY <1>1, <2>1
  <2> QED BY <1>4, <2>1, <2>2
<1>6. \A s \in R!Status : Ended(s)' = Ended(s)
  <2> SUFFICES ASSUME NEW s \in R!Status PROVE Ended(s)' = Ended(s)
    OBVIOUS
  <2>1. \A q \in Visitor : (at'[q] = "ended" /\ recorded'[q] = s) <=> (at[q] = "ended" /\ recorded[q] = s)
    BY <1>1, <1>4
  <2> QED BY <2>1 DEF Ended
<1>7. CountersNamed'
  <2>1. \A s \in R!Status : requestCount'[s] # R!NoCounter =>
          recorded'[requestCount'[s]] = s /\ at'[requestCount'[s]] \in {"counting", "ended"}
    <3> SUFFICES ASSUME NEW s \in R!Status, requestCount'[s] # R!NoCounter
                 PROVE  /\ recorded[requestCount'[s]] = s
                        /\ at'[requestCount'[s]] \in {"counting", "ended"}
      BY <1>1
    <3>1. CASE s = t /\ requestCount[t] = R!NoCounter
      <4>1. requestCount'[s] = r
        BY <1>3, <3>1
      <4> QED BY <1>4, <3>1, <4>1 DEF t
    <3>2. CASE s # t \/ requestCount[t] # R!NoCounter
      <4>1. requestCount'[s] = requestCount[s]
        BY <1>3, <3>2
      <4> QED BY <1>5, <4>1
    <3> QED BY <3>1, <3>2
  <2>2. counter' \in [Visitor -> Visitor \cup {R!NoCounter}] /\ count' \in [Visitor -> Nat]
    BY <1>1, <1>2, <1>3
  <2>3. \A s \in R!Status : requestCount'[s] = R!NoCounter => Ended(s)' = {}
    BY <1>2, <1>3, <1>6 DEF MetricsInv, CountersNamed
  <2>4. \A q \in Visitor : (\A s \in R!Status : requestCount'[s] # q) => count'[q] = 0
    <3> SUFFICES ASSUME NEW q \in Visitor, \A s \in R!Status : requestCount'[s] # q
                 PROVE  count[q] = 0
      BY <1>1
    <3>1. \A s \in R!Status : requestCount[s] # q
      BY <1>2, <1>3
    <3> QED BY <3>1 DEF MetricsInv, CountersNamed
  <2>5. \A q \in Visitor : at'[q] \in Recording => recorded'[q] \in R!Status
    BY <1>1, <1>4 DEF MetricsInv, CountersNamed, t
  <2>6. \A q \in Visitor : at'[q] = "counting" =>
          counter'[q] = requestCount'[recorded'[q]] /\ counter'[q] # R!NoCounter
    <3> SUFFICES ASSUME NEW q \in Visitor, at'[q] = "counting"
                 PROVE  counter'[q] = requestCount'[recorded[q]] /\ counter'[q] # R!NoCounter
      BY <1>1
    <3>1. CASE q = r
      BY <1>2, <1>3, <1>4, <3>1 DEF t
    <3>2. CASE q # r
      <4>1. /\ counter'[q] = counter[q] /\ counter[q] = requestCount[recorded[q]]
            /\ counter[q] # R!NoCounter /\ recorded[q] \in R!Status
        BY <1>4, <3>2 DEF MetricsInv, CountersNamed, Recording
      <4> QED BY <1>3, <4>1
    <3> QED BY <3>1, <3>2
  <2>7. \A q \in Visitor : at'[q] \notin Recording \cup {"ended"} => recorded'[q] = 0
    BY <1>1, <1>4 DEF MetricsInv, CountersNamed, Recording
  <2> QED BY <2>1, <2>2, <2>3, <2>4, <2>5, <2>6, <2>7 DEF CountersNamed
<1>8. Counts'
  <2> SUFFICES ASSUME NEW s \in R!Status, requestCount'[s] # R!NoCounter
               PROVE  count[requestCount'[s]] = Cardinality(Ended(s))
    BY <1>1, <1>6 DEF Counts
  <2>1. CASE s = t /\ requestCount[t] = R!NoCounter
    <3>1. requestCount'[s] = r
      BY <1>3, <2>1
    <3>2. \A u \in R!Status : requestCount[u] # r
      BY <1>2, <1>5
    <3>3. count[r] = 0
      BY <3>2 DEF MetricsInv, CountersNamed
    <3>4. Ended(s) = {}
      BY <2>1 DEF MetricsInv, CountersNamed
    <3> QED BY <3>1, <3>3, <3>4, FS_EmptySet
  <2>2. CASE s # t \/ requestCount[t] # R!NoCounter
    <3>1. requestCount'[s] = requestCount[s]
      BY <1>3, <2>2
    <3> QED BY <3>1 DEF MetricsInv, Counts
  <2> QED BY <2>1, <2>2
<1> QED BY <1>7, <1>8 DEF MetricsInv

\* and counts the request.
LEMMA MetricsCounts ==
  ASSUME R!ChainParameters, MetricsInv, R!TypeOK', NEW r \in Visitor, R!RecordCounts(r)
  PROVE  MetricsInv'
<1> DEFINE t == recorded[r]
           k == requestCount[recorded[r]]
<1>1. /\ at[r] = "counting" /\ t \in R!Status /\ at' = [at EXCEPT ![r] = "ended"]
      /\ counter[r] = k /\ k # R!NoCounter
      /\ count' = [count EXCEPT ![k] = count[k] + 1]
      /\ UNCHANGED <<recorded, requestCount, counter>>
  BY DEF R!RecordCounts, R!Goes, MetricsInv, CountersNamed, Recording
<1>2. /\ requestCount \in [R!Status -> Visitor \cup {R!NoCounter}] /\ r \in DOMAIN at
      /\ count \in [Visitor -> Nat] /\ k \in Visitor /\ requestCount[t] = k
  BY <1>1 DEF MetricsInv, CountersNamed, R!TypeOK
<1> HIDE DEF t, k
<1>3. /\ count' \in [Visitor -> Nat] /\ count'[k] = count[k] + 1
      /\ \A q \in Visitor : q # k => count'[q] = count[q]
  BY <1>1, <1>2
<1>4. at'[r] = "ended" /\ \A q \in Visitor : q # r => at'[q] = at[q]
  BY <1>1, <1>2
<1>5. \A s \in R!Status : requestCount[s] # R!NoCounter =>
        /\ requestCount[s] \in Visitor /\ recorded[requestCount[s]] = s
        /\ at'[requestCount[s]] \in {"counting", "ended"}
        /\ requestCount[s] = k => s = t
  <2> SUFFICES ASSUME NEW s \in R!Status, requestCount[s] # R!NoCounter
               PROVE  /\ requestCount[s] \in Visitor /\ recorded[requestCount[s]] = s
                      /\ at'[requestCount[s]] \in {"counting", "ended"}
                      /\ requestCount[s] = k => s = t
    OBVIOUS
  <2>1. /\ requestCount[s] \in Visitor /\ recorded[requestCount[s]] = s
        /\ at[requestCount[s]] \in {"counting", "ended"}
        /\ recorded[k] = t
    BY <1>1, <1>2 DEF MetricsInv, CountersNamed
  <2> QED BY <1>4, <2>1
<1>6. /\ Ended(t)' = Ended(t) \cup {r} /\ r \notin Ended(t)
      /\ \A s \in R!Status : s # t => Ended(s)' = Ended(s)
  <2>1. \A s \in R!Status : \A q \in Visitor :
          (at'[q] = "ended" /\ recorded'[q] = s)
            <=> ((at[q] = "ended" /\ recorded[q] = s) \/ (q = r /\ s = t))
    BY <1>1, <1>4 DEF t
  <2>2. {q \in Visitor : at'[q] = "ended" /\ recorded'[q] = t}
          = {q \in Visitor : at[q] = "ended" /\ recorded[q] = t} \cup {r}
    BY <1>1, <2>1
  <2>3. t' = t
    BY <1>1 DEF t
  <2>4. r \notin Ended(t)
    BY <1>1 DEF Ended
  <2>5. \A s \in R!Status : s # t => Ended(s)' = Ended(s)
    BY <2>1 DEF Ended
  <2> QED BY <2>2, <2>3, <2>4, <2>5 DEF Ended
<1>7. CountersNamed'
  <2>1. \A s \in R!Status : requestCount'[s] # R!NoCounter =>
          recorded'[requestCount'[s]] = s /\ at'[requestCount'[s]] \in {"counting", "ended"}
    BY <1>1, <1>5
  <2>2. counter' \in [Visitor -> Visitor \cup {R!NoCounter}] /\ count' \in [Visitor -> Nat]
    BY <1>1, <1>3 DEF MetricsInv, CountersNamed
  <2>3. \A s \in R!Status : requestCount'[s] = R!NoCounter => Ended(s)' = {}
    BY <1>1, <1>2, <1>6 DEF MetricsInv, CountersNamed
  <2>4. \A q \in Visitor : (\A s \in R!Status : requestCount'[s] # q) => count'[q] = 0
    <3> SUFFICES ASSUME NEW q \in Visitor, \A s \in R!Status : requestCount[s] # q
                 PROVE  count'[q] = 0
      BY <1>1
    <3>1. q # k
      BY <1>1, <1>2
    <3> QED BY <1>3, <3>1 DEF MetricsInv, CountersNamed
  <2>5. \A q \in Visitor : at'[q] \in Recording => recorded'[q] \in R!Status
    BY <1>1, <1>4 DEF MetricsInv, CountersNamed, Recording
  <2>6. \A q \in Visitor : at'[q] = "counting" =>
          counter'[q] = requestCount'[recorded'[q]] /\ counter'[q] # R!NoCounter
    BY <1>1, <1>4 DEF MetricsInv, CountersNamed
  <2>7. \A q \in Visitor : at'[q] \notin Recording \cup {"ended"} => recorded'[q] = 0
    BY <1>1, <1>4 DEF MetricsInv, CountersNamed, Recording
  <2> QED BY <2>1, <2>2, <2>3, <2>4, <2>5, <2>6, <2>7 DEF CountersNamed
<1>8. Counts'
  <2> SUFFICES ASSUME NEW s \in R!Status, requestCount[s] # R!NoCounter
               PROVE  count'[requestCount[s]] = Cardinality(Ended(s)')
    BY <1>1 DEF Counts
  <2>1. count[requestCount[s]] = Cardinality(Ended(s))
    BY DEF MetricsInv, Counts
  <2>2. CASE s = t
    <3>1. IsFiniteSet(Ended(t))
      BY ChainCardinality, FS_Subset DEF R!ChainParameters, Ended
    <3>2. Ended(s) = Ended(t) /\ Ended(s)' = Ended(t) \cup {r}
      <4>1. t' = t
        BY <1>1 DEF t
      <4> QED BY <1>6, <2>2, <4>1 DEF Ended
    <3>3. Cardinality(Ended(s)') = Cardinality(Ended(t)) + 1
      BY <1>6, <3>1, <3>2, FS_AddElement
    <3>4. requestCount[s] = k
      BY <1>2, <2>2
    <3> QED BY <1>3, <2>1, <3>2, <3>3, <3>4
  <2>3. CASE s # t
    <3>1. requestCount[s] # k /\ requestCount[s] \in Visitor
      BY <1>5, <2>3
    <3> QED BY <1>3, <1>6, <2>1, <2>3, <3>1
  <2> QED BY <2>2, <2>3
<1> QED BY <1>7, <1>8 DEF MetricsInv

\* Each step keeps the counts.
LEMMA MetricsStep ==
  ASSUME R!ChainParameters, MetricsInv, [R!Next]_chainVars
  PROVE  MetricsInv'
<1>1. R!TypeOK'
  BY ChainTyped DEF MetricsInv
<1>2. /\ at \in [Visitor -> Place]
  BY DEF MetricsInv, R!TypeOK, Place
<1>3. ASSUME UNCHANGED <<recorded, requestCount, counter, count>>,
             \/ UNCHANGED at
             \/ \E r \in Visitor, s \in Place :
                  /\ at' = [at EXCEPT ![r] = s]
                  /\ at[r] \notin Recording \cup {"ended"} /\ s \notin Recording
      PROVE  MetricsInv'
  <2>1. \A q \in Visitor : at'[q] # at[q] =>
          at[q] \notin Recording \cup {"ended"} /\ at'[q] \notin Recording
    BY <1>2, <1>3
  <2> QED BY <1>1, <1>3, <2>1, MetricsRest
<1>4. ASSUME NEW r \in Visitor, R!Arrive(r)
      PROVE  MetricsInv'
  <2>1. /\ UNCHANGED <<recorded, requestCount, counter, count>> /\ at[r] = "idle"
        /\ \E s \in {"refused", "starting"} : at' = [at EXCEPT ![r] = s]
    BY <1>4 DEF R!Arrive, R!Goes, R!metricsVars
  <2> QED BY <1>3, <2>1 DEF Recording, Place
<1>5. ASSUME NEW r \in Visitor, R!HandlerLooks(r) \/ R!HandlerWrites(r)
      PROVE  MetricsInv'
  BY <1>3, <1>5 DEF R!HandlerLooks, R!HandlerWrites, R!metricsVars
<1>6. ASSUME NEW r \in Visitor, R!HandlerPanics(r) \/ R!ClosesDone(r) \/ R!Deadline(r)
      PROVE  MetricsInv'
  <2>1. /\ UNCHANGED <<recorded, requestCount, counter, count>>
        /\ \/ UNCHANGED at
           \/ /\ at[r] = "parked"
              /\ \E s \in {"panicking", "leaving", "expired"} : at' = [at EXCEPT ![r] = s]
    BY <1>6 DEF R!HandlerPanics, R!ClosesDone, R!Deadline, R!Goes, R!metricsVars
  <2> QED BY <1>3, <2>1 DEF Recording, Place
<1>7. ASSUME NEW r \in Visitor,
             R!Select(r) \/ R!TimeoutLooks(r) \/ R!TimeoutWrites(r) \/ R!Recover(r) \/ R!Leave(r)
      PROVE  MetricsInv'
  <2>1. /\ UNCHANGED <<recorded, requestCount, counter, count>>
        /\ at[r] \in Counted
        /\ \E s \in Counted \cup {"ended", "recording"} : at' = [at EXCEPT ![r] = s]
    BY <1>7 DEF R!Select, R!TimeoutLooks, R!TimeoutWrites, R!Recover, R!Leave, R!Goes,
                R!metricsVars, Counted
  <2> QED BY <1>3, <2>1 DEF Recording, Place, Counted
<1>8. CASE UNCHANGED chainVars
  BY <1>3, <1>8 DEF chainVars
<1> QED
  BY <1>1, <1>4, <1>5, <1>6, <1>7, <1>8, MetricsLooks, MetricsCreates, MetricsCounts
  DEF R!Next, R!Serve

LEMMA ChainInit ==
  ASSUME R!ChainParameters, R!Init
  PROVE  ActiveInv /\ (\A q \in Visitor : Told(q)) /\ MetricsInv
<1>1. R!TypeOK
  BY DEF R!Init, R!TypeOK, R!Status
<1>2. R!InChain = {} /\ LetIn = {}
  BY DEF R!Init, R!InChain, LetIn
<1>3. ActiveInv
  <2>1. {r \in R!InChain : at[r] # "refused"} = {}
    BY <1>2
  <2>2. R!Cardinality({}) = 0
    BY FS_EmptySet, ChainCardinality
  <2>3. activeRequests = 0 /\ 0 <= MaxActiveRequests
    BY DEF R!Init, R!ChainParameters
  <2> QED BY <1>1, <1>2, <2>1, <2>2, <2>3 DEF ActiveInv, R!ActiveBounded
<1>4. \A q \in Visitor : Told(q)
  BY DEF R!Init, Told
<1>5. \A s \in R!Status : Ended(s) = {} /\ requestCount[s] = R!NoCounter
  BY DEF R!Init, Ended
<1>6. CountersNamed
  BY <1>5 DEF R!Init, CountersNamed, Recording
<1>7. Counts
  BY <1>5 DEF Counts
<1> QED BY <1>1, <1>3, <1>4, <1>6, <1>7 DEF MetricsInv

LEMMA ChainImplies ==
  ASSUME R!ChainParameters, ActiveInv, \A q \in Visitor : Told(q), MetricsInv
  PROVE  R!ActiveBounded /\ R!AnswersTrue /\ R!MetricsExact
<1>1. R!AnswersTrue
  BY DEF Told, R!AnswersTrue
<1>2. \A s \in R!Status :
        R!Cardinality({r \in Visitor : at[r] = "ended" /\ recorded[r] = s}) = Cardinality(Ended(s))
  BY ChainCardinality DEF Ended
<1>3. R!MetricsExact
  BY <1>2 DEF MetricsInv, Counts, R!MetricsExact
<1> QED BY <1>1, <1>3 DEF ActiveInv

\* OverloadProtection, Timeout, PanicRecovery, Record: the counter of active requests is exact
\* and never are more let in, an answer has its reason, and the metrics lose no request,
\* however handlers and deadlines race.
THEOREM ChainSound ==
  ASSUME R!ChainParameters
  PROVE  R!Spec => [](R!ActiveBounded /\ R!AnswersTrue /\ R!MetricsExact)
<1> DEFINE ToldAll == \A q \in Visitor : Told(q)
<1>1. R!Init => ActiveInv /\ ToldAll /\ MetricsInv
  BY ChainInit
<1>2. ActiveInv /\ ToldAll /\ MetricsInv /\ [R!Next]_(R!chainVars) => (ActiveInv /\ ToldAll /\ MetricsInv)'
  <2> SUFFICES ASSUME ActiveInv, ToldAll, MetricsInv, [R!Next]_chainVars
               PROVE  ActiveInv' /\ ToldAll' /\ MetricsInv'
    BY DEF chainVars, R!chainVars
  <2>1. R!TypeOK
    BY DEF ActiveInv
  <2> QED BY <2>1, ActiveStep, ToldStep, MetricsStep
<1>3. ActiveInv /\ ToldAll /\ MetricsInv => R!ActiveBounded /\ R!AnswersTrue /\ R!MetricsExact
  BY ChainImplies
<1> HIDE DEF ToldAll
<1> QED BY <1>1, <1>2, <1>3, PTL DEF R!Spec

-----------------------------------------------------------------------------
(* The suite. *)

\* A step of the suite is a step of a component, or leaves it alone.
LEMMA SuiteSteps ==
  ASSUME [SuiteNext]_suiteVars
  PROVE  /\ [Next]_bucketVars /\ [B!Next]_breakerVars /\ [L!PoolNext]_poolVars
         /\ [L!LoadNext]_loadVars /\ [L!LatencyNext]_emaVars
         /\ [L!WorkloadNext]_workloadVars /\ [L!TokenNext]_tokenVars /\ [R!Next]_chainVars
<1> USE DEF SuiteNext, Rests, suiteVars
<1>1. [Next]_bucketVars /\ [B!Next]_breakerVars /\ [L!PoolNext]_poolVars
  OBVIOUS
<1>2. [L!LoadNext]_loadVars /\ [L!LatencyNext]_emaVars
  OBVIOUS
<1>3. [L!WorkloadNext]_workloadVars /\ [L!TokenNext]_tokenVars /\ [R!Next]_chainVars
  OBVIOUS
<1> QED BY <1>1, <1>2, <1>3

\* The limits hold for any numbers of users, requests and calls, of connections, of requests
\* in flight and of tokens, if no connection is closed twice.
THEOREM SuiteLimitsHold ==
  ASSUME ~MayCloseTwice
  PROVE  SuiteSpec => []LimitsHold
<1> DEFINE Limited == PoolInv /\ LoadInv /\ EMAInv /\ TokenInv
<1>1. SuiteInit => Limited
  BY PoolInit, ShedderInit, TokenInit, Parameters DEF SuiteInit, Parameters
<1>2. Limited /\ [SuiteNext]_suiteVars => Limited'
  BY SuiteSteps, PoolStep, LoadStep, EMAStep, TokenStep, Parameters DEF Parameters
<1>3. Limited => LimitsHold
  BY PoolImplies, ShedderImplies, TokenImplies, ExcessImplied, Parameters DEF Parameters, LimitsHold
<1> HIDE DEF Limited
<1> QED BY <1>1, <1>2, <1>3, PTL DEF SuiteSpec, SuiteOnly

\* The breaker contains an outage.
THEOREM SuiteContainsOutages == SuiteSpec => []OutageContained
<1>1. SuiteInit => BreakerInv
  BY BreakerInit, Parameters DEF SuiteInit, Parameters
<1>2. BreakerInv /\ [SuiteNext]_suiteVars => BreakerInv'
  BY SuiteSteps, BreakerStep, Parameters DEF Parameters
<1>3. BreakerInv => OutageContained
  BY BreakerImplies, Parameters DEF Parameters, OutageContained
<1> QED BY <1>1, <1>2, <1>3, PTL DEF SuiteSpec, SuiteOnly

\* The chain loses no request and answers truly.
THEOREM SuiteAccountsRequests == SuiteSpec => []RequestsAccounted
<1> DEFINE Accounted == ActiveInv /\ (\A q \in Visitor : Told(q)) /\ MetricsInv
<1>1. SuiteInit => Accounted
  BY ChainInit, Parameters DEF SuiteInit, Parameters
<1>2. Accounted /\ [SuiteNext]_suiteVars => Accounted'
  <2> SUFFICES ASSUME Accounted, [SuiteNext]_suiteVars
               PROVE  Accounted'
    OBVIOUS
  <2>1. R!TypeOK /\ [R!Next]_chainVars
    BY SuiteSteps DEF ActiveInv
  <2> QED BY <2>1, ActiveStep, ToldStep, MetricsStep, Parameters DEF Parameters
<1>3. Accounted => RequestsAccounted
  BY ChainImplies, Parameters DEF Parameters, RequestsAccounted
<1> HIDE DEF Accounted
<1> QED BY <1>1, <1>2, <1>3, PTL DEF SuiteSpec, SuiteOnly

\* Every variable keeps its type: no job is started twice, no channel holds more tokens than
\* it has room for, no bucket more than its capacity.
THEOREM SuiteKeepsTypes ==
  ASSUME ~MayCloseTwice
  PROVE  SuiteSpec => []SuiteTypeOK
<1> DEFINE Spiked == degraded \in BOOLEAN /\ spikes \in 0..MaxSpikes
           Typed == /\ TypeOK /\ BreakerInv /\ PoolInv /\ LoadInv /\ EMAInv /\ Spiked
                    /\ JobInv /\ TokenInv /\ Roomy /\ ActiveInv
<1> USE Parameters DEF Parameters
<1>1. SuiteInit => Typed
  <2> SUFFICES ASSUME SuiteInit
               PROVE  Typed
    OBVIOUS
  <2>1. Init /\ B!Init /\ L!PoolInit /\ L!ShedderInit /\ L!BulkheadInit /\ R!Init
    BY DEF SuiteInit
  <2>2. Spiked
    <3>1. 0 \in 0..MaxSpikes
      BY DEF L!ShedderParameters
    <3>2. degraded = FALSE /\ spikes = 0
      BY <2>1 DEF L!ShedderInit
    <3> QED BY <3>1, <3>2, Zenon
  <2>3. Roomy
    BY <2>1 DEF L!BulkheadInit, L!BulkheadParameters, Roomy
  <2>4. LoadInv /\ EMAInv
    BY <2>1, ShedderInit
  <2> QED BY <2>1, <2>2, <2>3, <2>4, InitRefines, BreakerInit, PoolInit, JobInit, TokenInit, ChainInit
<1>2. Typed /\ [SuiteNext]_suiteVars => Typed'
  <2> SUFFICES ASSUME Typed, [SuiteNext]_suiteVars
               PROVE  Typed'
    OBVIOUS
  <2>1. /\ [Next]_bucketVars /\ [B!Next]_breakerVars /\ [L!PoolNext]_poolVars
        /\ [L!LoadNext]_loadVars /\ [L!LatencyNext]_emaVars
        /\ [L!WorkloadNext]_workloadVars /\ [L!TokenNext]_tokenVars /\ [R!Next]_chainVars
    BY SuiteSteps
  <2>2. Spiked'
    <3>1. spikes \in 0..MaxSpikes /\ degraded \in BOOLEAN /\ MaxSpikes \in Nat
      BY DEF L!ShedderParameters
    <3>2. /\ spikes' = spikes \/ (spikes < MaxSpikes /\ spikes' = spikes + 1)
          /\ degraded' = degraded \/ degraded' = TRUE \/ degraded' = FALSE
      BY <2>1 DEF L!LatencyNext, L!AllowBelowTarget, L!Done, L!Degrade, L!Recover, emaVars
    <3>3. spikes' \in 0..MaxSpikes
      BY <3>1, <3>2
    <3> QED BY <3>1, <3>2, <3>3, Zenon
  <2>3. TokenInv'
    BY <2>1, TokenStep
  <2>4. R!TypeOK
    BY DEF ActiveInv
  <2>5. ActiveInv'
    BY <2>1, <2>4, ActiveStep
  <2> QED BY <2>1, <2>2, <2>3, <2>5, BucketTyped, BreakerStep, PoolStep, LoadStep, EMAStep,
             JobStep, RoomyStep
<1>3. Typed => SuiteTypeOK
  <2> SUFFICES ASSUME Typed
               PROVE  SuiteTypeOK
    OBVIOUS
  <2>1. L!ShedderTypeOK
    BY DEF L!ShedderTypeOK, LoadInv, Layered, EMAInv
  <2>2. slots \in [L!Channel -> 0..MaxConcurrency]
    BY DEF TokenInv, Roomy, L!BulkheadParameters
  <2>3. L!BulkheadTypeOK
    BY <2>2 DEF L!BulkheadTypeOK, JobInv, TokenInv
  <2> QED BY <2>1, <2>3 DEF SuiteTypeOK, BreakerInv, PoolInv, ActiveInv
<1> HIDE DEF Typed
<1> QED BY <1>1, <1>2, <1>3, PTL DEF SuiteSpec, SuiteOnly

=============================================================================
