-------------------------- MODULE ConcurrencyProofs --------------------------
(***************************************************************************)
(* Theorems about the semaphore, queue, worker pool, channel stages,       *)
(* termination, batch loader, resource tracker and groups of goroutines,   *)
(* and about their suite, for every value of the constants.                *)
(***************************************************************************)
EXTENDS MCConcurrency, FiniteSetTheorems, SequenceTheorems, WellFoundedInduction, TLAPS

-----------------------------------------------------------------------------
(* The semaphore. *)

\* Without cuts one entry out: what is left was there before, in order.
LEMMA WithoutProperties ==
  ASSUME NEW c \in Caller, waiters \in Seq(Caller),
         \A i, j \in 1..Len(waiters) : waiters[i] = waiters[j] => i = j
  PROVE  /\ Without(c) \in Seq(Caller)
         /\ \A i \in 1..Len(Without(c)) :
              /\ Without(c)[i] # c
              /\ \E k \in 1..Len(waiters) : Without(c)[i] = waiters[k]
         /\ \A i, j \in 1..Len(Without(c)) : Without(c)[i] = Without(c)[j] => i = j
<1> DEFINE at == {i \in 1..Len(waiters) : waiters[i] = c}
<1>1. CASE at = {}
  BY <1>1 DEF Without
<1>2. CASE at # {}
  <2>1. PICK k \in at : TRUE
    BY <1>2
  <2>2. k \in 1..Len(waiters) /\ waiters[k] = c /\ at = {k}
    BY <2>1
  <2>3. (CHOOSE i \in at : \A j \in at : i <= j) = k
    BY <2>2
  <2> DEFINE s == SubSeq(waiters, 1, k - 1)
             t == SubSeq(waiters, k + 1, Len(waiters))
  <2>4. Without(c) = s \o t
    BY <1>2, <2>3 DEF Without
  <2>5. /\ s \in Seq(Caller) /\ Len(s) = k - 1
        /\ \A i \in 1..(k - 1) : s[i] = waiters[i]
    BY <2>2, SubSeqProperties
  <2>6. /\ t \in Seq(Caller) /\ Len(t) = Len(waiters) - k
        /\ \A i \in 1..(Len(waiters) - k) : t[i] = waiters[k + i]
    BY <2>2, SubSeqProperties, LenProperties
  <2>7. /\ Without(c) \in Seq(Caller)
        /\ Len(Without(c)) = Len(waiters) - 1
        /\ \A i \in 1..(Len(waiters) - 1) :
             Without(c)[i] = IF i < k THEN waiters[i] ELSE waiters[i + 1]
    <3> HIDE DEF s, t
    <3>1. Len(waiters) \in Nat /\ k \in 1..Len(waiters)
      BY <2>2, LenProperties
    <3>2. /\ s \o t \in Seq(Caller)
          /\ Len(s \o t) = Len(s) + Len(t)
          /\ \A i \in 1..(Len(s) + Len(t)) :
               (s \o t)[i] = IF i <= Len(s) THEN s[i] ELSE t[i - Len(s)]
      <4>1. s \in Seq(Caller) /\ t \in Seq(Caller)
        BY <2>5, <2>6
      <4>2. QED
        BY ONLY <4>1, ConcatProperties
    <3>3. Len(s) + Len(t) = Len(waiters) - 1
      BY <2>5, <2>6, <3>1
    <3>4. ASSUME NEW i \in 1..(Len(waiters) - 1)
          PROVE  (s \o t)[i] = IF i < k THEN waiters[i] ELSE waiters[i + 1]
      <4>1. CASE i < k
        <5>1. i <= Len(s) /\ i \in 1..(k - 1)
          BY <4>1, <2>5, <3>1
        <5>2. QED
          BY <4>1, <5>1, <2>5, <3>2, <3>3
      <4>2. CASE ~(i < k)
        <5>1. ~(i <= Len(s)) /\ i - Len(s) = i + 1 - k /\ i + 1 - k \in 1..(Len(waiters) - k)
          BY <4>2, <2>5, <3>1
        <5>2. t[i + 1 - k] = waiters[i + 1]
          BY <5>1, <2>6, <3>1
        <5>3. QED
          BY <4>2, <5>1, <5>2, <3>2, <3>3
      <4>3. QED
        BY <4>1, <4>2
    <3>5. QED
      BY <2>4, <3>2, <3>3, <3>4
  <2> DEFINE from(i) == IF i < k THEN i ELSE i + 1
  <2>8. /\ Len(waiters) \in Nat /\ k \in 1..Len(waiters)
        /\ \A i \in 1..Len(Without(c)) : i \in 1..(Len(waiters) - 1)
    BY <2>2, <2>7, LenProperties
  <2>9. \A i \in 1..Len(Without(c)) :
          /\ from(i) \in 1..Len(waiters) /\ from(i) # k
          /\ Without(c)[i] = waiters[from(i)]
    BY <2>7, <2>8
  <2>10. \A i, j \in 1..Len(Without(c)) : from(i) = from(j) => i = j
    BY <2>8
  <2> HIDE DEF from
  <2>11. \A i \in 1..Len(Without(c)) : Without(c)[i] # c
    BY <2>2, <2>9
  <2>12. QED
    BY <2>7, <2>9, <2>10, <2>11
<1>3. QED
  BY <1>1, <1>2

\* The number of callers woken is at most the number of waiters popped.
LEMMA WokenProperties ==
  ASSUME waiters \in Seq(Caller), NEW k \in Nat, k <= Len(waiters)
  PROVE  /\ Woken(k) \subseteq Caller
         /\ IsFiniteSet(Woken(k)) /\ Cardinality(Woken(k)) <= k
<1> DEFINE f == [i \in 1..k |-> waiters[i]]
<1>1. Woken(k) \subseteq Caller
  BY ElementOfSeq, LenProperties DEF Woken
<1>2. f \in Surjection(1..k, Woken(k))
  BY DEF Surjection, Woken
<1>3. IsFiniteSet(1..k) /\ Cardinality(1..k) = k
  BY FS_Interval
<1>4. QED
  BY <1>1, <1>2, <1>3, FS_Surjection DEF ExistsSurjection

-----------------------------------------------------------------------------
\* What Release computes: at most the free units are granted, to queued callers.
LEMMA PoppedProperties ==
  ASSUME TypeOK, NEW n \in Weights
  PROVE  /\ Subtract(n) \in 0..Capacity
         /\ Popped(Subtract(n)) \in Nat
         /\ Popped(Subtract(n)) <= Len(waiters)
         /\ Charge(Subtract(n), Popped(Subtract(n))) \in 0..Capacity
<1>1. n \in Int /\ n >= 1 /\ Capacity \in Nat /\ Len(waiters) \in Nat
  BY SemaphoreAssumption, LenProperties DEF TypeOK
<1>2. current \in Int /\ 0 <= current /\ current <= Capacity
  BY <1>1 DEF TypeOK
<1> DEFINE cur == Subtract(n)
<1>3. cur \in Int /\ 0 <= cur /\ cur <= Capacity
  BY <1>1, <1>2 DEF Subtract
<1> HIDE DEF cur
<1>4. /\ Popped(cur) \in Nat /\ Popped(cur) <= Len(waiters)
      /\ Charge(cur, Popped(cur)) \in 0..Capacity
  BY <1>1, <1>3 DEF Popped, Charge
<1>5. QED
  BY <1>1, <1>3, <1>4 DEF cur

\* Two finite sets together have no more members than the sum of theirs.
LEMMA UnionBound ==
  ASSUME NEW s, NEW t, IsFiniteSet(s), IsFiniteSet(t)
  PROVE  /\ IsFiniteSet(s \cup t) /\ Cardinality(s \cup t) \in Nat
         /\ Cardinality(s \cup t) <= Cardinality(s) + Cardinality(t)
<1>1. /\ IsFiniteSet(s \cup t)
      /\ Cardinality(s \cup t) = Cardinality(s) + Cardinality(t) - Cardinality(s \cap t)
  BY FS_Union
<1>2. IsFiniteSet(s \cap t)
  BY FS_Subset, s \cap t \subseteq s
<1>3. /\ Cardinality(s) \in Nat /\ Cardinality(t) \in Nat /\ Cardinality(s \cap t) \in Nat
      /\ Cardinality(s \cup t) \in Nat
  BY <1>1, <1>2, FS_CardinalityType
<1> QED BY <1>1, <1>3

\* As many units as a waiter wants make so many pairs.
LEMMA PairsCounted ==
  ASSUME NEW S, IsFiniteSet(S), NEW n \in Nat
  PROVE  IsFiniteSet(S \X (1..n)) /\ Cardinality(S \X (1..n)) = Cardinality(S) * n
<1>1. IsFiniteSet(1..n) /\ Cardinality(1..n) = n
  BY FS_Interval
<1> QED BY <1>1, FS_Product

\* The units that k grants give.
GivenUnits(k) == {u \in Woken(k) \X (1..Capacity) : u[2] <= want[u[1]]}

\* They are one for each grant, and those that are not charged.
LEMMA GivenBound ==
  ASSUME TypeOK, NEW k \in Nat, k <= Len(waiters)
  PROVE  /\ IsFiniteSet(GivenUnits(k)) /\ Cardinality(GivenUnits(k)) \in Nat
         /\ Cardinality(Unpaid(k)) \in Nat
         /\ Cardinality(GivenUnits(k)) <= k + Cardinality(Unpaid(k))
<1> DEFINE ones == Woken(k) \X (1..1)
<1>1. Capacity \in Nat /\ 1 \in Nat
  BY SemaphoreAssumption
<1>2. Woken(k) \subseteq Caller /\ IsFiniteSet(Woken(k)) /\ Cardinality(Woken(k)) <= k
  BY WokenProperties DEF TypeOK
<1>3. Cardinality(Woken(k)) \in Nat
  BY <1>2, FS_CardinalityType
<1>4. IsFiniteSet(ones) /\ Cardinality(ones) = Cardinality(Woken(k)) * 1
  <2> HIDE DEF ones
  <2>1. IsFiniteSet(Woken(k) \X (1..1)) /\ Cardinality(Woken(k) \X (1..1)) = Cardinality(Woken(k)) * 1
    BY <1>1, <1>2, PairsCounted
  <2> QED BY <2>1 DEF ones
<1>5. IsFiniteSet(Woken(k) \X (1..Capacity))
  BY <1>1, <1>2, PairsCounted
<1>6. Unpaid(k) \subseteq Woken(k) \X (1..Capacity)
  BY <1>1 DEF Unpaid
<1>7. GivenUnits(k) \subseteq ones \cup Unpaid(k)
  BY <1>1 DEF GivenUnits, Unpaid
<1>8. IsFiniteSet(Unpaid(k)) /\ Cardinality(Unpaid(k)) \in Nat
  BY <1>5, <1>6, FS_Subset, FS_CardinalityType
<1> HIDE DEF ones
<1>9. /\ IsFiniteSet(ones \cup Unpaid(k)) /\ Cardinality(ones \cup Unpaid(k)) \in Nat
      /\ Cardinality(ones \cup Unpaid(k)) <= Cardinality(ones) + Cardinality(Unpaid(k))
  BY <1>4, <1>8, UnionBound
<1>10. /\ IsFiniteSet(GivenUnits(k)) /\ Cardinality(GivenUnits(k)) \in Nat
       /\ Cardinality(GivenUnits(k)) <= Cardinality(ones \cup Unpaid(k))
  BY <1>7, <1>9, FS_Subset, FS_CardinalityType
<1> QED BY <1>2, <1>3, <1>4, <1>8, <1>9, <1>10

\* The units held are among those that the callers can hold together.
LEMMA UnitsFinite ==
  ASSUME TypeOK
  PROVE  /\ Inside \subseteq Caller
         /\ IsFiniteSet(UnitsHeld) /\ Cardinality(UnitsHeld) \in Nat
         /\ AllUnits \in Nat /\ Cardinality(UnitsHeld) <= AllUnits
<1>1. Inside \subseteq Caller
  BY DEF Inside, Holding, TypeOK
<1>2. UnitsHeld \subseteq Caller \X (1..Capacity)
  BY <1>1 DEF UnitsHeld
<1>3. IsFiniteSet(Caller \X (1..Capacity)) /\ AllUnits \in Nat
  BY SemaphoreAssumption, PairsCounted, FS_CardinalityType DEF AllUnits
<1> QED BY <1>1, <1>2, <1>3, FS_Subset, FS_CardinalityType DEF AllUnits

\* Every holder acquired one of the weights, never zero.
WantOK == \A c \in Caller : pc[c] # "idle" => want[c] \in Weights

IInv == TypeOK /\ WantOK /\ QueueWellFormed

\* The empty semaphore satisfies the invariant.
LEMMA InitIInv == Init => IInv
<1>1. AllUnits \in Nat
  BY SemaphoreAssumption, PairsCounted, FS_CardinalityType DEF AllUnits
<1> QED BY <1>1, SemaphoreAssumption DEF Init, IInv, TypeOK, WantOK, QueueWellFormed

\* Every step preserves it; Release and Withdraw change the queue.
LEMMA NextIInv == IInv /\ [Next]_vars => IInv'
<1> SUFFICES ASSUME IInv, [Next]_vars
             PROVE  IInv'
  OBVIOUS
<1> USE DEF IInv
<1>0. Capacity \in Nat /\ Weights \subseteq 1..Capacity /\ Len(waiters) \in Nat
  BY SemaphoreAssumption, LenProperties DEF TypeOK
<1>1. ASSUME NEW c \in Caller, NEW n \in Weights, Take(c, n)
      PROVE  IInv'
  <2>1. current + n \in 0..Capacity
    BY <1>0, <1>1 DEF Take, Fits, TypeOK
  <2>2. TypeOK'
    BY <1>1, <2>1 DEF Take, TypeOK
  <2>3. WantOK' /\ QueueWellFormed'
    BY <1>1 DEF Take, TypeOK, WantOK, QueueWellFormed
  <2>4. QED
    BY <2>2, <2>3
<1>2. ASSUME NEW c \in Caller, NEW n \in Weights, Enqueue(c, n)
      PROVE  IInv'
  <2>1. /\ waiters' \in Seq(Caller) /\ Len(waiters') = Len(waiters) + 1
        /\ \A i \in 1..Len(waiters) : waiters'[i] = waiters[i]
        /\ waiters'[Len(waiters) + 1] = c
    BY <1>2, AppendProperties DEF Enqueue, TypeOK
  <2>2. TypeOK'
    BY <1>2, <2>1 DEF Enqueue, TypeOK
  <2>3. WantOK'
    BY <1>2 DEF Enqueue, TypeOK, WantOK
  <2>4. \A i \in 1..Len(waiters) : waiters[i] \in Caller /\ waiters[i] # c
    BY <1>2, ElementOfSeq DEF Enqueue, TypeOK, QueueWellFormed
  <2>5. c \notin closed
    BY <1>2 DEF Enqueue, QueueWellFormed
  <2>6. QueueWellFormed'
    BY <1>0, <1>2, <2>1, <2>4, <2>5 DEF Enqueue, TypeOK, QueueWellFormed
  <2>7. QED
    BY <2>2, <2>3, <2>6
<1>3. ASSUME NEW c \in Caller, Expire(c)
      PROVE  IInv'
  BY <1>3 DEF Expire, TypeOK, WantOK, QueueWellFormed
<1>4. ASSUME NEW c \in Caller, Granted(c)
      PROVE  IInv'
  <2>1. \A i \in 1..Len(waiters) : waiters[i] # c
    BY <1>4 DEF Granted, QueueWellFormed
  <2>2. QED
    BY <1>4, <2>1 DEF Granted, TypeOK, WantOK, QueueWellFormed
<1>5. ASSUME NEW c \in Caller, ChooseDone(c)
      PROVE  IInv'
  BY <1>5 DEF ChooseDone, TypeOK, WantOK, QueueWellFormed
<1>6. ASSUME NEW c \in Caller, Withdraw(c)
      PROVE  IInv'
  <2>1. /\ waiters' \in Seq(Caller)
        /\ \A i \in 1..Len(waiters') :
             waiters'[i] # c /\ \E k \in 1..Len(waiters) : waiters'[i] = waiters[k]
        /\ \A i, j \in 1..Len(waiters') : waiters'[i] = waiters'[j] => i = j
    BY <1>6, WithoutProperties DEF Withdraw, TypeOK, QueueWellFormed
  <2>2. TypeOK'
    BY <1>6, <2>1 DEF Withdraw, TypeOK
  <2>3. WantOK'
    BY <1>6 DEF Withdraw, TypeOK, WantOK
  <2>4. QueueWellFormed'
    <3>1. \A d \in Caller \ {c} : pc'[d] = pc[d]
      BY <1>6 DEF Withdraw, TypeOK
    <3>2. closed' = closed \ {c} /\ closed \subseteq Caller
      BY <1>6 DEF Withdraw, TypeOK
    <3>3. \A i \in 1..Len(waiters') : waiters'[i] \in Caller \ {c}
      BY <2>1, ElementOfSeq
    <3>4. \A i \in 1..Len(waiters') :
            pc'[waiters'[i]] \in {"waiting", "withdrawing"} /\ waiters'[i] \notin closed'
      <4>1. TAKE i \in 1..Len(waiters')
      <4>2. PICK j \in 1..Len(waiters) : waiters'[i] = waiters[j]
        BY <2>1
      <4>3. pc[waiters[j]] \in {"waiting", "withdrawing"} /\ waiters[j] \notin closed
        BY DEF QueueWellFormed
      <4> QED BY <3>1, <3>2, <3>3, <4>2, <4>3
    <3>5. \A d \in closed' : pc'[d] \in {"waiting", "withdrawing"}
      BY <3>1, <3>2 DEF QueueWellFormed
    <3> QED BY <2>1, <3>4, <3>5 DEF QueueWellFormed
  <2>5. QED
    BY <2>2, <2>3, <2>4
<1>7. ASSUME NEW c \in Caller, Release(c)
      PROVE  IInv'
  <2> DEFINE k == Popped(Subtract(want[c]))
  <2>1. want[c] \in Weights
    BY <1>7 DEF Release, WantOK
  <2>2. k \in Nat /\ k <= Len(waiters) /\ current' \in 0..Capacity
    BY <1>7, <2>1, PoppedProperties DEF Release
  <2>3. /\ waiters' \in Seq(Caller)
        /\ Len(waiters') = Len(waiters) - k
        /\ \A i \in 1..Len(waiters') : waiters'[i] = waiters[k + i]
    <3>1. waiters' = SubSeq(waiters, k + 1, Len(waiters))
      BY <1>7 DEF Release
    <3>2. \A i \in (k + 1)..Len(waiters) : waiters[i] \in Caller
      BY <2>2, ElementOfSeq DEF TypeOK
    <3> HIDE DEF k
    <3>3. QED
      BY <1>0, <2>2, <3>1, <3>2, SubSeqProperties
  <2>4. closed' = closed \cup Woken(k)
    BY <1>7 DEF Release
  <2>5. Woken(k) \subseteq Caller
    BY <2>2, WokenProperties DEF TypeOK
  <2>50. uncharged' \in 0..AllUnits
    <3>1. uncharged' = CountedUpTo(uncharged + Cardinality(Unpaid(k)))
      BY <1>7 DEF Release
    <3>2. Cardinality(Unpaid(k)) \in Nat /\ AllUnits \in Nat /\ uncharged \in Nat
      BY <2>2, GivenBound, UnitsFinite DEF TypeOK
    <3> HIDE DEF k
    <3> QED BY <3>1, <3>2 DEF CountedUpTo
  <2> HIDE DEF k
  <2>6. TypeOK'
    BY <1>7, <2>2, <2>3, <2>4, <2>5, <2>50 DEF Release, TypeOK
  <2>7. WantOK'
    BY <1>7 DEF Release, TypeOK, WantOK
  <2>8. QueueWellFormed'
    <3>1. \A i \in 1..Len(waiters) : waiters[i] # c /\ waiters[i] \in Caller
      BY <1>7, ElementOfSeq DEF Release, QueueWellFormed, TypeOK
    <3>2. c \notin closed
      BY <1>7 DEF Release, QueueWellFormed
    <3>3. \A i \in 1..Len(waiters') : k + i \in 1..Len(waiters) /\ ~(k + i \in 1..k)
      BY <1>0, <2>2, <2>3
    <3>4. \A i \in 1..Len(waiters') : waiters'[i] \notin Woken(k)
      BY <1>0, <2>2, <2>3, <3>3 DEF Woken, QueueWellFormed
    <3>5. \A i, j \in 1..Len(waiters') : waiters'[i] = waiters'[j] => i = j
      BY <1>0, <2>2, <2>3, <3>3 DEF QueueWellFormed
    <3>6. \A i \in 1..Len(waiters') :
            pc'[waiters'[i]] \in {"waiting", "withdrawing"} /\ waiters'[i] \notin closed'
      <4>1. TAKE i \in 1..Len(waiters')
      <4>2. /\ waiters'[i] = waiters[k + i] /\ k + i \in 1..Len(waiters)
            /\ waiters'[i] \notin Woken(k)
        BY <2>3, <3>3, <3>4
      <4>3. pc[waiters[k + i]] \in {"waiting", "withdrawing"} /\ waiters[k + i] \notin closed
        BY <4>2 DEF QueueWellFormed
      <4>4. pc' = [pc EXCEPT ![c] = "idle"]
        BY <1>7 DEF Release
      <4>5. pc'[waiters[k + i]] = pc[waiters[k + i]]
        BY <3>1, <4>2, <4>4 DEF TypeOK
      <4> QED BY <2>4, <4>2, <4>3, <4>5
    <3>7. \A w \in Woken(k) : w # c /\ pc[w] \in {"waiting", "withdrawing"}
      BY <1>0, <2>2, <3>1 DEF Woken, QueueWellFormed
    <3>8. \A w \in closed' : pc'[w] \in {"waiting", "withdrawing"}
      BY <1>7, <2>4, <2>5, <3>2, <3>7 DEF Release, TypeOK, QueueWellFormed
    <3>9. QED
      BY <3>5, <3>6, <3>8 DEF QueueWellFormed
  <2>9. QED
    BY <2>6, <2>7, <2>8
<1>8. CASE UNCHANGED vars
  BY <1>8 DEF vars, TypeOK, WantOK, QueueWellFormed
<1>9. QED
  BY <1>1, <1>2, <1>3, <1>4, <1>5, <1>6, <1>7, <1>8 DEF Next

-----------------------------------------------------------------------------
\* The queue invariant of Semaphore, for any callers, capacity and weights and
\* whatever cancellations race the grants: Release closes only channels that a
\* caller suspended in Acquire still owns, and none of them twice.
THEOREM QueueCorrect == Spec => [](TypeOK /\ QueueWellFormed)
<1>1. IInv => TypeOK /\ QueueWellFormed
  BY DEF IInv
<1>2. QED
  BY <1>1, InitIInv, NextIInv, PTL DEF Spec

-----------------------------------------------------------------------------
\* Every unit that is held was charged, or Release gave it away without a charge.
\* (A lost grant only raises current.)
Charged == Cardinality(UnitsHeld) <= current + uncharged

\* Every step keeps the units held within what was charged and what was given away.
LEMMA NextCharged ==
  ASSUME IInv, Charged, [Next]_vars
  PROVE  Charged'
<1> USE DEF IInv
<1>0. /\ Inside \subseteq Caller /\ IsFiniteSet(UnitsHeld)
      /\ Cardinality(UnitsHeld) \in Nat /\ AllUnits \in Nat
  BY UnitsFinite
<1>00. /\ current \in Nat /\ Capacity \in Nat /\ Len(waiters) \in Nat /\ uncharged \in Nat
       /\ Weights \subseteq 1..Capacity
  BY <1>0, SemaphoreAssumption, LenProperties DEF TypeOK
<1>000. ASSUME UnitsHeld' \subseteq UnitsHeld, current' = current, uncharged' = uncharged
        PROVE  Charged'
  <2>1. Cardinality(UnitsHeld') <= Cardinality(UnitsHeld) /\ Cardinality(UnitsHeld') \in Nat
    BY <1>0, <1>000, FS_Subset, FS_CardinalityType
  <2> QED BY <1>0, <1>00, <1>000, <2>1 DEF Charged
<1>1. ASSUME NEW c \in Caller, NEW n \in Weights, Take(c, n)
      PROVE  Charged'
  <2> DEFINE mine == {c} \X (1..n)
  <2>1. Inside' = Inside \cup {c}
    BY <1>1 DEF Take, Inside, Holding, TypeOK
  <2>2. current' = current + n /\ uncharged' = uncharged /\ want' = [want EXCEPT ![c] = n]
    BY <1>1 DEF Take
  <2>3. c \notin Inside
    BY <1>1 DEF Take, Inside, Holding, QueueWellFormed
  <2>4. \A d \in Inside : want'[d] = want[d]
    BY <1>0, <2>2, <2>3 DEF TypeOK
  <2>5. want'[c] = n /\ n \in Nat
    BY <1>00, <1>1, <2>2 DEF TypeOK
  <2>6. UnitsHeld' \subseteq UnitsHeld \cup mine
    <3> SUFFICES ASSUME NEW u \in UnitsHeld'
                 PROVE  u \in UnitsHeld \cup mine
      OBVIOUS
    <3>1. /\ u[1] \in Inside \cup {c} /\ u[2] \in 1..Capacity /\ u[2] <= want'[u[1]]
          /\ u = <<u[1], u[2]>>
      BY <2>1 DEF UnitsHeld
    <3>2. CASE u[1] \in Inside
      <4>1. u \in Inside \X (1..Capacity)
        BY <3>1, <3>2
      <4> QED BY <3>1, <3>2, <4>1, <2>4 DEF UnitsHeld
    <3>3. CASE u[1] = c
      <4>1. u[2] \in 1..n
        BY <1>00, <3>1, <3>3, <2>5
      <4> QED BY <3>1, <3>3, <4>1
    <3> QED BY <3>1, <3>2, <3>3
  <2>7. IsFiniteSet(mine) /\ Cardinality(mine) = n
    <3>1. IsFiniteSet({c}) /\ Cardinality({c}) = 1
      BY FS_Singleton
    <3>2. IsFiniteSet({c} \X (1..n)) /\ Cardinality({c} \X (1..n)) = Cardinality({c}) * n
      BY <3>1, <2>5, PairsCounted
    <3> QED BY <3>1, <3>2, <2>5
  <2> HIDE DEF mine
  <2>8. /\ IsFiniteSet(UnitsHeld \cup mine) /\ Cardinality(UnitsHeld \cup mine) \in Nat
        /\ Cardinality(UnitsHeld \cup mine) <= Cardinality(UnitsHeld) + Cardinality(mine)
    BY <1>0, <2>7, UnionBound
  <2>9. /\ Cardinality(UnitsHeld') <= Cardinality(UnitsHeld \cup mine)
        /\ Cardinality(UnitsHeld') \in Nat
    BY <2>6, <2>8, FS_Subset, FS_CardinalityType
  <2> QED BY <1>0, <1>00, <2>2, <2>5, <2>7, <2>8, <2>9 DEF Charged
<1>2. ASSUME NEW c \in Caller, NEW n \in Weights, Enqueue(c, n)
      PROVE  Charged'
  <2>1. Inside' = Inside
    BY <1>2 DEF Enqueue, Inside, Holding, TypeOK
  <2>2. c \notin Inside
    BY <1>2 DEF Enqueue, Inside, Holding, QueueWellFormed
  <2>3. \A d \in Inside : want'[d] = want[d]
    BY <1>0, <1>2, <2>2 DEF Enqueue, TypeOK
  <2>4. UnitsHeld' \subseteq UnitsHeld
    BY <2>1, <2>3 DEF UnitsHeld
  <2> QED BY <1>2, <1>000, <2>4 DEF Enqueue
<1>3. ASSUME NEW c \in Caller, Expire(c) \/ ChooseDone(c)
      PROVE  Charged'
  <2>1. Inside' = Inside /\ want' = want
    BY <1>3 DEF Expire, ChooseDone, Inside, Holding, TypeOK
  <2>2. UnitsHeld' \subseteq UnitsHeld
    BY <2>1 DEF UnitsHeld
  <2> QED BY <1>3, <1>000, <2>2 DEF Expire, ChooseDone
<1>4. ASSUME NEW c \in Caller, Granted(c)
      PROVE  Charged'
  <2>1. Inside' = Inside /\ want' = want
    BY <1>4 DEF Granted, Inside, Holding, TypeOK
  <2>2. UnitsHeld' \subseteq UnitsHeld
    BY <2>1 DEF UnitsHeld
  <2> QED BY <1>4, <1>000, <2>2 DEF Granted
<1>5. ASSUME NEW c \in Caller, Withdraw(c)
      PROVE  Charged'
  <2>1. Inside' \subseteq Inside \ {c}
    BY <1>5 DEF Withdraw, Inside, Holding, TypeOK
  <2>2. \A d \in Inside \ {c} : want'[d] = want[d]
    BY <1>0, <1>5 DEF Withdraw, TypeOK
  <2>3. UnitsHeld' \subseteq UnitsHeld
    BY <2>1, <2>2 DEF UnitsHeld
  <2> QED BY <1>5, <1>000, <2>3 DEF Withdraw
<1>6. ASSUME NEW c \in Caller, Release(c)
      PROVE  Charged'
  <2> DEFINE k == Popped(Subtract(want[c]))
             mine == {c} \X (1..want[c])
             rest == UnitsHeld \ mine
             given == GivenUnits(k)
             free == Cardinality(Unpaid(k))
  <2>1. want[c] \in Weights /\ want[c] \in 1..Capacity
    BY <1>00, <1>6 DEF Release, WantOK
  <2>2. k \in Nat /\ k <= Len(waiters) /\ Subtract(want[c]) \in 0..Capacity
    BY <2>1, PoppedProperties
  <2>3. Woken(k) \subseteq Caller
    BY <2>2, WokenProperties DEF TypeOK
  <2>4. c \in Inside /\ c \notin closed
    BY <1>6 DEF Release, Inside, Holding, QueueWellFormed
  <2>5. \A i \in 1..Len(waiters) : waiters[i] # c
    BY <1>6 DEF Release, QueueWellFormed
  <2>6. c \notin Woken(k)
    <3> HIDE DEF k
    <3> QED BY <1>00, <2>2, <2>5 DEF Woken
  <2>7. /\ IsFiniteSet(given) /\ Cardinality(given) \in Nat /\ free \in Nat
        /\ Cardinality(given) <= k + free
    <3>1. TypeOK /\ k \in Nat /\ k <= Len(waiters)
      BY <2>2
    <3> HIDE DEF k
    <3> QED BY ONLY <3>1, GivenBound DEF given, free
  <2>8. IsFiniteSet(mine) /\ Cardinality(mine) = want[c]
    <3>1. want[c] \in Nat
      BY <1>00, <2>1
    <3>2. IsFiniteSet({c}) /\ Cardinality({c}) = 1
      BY FS_Singleton
    <3>3. IsFiniteSet({c} \X (1..want[c])) /\ Cardinality({c} \X (1..want[c])) = Cardinality({c}) * want[c]
      BY ONLY <3>1, <3>2, PairsCounted
    <3> QED BY ONLY <3>1, <3>2, <3>3
  <2>9. mine \subseteq UnitsHeld
    BY <1>00, <2>1, <2>4 DEF UnitsHeld
  <2>10. /\ IsFiniteSet(rest) /\ Cardinality(rest) \in Nat
         /\ Cardinality(rest) = Cardinality(UnitsHeld) - want[c]
    <3>1. UnitsHeld \cap mine = mine
      BY <2>9
    <3> HIDE DEF mine
    <3>2. /\ IsFiniteSet(UnitsHeld \ mine)
          /\ Cardinality(UnitsHeld \ mine) = Cardinality(UnitsHeld) - Cardinality(UnitsHeld \cap mine)
      BY <1>0, FS_Difference
    <3> QED BY <2>8, <3>1, <3>2, FS_CardinalityType
  <2>11. /\ current' = Subtract(want[c]) + k /\ uncharged' = CountedUpTo(uncharged + free)
         /\ want' = [want EXCEPT ![c] = 0] /\ closed' = closed \cup Woken(k)
    BY <1>6 DEF Release, Charge
  <2>12. Inside' \subseteq (Inside \ {c}) \cup Woken(k)
    <3> HIDE DEF k
    <3> QED BY <1>6, <2>4, <2>6, <2>11 DEF Release, Inside, Holding, TypeOK
  <2>13. \A d \in Inside \cup Woken(k) : d # c => want'[d] = want[d]
    BY <1>0, <2>3, <2>11 DEF TypeOK
  <2>14. UnitsHeld' \subseteq rest \cup given
    <3> HIDE DEF k
    <3> SUFFICES ASSUME NEW u \in UnitsHeld'
                 PROVE  u \in rest \cup given
      OBVIOUS
    <3>1. /\ u[1] \in Inside' /\ u[2] \in 1..Capacity /\ u[2] <= want'[u[1]]
          /\ u = <<u[1], u[2]>>
      BY DEF UnitsHeld
    <3>2. u[1] # c /\ u \notin mine
      BY <2>6, <2>12, <3>1
    <3>3. u[2] <= want[u[1]]
      BY <2>12, <2>13, <3>1, <3>2
    <3>4. CASE u[1] \in Inside
      <4>1. u \in Inside \X (1..Capacity)
        BY <3>1, <3>4
      <4>2. u \in UnitsHeld
        BY <3>3, <4>1 DEF UnitsHeld
      <4> QED BY <3>2, <4>2
    <3>5. CASE u[1] \in Woken(k)
      <4>1. u \in Woken(k) \X (1..Capacity)
        BY <3>1, <3>5
      <4> QED BY <3>3, <4>1 DEF GivenUnits
    <3> QED BY <2>12, <3>1, <3>4, <3>5
  <2>17. Cardinality(UnitsHeld') <= AllUnits
    <3>1. UnitsHeld' \subseteq Caller \X (1..Capacity)
      BY <1>0, <2>3, <2>14 DEF UnitsHeld, GivenUnits
    <3>2. IsFiniteSet(Caller \X (1..Capacity))
      BY <1>00, SemaphoreAssumption, PairsCounted
    <3> QED BY <3>1, <3>2, FS_Subset DEF AllUnits
  <2> HIDE DEF k, mine, rest, given, free
  <2>15. /\ IsFiniteSet(rest \cup given) /\ Cardinality(rest \cup given) \in Nat
         /\ Cardinality(rest \cup given) <= Cardinality(rest) + Cardinality(given)
    BY <2>7, <2>10, UnionBound
  <2>16. /\ Cardinality(UnitsHeld') <= Cardinality(rest \cup given)
         /\ Cardinality(UnitsHeld') \in Nat
    BY <2>14, <2>15, FS_Subset, FS_CardinalityType
  <2>18. Cardinality(UnitsHeld) <= current + uncharged
    BY DEF Charged
  <2>19. /\ Subtract(want[c]) \in Nat /\ want[c] \in Nat
         /\ current - want[c] <= Subtract(want[c])
    BY <1>00, <2>1, <2>2 DEF Subtract
  <2>20. Cardinality(UnitsHeld') <= current' + (uncharged + free)
    <3>1. Cardinality(UnitsHeld') <= Cardinality(rest) + Cardinality(given)
      BY <2>7, <2>10, <2>15, <2>16
    <3>2. current' = Subtract(want[c]) + k
      BY <2>11
    <3>3. Cardinality(rest) = Cardinality(UnitsHeld) - want[c]
      BY <2>10
    <3>4. Cardinality(given) <= k + free
      BY <2>7
    <3>5. /\ Cardinality(UnitsHeld') \in Nat /\ Cardinality(UnitsHeld) \in Nat
          /\ Cardinality(given) \in Nat /\ free \in Nat /\ k \in Nat
          /\ current \in Nat /\ uncharged \in Nat /\ want[c] \in Nat /\ Subtract(want[c]) \in Nat
      BY <1>0, <1>00, <2>2, <2>7, <2>16, <2>19
    <3>6. current - want[c] <= Subtract(want[c])
      BY <2>19
    <3> DEFINE h2 == Cardinality(UnitsHeld')
               held == Cardinality(UnitsHeld)
               g == Cardinality(given)
               s == Subtract(want[c])
               w == want[c]
               r == Cardinality(rest)
    <3>7. h2 <= (held - w) + g /\ g <= k + free /\ held <= current + uncharged /\ current - w <= s
      BY <2>18, <3>1, <3>3, <3>4, <3>6
    <3>8. /\ h2 \in Nat /\ held \in Nat /\ g \in Nat /\ free \in Nat /\ k \in Nat
          /\ current \in Nat /\ uncharged \in Nat /\ w \in Nat /\ s \in Nat
      BY <3>5
    <3> HIDE DEF h2, held, g, s, w, r
    <3>9. h2 <= (s + k) + (uncharged + free)
      BY ONLY <3>7, <3>8
    <3> QED BY <3>2, <3>9 DEF h2, s
  <2>21. CASE uncharged + free > AllUnits
    <3>1. uncharged' = AllUnits
      BY <2>11, <2>21 DEF CountedUpTo
    <3>2. current' \in Nat
      BY <2>2, <2>11, <2>19
    <3> QED BY <1>0, <2>16, <2>17, <3>1, <3>2 DEF Charged
  <2>22. CASE ~(uncharged + free > AllUnits)
    <3>1. uncharged' = uncharged + free
      BY <2>11, <2>22 DEF CountedUpTo
    <3> QED BY <2>20, <3>1 DEF Charged
  <2> QED BY <2>21, <2>22
<1>7. CASE UNCHANGED vars
  <2>1. UnitsHeld' \subseteq UnitsHeld
    BY <1>7 DEF vars, UnitsHeld, Inside, Holding
  <2> QED BY <1>7, <1>000, <2>1 DEF vars
<1>8. QED
  BY <1>1, <1>2, <1>3, <1>4, <1>5, <1>6, <1>7 DEF Next

\* For any callers, capacity and weights, whatever cancellations race the grants: what
\* is held beyond the capacity was given by Release without a charge.
THEOREM OnlyUnchargedExceedHolds == Spec => []OnlyUnchargedExceed
<1>1. Init => Charged
  <2> SUFFICES ASSUME Init
               PROVE  Charged
    OBVIOUS
  <2>1. UnitsHeld = {} /\ current = 0 /\ uncharged = 0
    BY DEF Init, UnitsHeld, Inside, Holding
  <2>2. QED
    BY <2>1, FS_EmptySet DEF Charged
<1>2. IInv /\ Charged /\ [Next]_vars => IInv' /\ Charged'
  BY NextIInv, NextCharged
<1>3. IInv /\ Charged => OnlyUnchargedExceed
  <2> SUFFICES ASSUME IInv, Charged
               PROVE  OnlyUnchargedExceed
    OBVIOUS
  <2>1. /\ current \in 0..Capacity /\ Capacity \in Nat /\ Cardinality(UnitsHeld) \in Nat
        /\ uncharged \in Int
    BY SemaphoreAssumption, UnitsFinite DEF IInv, TypeOK
  <2>2. QED
    BY <2>1 DEF Charged, OnlyUnchargedExceed
<1>4. QED
  BY <1>1, <1>2, <1>3, InitIInv, PTL DEF Spec

\* Nobody waits beside the units it asks for.
LEMMA NobodyForgottenStep ==
  ASSUME IInv, NoForgottenWaiter, [Next]_vars
  PROVE  NoForgottenWaiter'
<1>1. /\ current \in Nat /\ Capacity \in Nat /\ Len(waiters) \in Nat /\ current <= Capacity
      /\ waiters \in Seq(Caller) /\ Weights \subseteq 1..Capacity /\ 0 \notin Weights
  BY SemaphoreAssumption, LenProperties DEF IInv, TypeOK
<1>2. \A i \in 1..Len(waiters) :
        /\ waiters[i] \in Caller /\ pc[waiters[i]] \in {"waiting", "withdrawing"}
        /\ want[waiters[i]] \in Weights
  BY <1>1, ElementOfSeq DEF IInv, QueueWellFormed, WantOK
<1>3. ASSUME NEW c \in Caller, NEW n \in Weights, Take(c, n)
      PROVE  NoForgottenWaiter'
  <2>1. \A i \in 1..Len(waiters) : want'[waiters[i]] = want[waiters[i]]
    BY <1>2, <1>3 DEF Take, IInv, TypeOK
  <2>2. current' = current + n /\ waiters' = waiters /\ n \in Nat
    BY <1>1, <1>3 DEF Take
  <2>3. \A i \in 1..Len(waiters) : want[waiters[i]] \in Nat
    <3>1. Weights \subseteq Nat
      BY <1>1
    <3> QED BY ONLY <1>2, <3>1
  <2>4. ASSUME NEW i \in 1..Len(waiters')
        PROVE  ~(Capacity - current' >= want'[waiters'[i]])
    <3>1. i \in 1..Len(waiters)
      BY <2>2
    <3>2. ~(Capacity - current >= want[waiters[i]])
      BY <3>1 DEF NoForgottenWaiter, Fits
    <3>3. want'[waiters'[i]] = want[waiters[i]] /\ want[waiters[i]] \in Nat
      BY <2>1, <2>2, <2>3, <3>1
    <3> QED BY <1>1, <2>2, <3>2, <3>3
  <2> QED BY ONLY <2>4 DEF NoForgottenWaiter, Fits
<1>4. ASSUME NEW c \in Caller, NEW n \in Weights, Enqueue(c, n)
      PROVE  NoForgottenWaiter'
  <2>1. \A i \in 1..Len(waiters) : want'[waiters[i]] = want[waiters[i]]
    BY <1>2, <1>4 DEF Enqueue, IInv, TypeOK
  <2>2. current' = current /\ waiters' = Append(waiters, c) /\ want'[c] = n
    BY <1>4 DEF Enqueue, IInv, TypeOK
  <2>3. /\ Len(waiters') = Len(waiters) + 1 /\ waiters'[Len(waiters) + 1] = c
        /\ \A i \in 1..Len(waiters) : waiters'[i] = waiters[i]
    BY <1>1, <2>2, AppendProperties
  <2>4. ~Fits(n)
    BY <1>4 DEF Enqueue
  <2>5. \A i \in 1..Len(waiters') : i \in 1..Len(waiters) \/ i = Len(waiters) + 1
    BY <1>1, <2>3
  <2> USE DEF NoForgottenWaiter
  <2>6. TAKE i \in 1..Len(waiters')
  <2>7. CASE i \in 1..Len(waiters)
    <3>1. ~Fits(want[waiters[i]])
      BY <2>7 DEF NoForgottenWaiter
    <3> QED BY <2>1, <2>2, <2>3, <2>7, <3>1 DEF Fits
  <2>8. CASE i = Len(waiters) + 1
    BY <2>2, <2>3, <2>4, <2>8 DEF Fits
  <2> QED BY <2>5, <2>7, <2>8
<1>5. ASSUME NEW c \in Caller, Expire(c) \/ Granted(c) \/ ChooseDone(c)
      PROVE  NoForgottenWaiter'
  BY <1>5 DEF Expire, Granted, ChooseDone, NoForgottenWaiter, Fits
<1>6. ASSUME NEW c \in Caller, Withdraw(c)
      PROVE  NoForgottenWaiter'
  <2>1. /\ waiters' = Without(c) /\ current' = current /\ want' = [want EXCEPT ![c] = 0]
    BY <1>6 DEF Withdraw
  <2>2. \A i \in 1..Len(Without(c)) :
          Without(c)[i] # c /\ \E j \in 1..Len(waiters) : Without(c)[i] = waiters[j]
    BY <1>1, WithoutProperties DEF IInv, QueueWellFormed
  <2>3. \A i \in 1..Len(waiters') :
          \E j \in 1..Len(waiters) :
            waiters'[i] = waiters[j] /\ want'[waiters'[i]] = want[waiters[j]]
    BY <1>2, <2>1, <2>2 DEF IInv, TypeOK
  <2> USE DEF NoForgottenWaiter
  <2>4. TAKE i \in 1..Len(waiters')
  <2>5. PICK j \in 1..Len(waiters) : want'[waiters'[i]] = want[waiters[j]]
    BY <2>3
  <2>6. ~Fits(want[waiters[j]])
    BY DEF NoForgottenWaiter
  <2> QED BY <2>1, <2>5, <2>6 DEF Fits
<1>7. ASSUME NEW c \in Caller, Release(c)
      PROVE  NoForgottenWaiter'
  <2> DEFINE k == Popped(Subtract(want[c]))
  <2>1. want[c] \in Weights
    BY <1>7 DEF Release, IInv, WantOK
  <2>2. Subtract(want[c]) \in Nat /\ Subtract(want[c]) <= Capacity
    <3>1. TypeOK
      BY DEF IInv
    <3>2. Subtract(want[c]) \in 0..Capacity
      BY <2>1, <3>1, PoppedProperties
    <3> QED BY <1>1, <3>2
  <2>3. current' = Subtract(want[c]) + k /\ waiters' = SubSeq(waiters, k + 1, Len(waiters))
    BY <1>7 DEF Release, Charge
  <2>4. CASE Len(waiters) <= Capacity - Subtract(want[c])
    <3>1. k = Len(waiters)
      BY <2>4 DEF Popped
    <3>2. waiters' = <<>>
      BY <1>1, <2>3, <3>1, SubSeqEmpty
    <3> QED BY <3>2 DEF NoForgottenWaiter
  <2>5. CASE ~(Len(waiters) <= Capacity - Subtract(want[c]))
    <3>1. k = Capacity - Subtract(want[c])
      BY <2>5 DEF Popped
    <3>2. current' = Capacity
      BY <1>1, <2>2, <2>3, <3>1
    <3>3. IInv'
      BY NextIInv
    <3>4. waiters' \in Seq(Caller)
      BY <3>3 DEF IInv, TypeOK
    <3>5. \A i \in 1..Len(waiters') : waiters'[i] \in Caller
      BY <3>4, ElementOfSeq
    <3>6. \A i \in 1..Len(waiters') : want'[waiters'[i]] \in Weights
      BY <3>3, <3>5 DEF IInv, QueueWellFormed, WantOK
    <3>7. \A n \in Weights : ~(Capacity - Capacity >= n)
      BY <1>1
    <3> QED BY <3>2, <3>6, <3>7 DEF NoForgottenWaiter, Fits
  <2> QED BY <2>4, <2>5
<1>8. CASE UNCHANGED vars
  BY <1>8 DEF vars, NoForgottenWaiter, Fits
<1> QED BY <1>3, <1>4, <1>5, <1>6, <1>7, <1>8 DEF Next

-----------------------------------------------------------------------------
(* The resource tracker. *)

\* What is in the map or in hand was tracked, and only that is closed.
ResourcesKept == T!OwnedOnce /\ T!LossExplained
TrackerInv ==
  /\ T!TrackerTypeOK /\ ResourcesKept /\ IsFiniteSet(active)
  /\ active \subseteq tracked
  /\ \A g \in Releaser \cup Closer : inHand[g] \subseteq tracked
  /\ \A r \in Resource : closes[r] # 0 => r \in tracked
  /\ \A c \in Closer : inHand[c] # {} => cpc[c] = "closing"

LEMMA TrackerCardinality ==
  ASSUME NEW s
  PROVE  T!Cardinality(s) = Cardinality(s)
  BY DEF T!Cardinality, Cardinality

LEMMA TrackerInit ==
  ASSUME T!TrackerParameters, T!TrackerInit
  PROVE  TrackerInv
<1>1. T!TrackerTypeOK
  BY DEF T!TrackerInit, T!TrackerTypeOK
<1>2. T!OwnedOnce
  BY FS_EmptySet, TrackerCardinality DEF T!TrackerInit, T!OwnedOnce, T!TrackerParameters
<1>3. T!LossExplained
  BY DEF T!TrackerInit, T!LossExplained, T!Abandoned, T!Open
<1> QED BY <1>1, <1>2, <1>3, FS_EmptySet DEF T!TrackerInit, ResourcesKept, TrackerInv

\* Who is abandoned, member by member.
LEMMA AbandonedMember ==
  ASSUME NEW r
  PROVE  r \in T!Abandoned <=> /\ r \in tracked /\ closes[r] = 0 /\ r \notin active
                               /\ \A g \in Releaser \cup Closer : r \notin inHand[g]
  BY DEF T!Abandoned, T!Open, T!InHands

\* A step leaves a resource open, with no owner, only by displacing it or by dropping
\* it at the end of a context; one that was abandoned keeps its explanation.
LEMMA LossStep ==
  ASSUME T!TrackerParameters, TrackerInv, [T!TrackerNext]_trackerVars
  PROVE  T!LossExplained'
<1> DEFINE Hands == Releaser \cup Closer
           Explained(r) == \/ \E q \in tracked \ {r} : IdOf[q] = IdOf[r]
                           \/ \E c \in Closer : cpc[c] = "timedOut"
<1>1. /\ \A c \in Closer : inHand[c] # {} => cpc[c] = "closing"
      /\ T!TrackerTypeOK /\ Releaser \cap Closer = {}
      /\ \A r \in T!Abandoned : Explained(r)
  BY DEF TrackerInv, ResourcesKept, T!LossExplained, T!TrackerParameters
<1>2. SUFFICES ASSUME NEW r \in T!Abandoned'
               PROVE  Explained(r)'
  BY DEF T!LossExplained
<1>3. /\ r \in tracked' /\ closes'[r] = 0 /\ r \notin active'
      /\ \A g \in Hands : r \notin inHand'[g]
  BY <1>2 DEF T!Abandoned, T!Open, T!InHands
<1>4. /\ active \subseteq Resource /\ tracked \subseteq Resource
      /\ inHand \in [Hands -> SUBSET Resource] /\ closes \in [Resource -> Nat]
      /\ cpc \in [Closer -> {"new", "closing", "closed", "timedOut"}]
  BY <1>1 DEF T!TrackerTypeOK
<1>5. ASSUME r \in tracked, closes[r] = 0, r \notin active,
             \A g \in Hands : r \notin inHand[g]
      PROVE  Explained(r)
  BY <1>1, <1>5, AbandonedMember
<1>6. ASSUME tracked' = tracked, cpc' = cpc, Explained(r)
      PROVE  Explained(r)'
  BY <1>6
<1>7. ASSUME NEW q \in Resource, T!Track(q)
      PROVE  Explained(r)'
  <2>1. /\ active' = (active \ T!Named(IdOf[q])) \cup {q}
        /\ tracked' = tracked \cup {q} /\ UNCHANGED <<inHand, cpc, expired, closes>>
    BY <1>7 DEF T!Track
  <2>2. r # q /\ r \in tracked /\ closes[r] = 0 /\ \A g \in Hands : r \notin inHand[g]
    BY <1>3, <2>1
  <2>3. CASE r \in active
    <3>1. IdOf[q] = IdOf[r]
      BY <1>3, <2>1, <2>3 DEF T!Named
    <3> QED BY <2>1, <2>2, <3>1
  <2>4. CASE r \notin active
    <3>1. Explained(r)
      BY <1>5, <2>2, <2>4
    <3> QED BY <2>1, <3>1
  <2> QED BY <2>3, <2>4
<1>8. ASSUME NEW q \in Resource, NEW g \in Releaser, T!Release(g, IdOf[q])
      PROVE  Explained(r)'
  <2> DEFINE named == T!Named(IdOf[q])
  <2>1. /\ inHand[g] = {} /\ inHand' = [inHand EXCEPT ![g] = named]
        /\ active' = active \ named /\ UNCHANGED <<cpc, expired, tracked, closes>>
    BY <1>8 DEF T!Release, T!WithoutEntry
  <2> HIDE DEF named
  <2>2. \A h \in Hands : inHand'[h] = IF h = g THEN named ELSE inHand[h]
    BY <1>4, <2>1
  <2>3. r \notin named /\ r \notin active /\ \A h \in Hands : r \notin inHand[h]
    BY <1>3, <2>1, <2>2
  <2> QED BY <1>3, <1>5, <1>6, <2>1, <2>3
<1>9. ASSUME NEW c \in Closer, T!CloseAll(c)
      PROVE  Explained(r)'
  <2>1. /\ cpc[c] = "new" /\ inHand' = [inHand EXCEPT ![c] = active] /\ active' = {}
        /\ cpc' = [cpc EXCEPT ![c] = "closing"] /\ UNCHANGED <<expired, tracked, closes>>
    BY <1>9 DEF T!CloseAll
  <2>2. inHand[c] = {}
    BY <1>1, <2>1
  <2>3. \A h \in Hands : inHand'[h] = IF h = c THEN active ELSE inHand[h]
    BY <1>4, <2>1
  <2>4. r \notin active /\ \A h \in Hands : r \notin inHand[h]
    BY <1>3, <2>2, <2>3
  <2>5. Explained(r)
    BY <1>3, <1>5, <2>1, <2>4
  <2>6. \A d \in Closer : cpc[d] = "timedOut" => cpc'[d] = "timedOut"
    BY <1>4, <2>1
  <2> QED BY <2>1, <2>5, <2>6
<1>10. ASSUME NEW g \in Hands, NEW q \in Resource, T!Close(g, q)
       PROVE  Explained(r)'
  <2>1. /\ q \in inHand[g] /\ closes' = [closes EXCEPT ![q] = @ + 1]
        /\ inHand' = [inHand EXCEPT ![g] = @ \ {q}]
        /\ UNCHANGED <<active, cpc, expired, tracked>>
    BY <1>10 DEF T!Close
  <2>2. r \in Resource
    BY <1>3, <1>4, <2>1
  <2>3. r # q
    <3>1. closes'[q] = closes[q] + 1 /\ closes[q] \in Nat
      BY <1>4, <2>1
    <3> QED BY <1>3, <3>1
  <2>4. closes[r] = 0
    BY <1>3, <1>4, <2>1, <2>2, <2>3
  <2>5. \A h \in Hands : inHand'[h] = IF h = g THEN inHand[g] \ {q} ELSE inHand[h]
    BY <1>4, <2>1
  <2>6. \A h \in Hands : r \notin inHand[h]
    BY <1>3, <2>3, <2>5
  <2> QED BY <1>3, <1>5, <1>6, <2>1, <2>4, <2>6
<1>11. ASSUME NEW c \in Closer, T!ContextEnds(c)
       PROVE  Explained(r)'
  <2>1. UNCHANGED <<active, inHand, cpc, tracked, closes>>
    BY <1>11 DEF T!ContextEnds
  <2> QED BY <1>3, <1>5, <1>6, <2>1
<1>12. ASSUME NEW c \in Closer, T!CloseAllReturns(c)
       PROVE  Explained(r)'
  <2>1. inHand' = [inHand EXCEPT ![c] = {}] /\ UNCHANGED <<active, expired, tracked, closes>>
    BY <1>12 DEF T!CloseAllReturns
  <2>2. \A h \in Hands : inHand'[h] = IF h = c THEN {} ELSE inHand[h]
    BY <1>4, <2>1
  <2>3. CASE inHand[c] = {} /\ cpc[c] = "closing" /\ cpc' = [cpc EXCEPT ![c] = "closed"]
    <3>1. \A h \in Hands : r \notin inHand[h]
      BY <1>3, <2>2, <2>3
    <3>2. Explained(r)
      BY <1>3, <1>5, <2>1, <3>1
    <3>3. \A d \in Closer : cpc[d] = "timedOut" => cpc'[d] = "timedOut"
      BY <1>4, <2>3
    <3> QED BY <2>1, <3>2, <3>3
  <2>4. CASE cpc' = [cpc EXCEPT ![c] = "timedOut"]
    <3>1. cpc'[c] = "timedOut"
      BY <1>4, <2>4
    <3> QED BY <3>1
  <2> QED BY <1>12, <2>3, <2>4 DEF T!CloseAllReturns
<1>13. CASE UNCHANGED trackerVars
  BY <1>3, <1>5, <1>6, <1>13 DEF trackerVars
<1> QED BY <1>7, <1>8, <1>9, <1>10, <1>11, <1>12, <1>13 DEF T!TrackerNext

\* Each step keeps what is owned owned by one.
LEMMA TrackerStep ==
  ASSUME T!TrackerParameters, TrackerInv, [T!TrackerNext]_trackerVars
  PROVE  TrackerInv'
<1> DEFINE Hands == Releaser \cup Closer
           Owned == /\ \A r \in Resource : closes[r] <= 1
                    /\ \A g \in Hands :
                         /\ \A r \in inHand[g] : closes[r] = 0 /\ r \notin active
                         /\ \A h \in Hands : g # h => inHand[g] \cap inHand[h] = {}
                    /\ \A r \in active : closes[r] = 0 /\ T!Named(IdOf[r]) = {r}
           Bounded == IsFiniteSet(active) /\ T!Cardinality(active) <= MaxResources
           Kept == /\ active \subseteq tracked
                   /\ \A g \in Hands : inHand[g] \subseteq tracked
                   /\ \A r \in Resource : closes[r] # 0 => r \in tracked
                   /\ \A c \in Closer : inHand[c] # {} => cpc[c] = "closing"
<1>1. /\ T!TrackerTypeOK /\ Owned /\ Bounded /\ Kept /\ Releaser \cap Closer = {}
  BY DEF TrackerInv, ResourcesKept, T!OwnedOnce, T!TrackerParameters
<1>2. SUFFICES T!TrackerTypeOK' /\ Owned' /\ Bounded' /\ Kept'
  BY LossStep DEF TrackerInv, ResourcesKept, T!OwnedOnce
<1>3. MaxResources \in Nat /\ IsFiniteSet(active) /\ Cardinality(active) <= MaxResources
  BY <1>1, TrackerCardinality DEF T!TrackerParameters
<1>4. ASSUME active' \subseteq active
      PROVE  Bounded'
  <2>1. /\ IsFiniteSet(active') /\ Cardinality(active') <= Cardinality(active)
        /\ Cardinality(active') \in Nat /\ Cardinality(active) \in Nat
    BY <1>3, <1>4, FS_Subset, FS_CardinalityType
  <2> QED BY <1>3, <2>1, TrackerCardinality
<1> USE DEF T!TrackerTypeOK
<1>5. ASSUME NEW r \in Resource, T!Track(r)
      PROVE  T!TrackerTypeOK' /\ Owned' /\ Bounded' /\ Kept'
  <2>1. /\ r \notin tracked /\ active' = (active \ T!Named(IdOf[r])) \cup {r}
        /\ tracked' = tracked \cup {r} /\ UNCHANGED <<inHand, cpc, expired, closes>>
        /\ ~(Cardinality(active) >= MaxResources)
    BY <1>5, TrackerCardinality DEF T!Track, T!Full
  <2>2. T!TrackerTypeOK' /\ Kept'
    BY <1>1, <2>1
  <2>3. Owned'
    <3>1. closes[r] = 0 /\ \A g \in Hands : r \notin inHand[g]
      BY <1>1, <2>1
    <3>2. \A q \in active' : T!Named(IdOf[q])' = {q}
      BY <1>1, <2>1 DEF T!Named
    <3> QED BY <1>1, <2>1, <3>1, <3>2
  <2>4. Bounded'
    <3> DEFINE rest == active \ T!Named(IdOf[r])
    <3>1. /\ IsFiniteSet(rest) /\ Cardinality(rest) <= Cardinality(active)
          /\ Cardinality(rest) \in Nat /\ Cardinality(active) \in Nat
      BY <1>3, FS_Subset, FS_CardinalityType
    <3> HIDE DEF rest
    <3>2. /\ IsFiniteSet(rest \cup {r})
          /\ Cardinality(rest \cup {r}) <= Cardinality(rest) + 1
          /\ Cardinality(rest \cup {r}) \in Nat
      BY <3>1, FS_AddElement, FS_CardinalityType
    <3>3. active' = rest \cup {r}
      BY <2>1 DEF rest
    <3>4. Cardinality(active') <= MaxResources
      BY <1>3, <2>1, <3>1, <3>2, <3>3
    <3> QED BY <3>2, <3>3, <3>4, TrackerCardinality
  <2> QED BY <2>2, <2>3, <2>4
<1>6. ASSUME NEW r \in Resource, NEW g \in Releaser, T!Release(g, IdOf[r])
      PROVE  T!TrackerTypeOK' /\ Owned' /\ Bounded' /\ Kept'
  <2> DEFINE named == T!Named(IdOf[r])
  <2>1. /\ inHand[g] = {} /\ inHand' = [inHand EXCEPT ![g] = named]
        /\ active' = active \ named /\ UNCHANGED <<cpc, expired, tracked, closes>>
    BY <1>6 DEF T!Release, T!WithoutEntry
  <2>2. named \subseteq active
    BY DEF T!Named
  <2>3. \A q \in active' : T!Named(IdOf[q])' = {q}
    BY <1>1, <2>1 DEF T!Named
  <2> HIDE DEF named
  <2>4. T!TrackerTypeOK'
    BY <1>1, <2>1, <2>2
  <2>5. Owned'
    BY <1>1, <2>1, <2>2, <2>3
  <2>6. \A h \in Hands : inHand'[h] = IF h = g THEN named ELSE inHand[h]
    BY <1>1, <2>1
  <2>7. Kept'
    BY <1>1, <2>1, <2>2, <2>6
  <2> QED BY <1>4, <2>1, <2>4, <2>5, <2>7
<1>7. ASSUME NEW c \in Closer, T!CloseAll(c)
      PROVE  T!TrackerTypeOK' /\ Owned' /\ Bounded' /\ Kept'
  <2>1. /\ inHand' = [inHand EXCEPT ![c] = active] /\ active' = {}
        /\ cpc' = [cpc EXCEPT ![c] = "closing"] /\ UNCHANGED <<expired, tracked, closes>>
    BY <1>7 DEF T!CloseAll
  <2>2. T!TrackerTypeOK' /\ Kept' /\ Owned'
    BY <1>1, <2>1
  <2> QED BY <1>4, <2>1, <2>2
<1>8. ASSUME NEW g \in Hands, NEW r \in Resource, T!Close(g, r)
      PROVE  T!TrackerTypeOK' /\ Owned' /\ Bounded' /\ Kept'
  <2>1. /\ r \in inHand[g] /\ closes' = [closes EXCEPT ![r] = @ + 1]
        /\ inHand' = [inHand EXCEPT ![g] = @ \ {r}]
        /\ UNCHANGED <<active, cpc, expired, tracked>>
    BY <1>8 DEF T!Close
  <2>2. closes[r] = 0 /\ r \notin active /\ r \in tracked
        /\ \A h \in Hands : h # g => r \notin inHand[h]
    BY <1>1, <2>1
  <2>3. closes' = [closes EXCEPT ![r] = 1]
    BY <2>1, <2>2
  <2>4. \A h \in Hands : inHand'[h] = IF h = g THEN inHand[g] \ {r} ELSE inHand[h]
    BY <1>1, <2>1
  <2>5. \A q \in Resource : closes'[q] = IF q = r THEN 1 ELSE closes[q]
    BY <1>1, <2>3
  <2>6. \A h \in Hands : inHand'[h] \subseteq inHand[h]
    BY <2>4
  <2>7. T!TrackerTypeOK'
    <3>1. inHand' \in [Hands -> SUBSET Resource]
      BY <1>1, <2>1
    <3>2. closes' \in [Resource -> Nat]
      BY <1>1, <2>3
    <3> QED BY <1>1, <2>1, <3>1, <3>2
  <2>8. Kept'
    BY <1>1, <2>1, <2>2, <2>5, <2>6
  <2>9. \A q \in active' : closes'[q] = 0 /\ T!Named(IdOf[q])' = {q}
    BY <1>1, <2>1, <2>2, <2>5 DEF T!Named
  <2>10. \A h \in Hands : \A q \in inHand'[h] : closes'[q] = 0 /\ q \notin active'
    <3>1. ASSUME NEW h \in Hands, NEW q \in inHand'[h]
          PROVE  q # r /\ q \in inHand[h]
      BY <2>2, <2>4, <3>1
    <3>2. \A h \in Hands : \A q \in inHand[h] : q \in Resource
      BY <1>1
    <3> QED BY <1>1, <2>1, <2>5, <3>1, <3>2
  <2>11. \A h, k \in Hands : h # k => inHand'[h] \cap inHand'[k] = {}
    BY <1>1, <2>6
  <2>12. \A q \in Resource : closes'[q] <= 1
    <3>1. \A q \in Resource : closes[q] <= 1
      BY <1>1
    <3> HIDE DEF T!TrackerTypeOK
    <3> QED BY <3>1, <2>5
  <2>13. Owned'
    BY <2>9, <2>10, <2>11, <2>12
  <2> QED BY <1>1, <2>1, <2>7, <2>8, <2>13
<1>9. ASSUME NEW c \in Closer, T!ContextEnds(c)
      PROVE  T!TrackerTypeOK' /\ Owned' /\ Bounded' /\ Kept'
  BY <1>1, <1>9 DEF T!ContextEnds, T!Named
<1>10. ASSUME NEW c \in Closer, T!CloseAllReturns(c)
      PROVE  T!TrackerTypeOK' /\ Owned' /\ Bounded' /\ Kept'
  <2>1. /\ inHand' = [inHand EXCEPT ![c] = {}] /\ UNCHANGED <<active, expired, tracked, closes>>
        /\ cpc' \in {[cpc EXCEPT ![c] = "closed"], [cpc EXCEPT ![c] = "timedOut"]}
    BY <1>10 DEF T!CloseAllReturns
  <2>2. T!TrackerTypeOK'
    BY <1>1, <2>1
  <2>3. Kept'
    <3>1. \A h \in Hands : inHand'[h] = IF h = c THEN {} ELSE inHand[h]
      BY <1>1, <2>1
    <3>2. \A d \in Closer : d # c => cpc'[d] = cpc[d]
      BY <1>1, <2>1
    <3> QED BY <1>1, <2>1, <3>1, <3>2
  <2> QED BY <1>1, <2>1, <2>2, <2>3 DEF T!Named
<1>11. CASE UNCHANGED trackerVars
  BY <1>1, <1>11 DEF trackerVars, T!Named
<1> QED BY <1>5, <1>6, <1>7, <1>8, <1>9, <1>10, <1>11 DEF T!TrackerNext

LEMMA TrackerImplies ==
  ASSUME T!TrackerParameters, TrackerInv
  PROVE  T!ResourcesOwned
<1> DEFINE counted == T!Open \ (T!InHands \cup T!Abandoned)
<1>1. counted \subseteq active
  BY DEF T!Abandoned
<1>2. /\ MaxResources \in Nat /\ IsFiniteSet(active) /\ Cardinality(active) <= MaxResources
  BY TrackerCardinality DEF TrackerInv, ResourcesKept, T!OwnedOnce, T!TrackerParameters
<1>3. T!Cardinality(counted) <= MaxResources
  <2> HIDE DEF counted
  <2>1. /\ Cardinality(counted) <= Cardinality(active)
        /\ Cardinality(counted) \in Nat /\ Cardinality(active) \in Nat
    BY <1>1, <1>2, FS_Subset, FS_CardinalityType
  <2> QED BY <1>2, <2>1, TrackerCardinality
<1> QED BY <1>3 DEF TrackerInv, ResourcesKept, T!ResourcesOwned, T!ExcessExplained

\* Track, Release, CloseAll: each resource has one owner that closes it once, and what is
\* lost, or open beyond the bound, is accounted for.
THEOREM ResourcesOwnedHolds ==
  ASSUME T!TrackerParameters
  PROVE  T!TrackerSpec => []T!ResourcesOwned
<1>1. T!TrackerInit => TrackerInv
  BY TrackerInit
<1>2. TrackerInv /\ [T!TrackerNext]_(T!trackerVars) => TrackerInv'
  BY TrackerStep DEF T!trackerVars, trackerVars
<1>3. TrackerInv => T!ResourcesOwned
  BY TrackerImplies
<1> QED BY <1>1, <1>2, <1>3, PTL DEF T!TrackerSpec

-----------------------------------------------------------------------------
(* Groups of goroutines. *)

\* An error is one of a task, is kept or about to be reported, and cancels.
ErrorsKept ==
  /\ err # None => err \in failures /\ cause \in {err, Parent}
  /\ cause \in Task => cause = err
  /\ \A t \in Task : state[t] = "failed" => kind = "group" /\ t \in failures
  /\ kind = "group" /\ failures # {} /\ err = None => \E t \in Task : state[t] = "failed"

\* Who has waited left nobody behind, and knows of the errors.
Waited ==
  waiter = "returned" =>
    /\ \A t \in Task : state[t] \in {"new", "ended"}
    /\ ticking \in {"off", "ended"}
    /\ verdict = "error" <=> err # None \/ W!CriticalFailed

TaskInv == W!TypeOK /\ ErrorsKept /\ Waited

LEMMA TaskInit ==
  ASSUME W!TaskParameters, W!Init
  PROVE  TaskInv
<1>1. W!TypeOK
  BY DEF W!TaskParameters, W!Init, W!TypeOK
<1>2. ErrorsKept
  BY DEF W!TaskParameters, W!Init, ErrorsKept
<1>3. Waited
  BY DEF W!Init, Waited
<1> QED BY <1>1, <1>2, <1>3 DEF TaskInv

\* Each step keeps this.
LEMMA TaskStep ==
  ASSUME W!TaskParameters, TaskInv, [W!Next]_groupVars
  PROVE  TaskInv'
<1> USE DEF W!Now, W!Running, W!CriticalFailed
<1>1. None \notin Task /\ Parent \notin Task /\ None # "error"
  BY DEF W!TaskParameters
<1>2. W!TypeOK /\ ErrorsKept /\ Waited
  BY DEF TaskInv
<1>3. CASE W!ParentEnds
  <2>1. /\ cause = None /\ cause' = Parent
        /\ UNCHANGED <<kind, state, failures, err, ticking, tick, waiter, verdict>>
    BY <1>3 DEF W!ParentEnds, W!tasks, W!runner
  <2>2. W!TypeOK'
    BY <1>2, <2>1 DEF W!TypeOK
  <2>3. ErrorsKept' /\ Waited'
    BY <1>1, <1>2, <2>1 DEF ErrorsKept, Waited
  <2> QED BY <2>2, <2>3 DEF TaskInv
<1>4. CASE W!ValidateAll
  <2>1. /\ kind = "startup" /\ state' = [t \in Task |-> "running"] /\ waiter' = "waiting"
        /\ UNCHANGED <<kind, failures, err, cause, ticking, tick, verdict>>
    BY <1>4 DEF W!ValidateAll, W!runner
  <2>2. W!TypeOK'
    BY <1>2, <2>1 DEF W!TypeOK
  <2>3. ErrorsKept' /\ Waited'
    BY <1>2, <2>1 DEF ErrorsKept, Waited
  <2> QED BY <2>2, <2>3 DEF TaskInv
<1>5. ASSUME NEW t \in Task, W!Go(t) PROVE TaskInv'
  <2>1. /\ kind = "group" /\ state[t] = "new" /\ (waiter = "no" \/ W!Running # {})
        /\ state' = [state EXCEPT ![t] = "running"]
        /\ UNCHANGED <<kind, failures, err, cause, ticking, tick, waiter, verdict>>
    BY <1>5 DEF W!Go, W!runner
  <2>2. W!TypeOK'
    BY <1>2, <2>1 DEF W!TypeOK
  <2>3. waiter # "returned"
    BY <1>2, <2>1 DEF Waited
  <2>4. ErrorsKept' /\ Waited'
    BY <1>2, <2>1, <2>3 DEF W!TypeOK, ErrorsKept, Waited
  <2> QED BY <2>2, <2>4 DEF TaskInv
<1>6. ASSUME NEW t \in Task, W!Succeeds(t) PROVE TaskInv'
  <2>1. /\ state[t] = "running" /\ state' = [state EXCEPT ![t] = "ended"]
        /\ UNCHANGED <<kind, failures, err, cause, ticking, tick, waiter, verdict>>
    BY <1>6 DEF W!Succeeds, W!runner
  <2>2. W!TypeOK'
    BY <1>2, <2>1 DEF W!TypeOK
  <2>3. waiter # "returned"
    BY <1>2, <2>1 DEF Waited
  <2>4. ErrorsKept' /\ Waited'
    BY <1>2, <2>1, <2>3 DEF W!TypeOK, ErrorsKept, Waited
  <2> QED BY <2>2, <2>4 DEF TaskInv
<1>7. ASSUME NEW t \in Task, W!Fails(t) PROVE TaskInv'
  <2>1. /\ state[t] = "running" /\ failures' = failures \cup {t}
        /\ state' = [state EXCEPT ![t] = IF kind = "group" THEN "failed" ELSE "ended"]
        /\ UNCHANGED <<kind, err, cause, ticking, tick, waiter, verdict>>
    BY <1>7 DEF W!Fails, W!runner
  <2>2. W!TypeOK'
    BY <1>2, <2>1 DEF W!TypeOK
  <2>3. waiter # "returned"
    BY <1>2, <2>1 DEF Waited
  <2>4. ErrorsKept' /\ Waited'
    BY <1>2, <2>1, <2>3 DEF W!TypeOK, ErrorsKept, Waited
  <2> QED BY <2>2, <2>4 DEF TaskInv
<1>8. ASSUME NEW t \in Task, W!Report(t) PROVE TaskInv'
  <2>1. /\ state[t] = "failed" /\ state' = [state EXCEPT ![t] = "ended"]
        /\ err' = IF err = None THEN t ELSE err
        /\ cause' = IF err = None /\ cause = None THEN t ELSE cause
        /\ UNCHANGED <<kind, failures, ticking, tick, waiter, verdict>>
    BY <1>8 DEF W!Report, W!FirstError, W!Cancelled, W!runner
  <2>2. W!TypeOK'
    BY <1>2, <2>1 DEF W!TypeOK
  <2>3. waiter # "returned" /\ t \in failures
    BY <1>2, <2>1 DEF Waited, ErrorsKept
  <2>4. ErrorsKept'
    BY <1>1, <1>2, <2>1, <2>3 DEF W!TypeOK, ErrorsKept
  <2>5. Waited'
    BY <2>1, <2>3 DEF Waited
  <2> QED BY <2>2, <2>4, <2>5 DEF TaskInv
<1>9. CASE W!Start \/ W!Ticks \/ W!RunTask \/ W!TaskReturns \/ W!LoopEnds
  <2>1. UNCHANGED <<kind, state, failures, err, cause, waiter, verdict>>
    BY <1>9 DEF W!Start, W!Ticks, W!RunTask, W!TaskReturns, W!LoopEnds, W!tasks
  <2>2. /\ ticking' \in {"off", "select", "running", "ended"} /\ tick' \in BOOLEAN
        /\ waiter = "returned" => ticking' \in {"off", "ended"}
    BY <1>2, <1>9 DEF W!TypeOK, Waited, W!Start, W!Ticks, W!RunTask, W!TaskReturns, W!LoopEnds
  <2>3. W!TypeOK'
    BY <1>2, <2>1, <2>2 DEF W!TypeOK
  <2>4. ErrorsKept' /\ Waited'
    BY <1>2, <2>1, <2>2 DEF ErrorsKept, Waited
  <2> QED BY <2>3, <2>4 DEF TaskInv
<1>10. CASE W!Wait
  <2>1. /\ waiter' = "waiting" /\ cause' = IF kind = "runner" /\ cause = None THEN Parent ELSE cause
        /\ UNCHANGED <<kind, state, failures, err, ticking, tick, verdict>>
    BY <1>10 DEF W!Wait, W!Cancelled, W!tasks, W!runner
  <2>2. W!TypeOK'
    BY <1>2, <2>1 DEF W!TypeOK
  <2>3. ErrorsKept' /\ Waited'
    BY <1>1, <1>2, <2>1 DEF ErrorsKept, Waited
  <2> QED BY <2>2, <2>3 DEF TaskInv
<1>11. CASE W!Returns
  <2>1. /\ waiter' = "returned" /\ cause' = IF cause = None THEN Parent ELSE cause
        /\ \A t \in Task : state[t] \in {"new", "ended"}
        /\ ticking \in {"off", "ended"}
        /\ verdict' = IF err # None \/ W!CriticalFailed THEN "error" ELSE None
        /\ UNCHANGED <<kind, state, failures, err, ticking, tick>>
    BY <1>11 DEF W!Returns, W!Cancelled, W!tasks, W!runner
  <2>2. verdict' \in {None, "error"} /\ (verdict' = "error" <=> err # None \/ W!CriticalFailed)
    BY <1>1, <2>1
  <2>3. W!TypeOK'
    BY <1>2, <2>1, <2>2 DEF W!TypeOK
  <2>4. ErrorsKept' /\ Waited'
    BY <1>1, <1>2, <2>1, <2>2 DEF ErrorsKept, Waited
  <2> QED BY <2>3, <2>4 DEF TaskInv
<1>12. CASE UNCHANGED groupVars
  BY <1>2, <1>12 DEF groupVars, TaskInv, W!TypeOK, ErrorsKept, Waited
<1> QED BY <1>3, <1>4, <1>5, <1>6, <1>7, <1>8, <1>9, <1>10, <1>11, <1>12 DEF W!Next

LEMMA TaskImplies ==
  ASSUME W!TaskParameters, TaskInv
  PROVE  W!GroupsSound
<1>1. waiter = "returned" => W!Running = {} /\ ticking # "running"
  BY DEF TaskInv, Waited, W!Running
<1>2. verdict = None <=> verdict # "error"
  BY DEF TaskInv, W!TypeOK, W!TaskParameters
<1>3. waiter = "returned" /\ kind = "group" => (verdict = None <=> failures = {})
  BY <1>2 DEF TaskInv, ErrorsKept, Waited, W!CriticalFailed
<1>4. waiter = "returned" /\ kind = "startup" /\ verdict = None => failures \cap Critical = {}
  BY <1>2 DEF TaskInv, Waited, W!CriticalFailed
<1> QED BY <1>1, <1>3, <1>4 DEF TaskInv, ErrorsKept, W!GroupsSound

\* Go, Wait, ValidateAll, Stop: the error that is returned is the one that cancelled, none is
\* lost, and nobody runs after the wait.
THEOREM GroupsSoundHolds ==
  ASSUME W!TaskParameters
  PROVE  W!Spec => []W!GroupsSound
<1>1. W!Init => TaskInv
  BY TaskInit
<1>2. TaskInv /\ [W!Next]_(W!vars) => TaskInv'
  BY TaskStep DEF W!vars, W!tasks, W!runner, groupVars
<1>3. TaskInv => W!GroupsSound
  BY TaskImplies
<1> QED BY <1>1, <1>2, <1>3, PTL DEF W!Spec

-----------------------------------------------------------------------------
(* The batch loader. *)

\* A request is in a batch from Load to its answer, in one and once; and what is
\* pending has a timer to come.
Requests ==
  /\ \A b \in batches \cup {pending} : \A c \in L!ToSet(b) : lpc[c] # "new" /\ answer[c] = None
  /\ \A b, d \in batches : b # d => L!ToSet(b) \cap L!ToSet(d) = {}
  /\ \A b \in batches : L!ToSet(b) \cap L!ToSet(pending) = {}
  /\ \A i, j \in 1..Len(pending) : pending[i] = pending[j] => i = j
  /\ \A c \in Loader : lpc[c] = "new" => answer[c] = None
  /\ \A c \in Loader : lpc[c] # "new" /\ answer[c] = None =>
       \E b \in batches \cup {pending} : c \in L!ToSet(b)

Sizes == Len(pending) < MaxBatchSize /\ \A b \in batches : Len(b) \in 1..MaxBatchSize

TimerKnown == timer # None => timers[timer] \in {"armed", "fired"}

LoaderInv == L!TypeOK /\ Requests /\ Sizes /\ TimerKnown /\ L!NotStranded

\* The members of a batch with one more, and of none.
LEMMA AppendMembers ==
  ASSUME NEW S, NEW s \in Seq(S), NEW e \in S
  PROVE  L!ToSet(Append(s, e)) = L!ToSet(s) \cup {e}
<1>1. /\ Append(s, e) \in Seq(S) /\ Len(Append(s, e)) = Len(s) + 1
      /\ \A i \in 1..Len(s) : Append(s, e)[i] = s[i]
      /\ Append(s, e)[Len(s) + 1] = e
      /\ DOMAIN Append(s, e) = 1..(Len(s) + 1) /\ DOMAIN s = 1..Len(s) /\ Len(s) \in Nat
  BY AppendProperties, LenProperties
<1>2. 1..(Len(s) + 1) = (1..Len(s)) \cup {Len(s) + 1}
  BY <1>1
<1>3. ASSUME NEW x \in L!ToSet(Append(s, e)) PROVE x \in L!ToSet(s) \cup {e}
  BY <1>1, <1>2, <1>3 DEF L!ToSet
<1>4. ASSUME NEW x \in L!ToSet(s) \cup {e} PROVE x \in L!ToSet(Append(s, e))
  BY <1>1, <1>2, <1>4 DEF L!ToSet
<1> QED BY <1>3, <1>4

LEMMA NoMembers == L!ToSet(<<>>) = {}
  BY DEF L!ToSet

LEMMA LoaderInit ==
  ASSUME L!LoaderParameters, L!Init
  PROVE  LoaderInv
<1>1. /\ pending = <<>> /\ timer = None /\ batches = {} /\ gone = {}
      /\ timers = [c \in Loader |-> "none"]
      /\ answer = [c \in Loader |-> None] /\ lpc = [c \in Loader |-> "new"]
  BY DEF L!Init
<1>2. L!TypeOK
  BY <1>1 DEF L!TypeOK
<1>3. Requests
  BY <1>1, NoMembers DEF Requests
<1>4. Sizes /\ TimerKnown /\ L!NotStranded
  BY <1>1 DEF Sizes, TimerKnown, L!NotStranded, L!LoaderParameters
<1> QED BY <1>2, <1>3, <1>4 DEF LoaderInv

LEMMA LoadStep ==
  ASSUME L!LoaderParameters, LoaderInv, NEW c \in Loader, L!Load(c)
  PROVE  LoaderInv'
<1>1. /\ L!TypeOK /\ Requests /\ Sizes /\ TimerKnown /\ L!NotStranded
      /\ MaxBatchSize \in Nat \ {0} /\ Len(pending) \in Nat
  BY LenProperties DEF LoaderInv, L!LoaderParameters, L!TypeOK
<1>2. /\ lpc[c] = "new" /\ lpc' = [lpc EXCEPT ![c] = "waiting"]
      /\ gone' = gone /\ answer' = answer
  BY DEF L!Load
<1> DEFINE more == Append(pending, c)
<1>3. /\ more \in Seq(Loader) /\ Len(more) = Len(pending) + 1
      /\ L!ToSet(more) = L!ToSet(pending) \cup {c}
      /\ \A i \in 1..Len(pending) : more[i] = pending[i]
      /\ more[Len(pending) + 1] = c
  BY <1>1, AppendMembers, AppendProperties DEF L!TypeOK
<1>4. \A b \in batches \cup {pending} : c \notin L!ToSet(b)
  BY <1>1, <1>2 DEF Requests
<1> HIDE DEF more
<1>5. \A d \in Loader : lpc'[d] = IF d = c THEN "waiting" ELSE lpc[d]
  BY <1>1, <1>2 DEF L!TypeOK
<1>5a. lpc' \in [Loader -> {"new", "waiting", "value", "error", "gone"}]
  BY <1>1, <1>2 DEF L!TypeOK
<1>6. \A b \in batches \cup {pending} : L!ToSet(b) \subseteq Loader
  BY <1>1, RangeEquality DEF L!TypeOK, L!ToSet
<1>7. answer[c] = None
  BY <1>1, <1>2 DEF Requests
<1>8. CASE L!LoadFull(c)
  <2>1. /\ Len(pending) + 1 >= MaxBatchSize /\ timers' = L!Stopped /\ timer' = None
        /\ pending' = <<>> /\ batches' = batches \cup {more}
    BY <1>8 DEF L!LoadFull, L!Flush, more
  <2>2. timers' \in [Loader -> {"none", "armed", "fired", "over"}]
    BY <1>1, <2>1 DEF L!TypeOK, L!Stopped
  <2>3. L!TypeOK'
    BY <1>1, <1>2, <1>3, <1>5a, <2>1, <2>2 DEF L!TypeOK
  <2>4. Requests'
    BY <1>1, <1>2, <1>3, <1>4, <1>5, <1>6, <1>7, <2>1, NoMembers DEF Requests
  <2>5. Sizes'
    BY <1>1, <1>3, <2>1 DEF Sizes
  <2>6. TimerKnown' /\ L!NotStranded'
    BY <2>1 DEF TimerKnown, L!NotStranded
  <2> QED BY <2>3, <2>4, <2>5, <2>6 DEF LoaderInv
<1>9. CASE L!LoadPending(c)
  <2>1. /\ Len(pending) + 1 < MaxBatchSize /\ pending' = more /\ batches' = batches
        /\ IF timer = None THEN timer' = c /\ timers' = [timers EXCEPT ![c] = "armed"]
                           ELSE timer' = timer /\ timers' = timers
    BY <1>9 DEF L!LoadPending, more
  <2>2. /\ timers' \in [Loader -> {"none", "armed", "fired", "over"}]
        /\ timer' \in Loader \cup {None} /\ timer' \in Loader
        /\ timers'[timer'] \in {"armed", "fired"}
    BY <1>1, <2>1 DEF L!TypeOK, TimerKnown
  <2>3. L!TypeOK'
    BY <1>1, <1>2, <1>3, <1>5a, <2>1, <2>2 DEF L!TypeOK
  <2>4. \A i, j \in 1..Len(more) : more[i] = more[j] => i = j
    <3> SUFFICES ASSUME NEW i \in 1..Len(more), NEW j \in 1..Len(more), more[i] = more[j]
                 PROVE  i = j
      OBVIOUS
    <3>1. \A k \in 1..Len(pending) : more[k] # c /\ more[k] = pending[k]
      BY <1>1, <1>3, <1>4 DEF L!TypeOK, L!ToSet
    <3>2. \A k \in 1..Len(more) : k \in 1..Len(pending) \/ k = Len(pending) + 1
      BY <1>1, <1>3
    <3> QED BY <1>1, <1>3, <3>1, <3>2 DEF Requests
  <2>5. Requests'
    BY <1>1, <1>2, <1>3, <1>4, <1>5, <1>6, <1>7, <2>1, <2>4 DEF Requests
  <2>6. Sizes'
    BY <1>1, <1>3, <2>1 DEF Sizes
  <2>7. TimerKnown' /\ L!NotStranded'
    BY <2>2 DEF TimerKnown, L!NotStranded
  <2> QED BY <2>3, <2>5, <2>6, <2>7 DEF LoaderInv
<1> QED BY <1>8, <1>9 DEF L!Load

\* Each step keeps this.
LEMMA LoaderStep ==
  ASSUME L!LoaderParameters, LoaderInv, [L!Next]_loaderVars
  PROVE  LoaderInv'
<1>1. L!TypeOK /\ Requests /\ Sizes /\ TimerKnown /\ L!NotStranded
  BY DEF LoaderInv
<1>2. \A b \in batches \cup {pending} : L!ToSet(b) \subseteq Loader
  BY <1>1, RangeEquality DEF L!TypeOK, L!ToSet
<1>3. ASSUME NEW c \in Loader, L!Load(c) PROVE LoaderInv'
  BY <1>3, LoadStep
<1>4. ASSUME NEW c \in Loader, L!Fire(c) PROVE LoaderInv'
  <2>1. /\ timers[c] = "armed" /\ timers' = [timers EXCEPT ![c] = "fired"]
        /\ UNCHANGED <<pending, timer, batches, gone, answer, lpc>>
    BY <1>4 DEF L!Fire
  <2>2. /\ timers' \in [Loader -> {"none", "armed", "fired", "over"}]
        /\ \A d \in Loader : timers[d] \in {"armed", "fired"} => timers'[d] \in {"armed", "fired"}
    BY <1>1, <2>1 DEF L!TypeOK
  <2>3. L!TypeOK' /\ Requests' /\ Sizes'
    BY <1>1, <2>1, <2>2 DEF L!TypeOK, Requests, Sizes
  <2>4. TimerKnown' /\ L!NotStranded'
    BY <1>1, <2>1, <2>2 DEF L!TypeOK, TimerKnown, L!NotStranded
  <2> QED BY <2>3, <2>4 DEF LoaderInv
<1>5. ASSUME NEW c \in Loader, L!Callback(c) PROVE LoaderInv'
  <2>1. /\ timers' = [timers EXCEPT ![c] = "over"] /\ pending' = <<>> /\ timer' = None
        /\ batches' = IF pending # <<>> THEN batches \cup {pending} ELSE batches
        /\ UNCHANGED <<gone, answer, lpc>>
    BY <1>5 DEF L!Callback, L!Flush
  <2>2. timers' \in [Loader -> {"none", "armed", "fired", "over"}]
    BY <1>1, <2>1 DEF L!TypeOK
  <2>3. L!TypeOK'
    BY <1>1, <2>1, <2>2 DEF L!TypeOK
  <2>4. Requests'
    BY <1>1, <2>1, NoMembers DEF Requests
  <2>5. pending # <<>> => Len(pending) \in 1..MaxBatchSize
    BY <1>1, LenProperties, EmptySeq DEF L!TypeOK, Sizes, L!LoaderParameters
  <2>6. Sizes' /\ TimerKnown' /\ L!NotStranded'
    BY <1>1, <2>1, <2>5 DEF Sizes, TimerKnown, L!NotStranded, L!LoaderParameters
  <2> QED BY <2>3, <2>4, <2>6 DEF LoaderInv
<1>6. ASSUME NEW c \in Loader, L!ContextEnds(c) PROVE LoaderInv'
  <2>1. /\ c \in Leaver /\ gone' = gone \cup {c}
        /\ UNCHANGED <<pending, timer, timers, batches, answer, lpc>>
    BY <1>6 DEF L!ContextEnds
  <2> QED BY <1>1, <2>1 DEF LoaderInv, L!TypeOK, Requests, Sizes, TimerKnown, L!NotStranded
<1>7. ASSUME NEW c \in Loader, L!Return(c) PROVE LoaderInv'
  <2>1. /\ lpc[c] = "waiting" /\ UNCHANGED <<pending, timer, timers, batches, gone, answer>>
        /\ lpc' \in [Loader -> {"new", "waiting", "value", "error", "gone"}]
        /\ \A d \in Loader : lpc'[d] # "new" <=> lpc[d] # "new"
    BY <1>1, <1>7 DEF L!Return, L!TypeOK
  <2>2. L!TypeOK' /\ Sizes' /\ TimerKnown' /\ L!NotStranded'
    BY <1>1, <2>1 DEF L!TypeOK, Sizes, TimerKnown, L!NotStranded
  <2>3. Requests'
    BY <1>1, <1>2, <2>1 DEF Requests
  <2> QED BY <2>2, <2>3 DEF LoaderInv
<1>8. ASSUME NEW b \in batches, L!BatchReturns(b) PROVE LoaderInv'
  <2>1. PICK found \in SUBSET L!ToSet(b) : answer' = L!Answers(b, found)
    BY <1>8 DEF L!BatchReturns
  <2>2. /\ batches' = batches \ {b}
        /\ UNCHANGED <<pending, timer, timers, gone, lpc>>
    BY <1>8 DEF L!BatchReturns
  <2>3. /\ answer' \in [Loader -> {None, "value", "error"}]
        /\ \A c \in Loader : IF c \in L!ToSet(b) THEN answer'[c] # None ELSE answer'[c] = answer[c]
    BY <1>1, <2>1 DEF L!Answers, L!TypeOK, L!LoaderParameters
  <2>4. L!TypeOK' /\ Sizes' /\ TimerKnown' /\ L!NotStranded'
    BY <1>1, <2>2, <2>3 DEF L!TypeOK, Sizes, TimerKnown, L!NotStranded
  <2>5. Requests'
    BY <1>1, <1>2, <2>2, <2>3 DEF Requests
  <2> QED BY <2>4, <2>5 DEF LoaderInv
<1>9. CASE UNCHANGED loaderVars
  BY <1>1, <1>9 DEF loaderVars, LoaderInv, L!TypeOK, Requests, Sizes, TimerKnown, L!NotStranded
<1> QED BY <1>3, <1>4, <1>5, <1>6, <1>7, <1>8, <1>9 DEF L!Next

LEMMA SingletonCount ==
  ASSUME NEW x
  PROVE  L!Cardinality({x}) = 1 /\ L!Cardinality({}) = 0
<1>1. \A S : L!Cardinality(S) = Cardinality(S)
  BY DEF L!Cardinality, Cardinality
<1> QED BY <1>1, FS_Singleton, FS_EmptySet

LEMMA LoaderImplies ==
  ASSUME LoaderInv
  PROVE  L!OneBatchEach
<1>1. L!TypeOK /\ Requests /\ Sizes
  BY DEF LoaderInv
<1>2. ASSUME NEW c \in Loader, lpc[c] # "new", answer[c] = None
      PROVE  L!Cardinality({b \in batches : c \in L!ToSet(b)})
               + L!Cardinality({i \in 1..Len(pending) : pending[i] = c}) = 1
  <2> DEFINE running == {b \in batches : c \in L!ToSet(b)}
             places == {i \in 1..Len(pending) : pending[i] = c}
  <2>1. c \in L!ToSet(pending) <=> places # {}
    BY <1>1 DEF L!TypeOK, L!ToSet
  <2>2. CASE places # {}
    <3>1. PICK i \in places : TRUE
      BY <2>2
    <3>2. places = {i}
      BY <1>1, <3>1 DEF Requests
    <3>3. running = {}
      BY <1>1, <2>1, <2>2 DEF Requests
    <3>4. L!Cardinality(running) = 0 /\ L!Cardinality(places) = 1
      BY <3>2, <3>3, SingletonCount
    <3> QED BY <3>4
  <2>3. CASE places = {}
    <3>1. PICK b \in running : TRUE
      BY <1>1, <1>2, <2>1, <2>3 DEF Requests
    <3>2. running = {b}
      BY <1>1, <3>1 DEF Requests
    <3>3. L!Cardinality(running) = 1 /\ L!Cardinality(places) = 0
      BY <2>3, <3>2, SingletonCount
    <3> QED BY <3>3
  <2> QED BY <2>2, <2>3
<1> QED BY <1>1, <1>2 DEF L!OneBatchEach, Sizes

\* Load, flush, the timer's callback: a request that has no answer yet is in one batch
\* once, and a pending one is flushed by a timer or by the caller that fills its batch.
THEOREM LoaderSound ==
  ASSUME L!LoaderParameters
  PROVE  L!Spec => [](L!OneBatchEach /\ L!NotStranded)
<1>1. L!Init => LoaderInv
  BY LoaderInit
<1>2. LoaderInv /\ [L!Next]_(L!vars) => LoaderInv'
  BY LoaderStep DEF L!vars, loaderVars
<1>3. LoaderInv => L!OneBatchEach /\ L!NotStranded
  BY LoaderImplies DEF LoaderInv
<1> QED BY <1>1, <1>2, <1>3, PTL DEF L!Spec

-----------------------------------------------------------------------------
(* The bounded queue. *)

\* The items of off, then those of rest, are the items of all, position by position.
Matches(off, rest, all) ==
  /\ Len(all) = Len(off) + Len(rest)
  /\ \A i \in 1..Len(off) : all[i] = off[i][1]
  /\ \A i \in 1..Len(rest) : all[Len(off) + i] = rest[i]

DroppedAt == {i \in 1..Len(removed) : removed[i][2] = "dropped"}
Counted == droppedCount = Cardinality(DroppedAt)

QueueInv == Q!TypeOK /\ Matches(removed, items, queued) /\ Counted /\ Q!NoLostWakeup

LEMMA QueueCardinality ==
  ASSUME NEW s
  PROVE  Q!Cardinality(s) = Cardinality(s)
  BY DEF Q!Cardinality, Cardinality

LEMMA QueueInit ==
  ASSUME Q!QueueParameters, Q!Init
  PROVE  QueueInv
<1>1. /\ strategy \in Strategies /\ items = <<>> /\ droppedCount = 0
      /\ qpc = [g \in Q!Goroutine |-> "idle"] /\ pushed = [p \in Producer |-> 0]
      /\ qdone = {} /\ queued = <<>> /\ removed = <<>>
      /\ QueueSize \in Nat \ {0} /\ MaxPush \in Nat
  BY DEF Q!Init, Q!QueueParameters
<1>2. Q!TypeOK
  BY <1>1, EmptySeq DEF Q!TypeOK
<1>3. Matches(removed, items, queued)
  BY <1>1 DEF Matches
<1>4. DroppedAt = {}
  BY <1>1 DEF DroppedAt
<1>5. Counted
  BY <1>1, <1>4, FS_EmptySet DEF Counted
<1>6. Q!Asleep(Consumer) = {} /\ Q!Asleep(Producer) = {}
  BY <1>1 DEF Q!Asleep, Q!Goroutine
<1> QED BY <1>2, <1>3, <1>5, <1>6 DEF QueueInv, Q!NoLostWakeup

\* The sets that the wakeups are counted with are finite.
LEMMA SleepersFinite ==
  ASSUME Q!QueueParameters, NEW G \in {Producer, Consumer}
  PROVE  /\ IsFiniteSet(Q!Woken(G)) /\ Cardinality(Q!Woken(G)) \in Nat
         /\ IsFiniteSet(Q!Woken(G)') /\ Cardinality(Q!Woken(G)') \in Nat
<1>1. Q!Woken(G) \subseteq G /\ Q!Woken(G)' \subseteq G
  BY DEF Q!Woken
<1>2. IsFiniteSet(G)
  BY DEF Q!QueueParameters, Q!IsFiniteSet, IsFiniteSet
<1> QED BY <1>1, <1>2, FS_Subset, FS_CardinalityType

\* Signal adds one to those who are woken, if anybody sleeps; who signals may have
\* been one of the woken on its own side.
LEMMA SignalCounts ==
  ASSUME Q!QueueParameters, Q!TypeOK, NEW G \in {Producer, Consumer},
         NEW H \in {Producer, Consumer}, G # H, NEW g \in H, qpc[g] # "asleep",
         Q!LeaveAndSignal(g, G)
  PROVE  /\ qpc' \in [Q!Goroutine -> {"idle", "asleep", "woken"}]
         /\ Q!Asleep(G)' \subseteq Q!Asleep(G)
         /\ Q!Asleep(G) # {} => Cardinality(Q!Woken(G)') = Cardinality(Q!Woken(G)) + 1
         /\ Q!Asleep(H)' = Q!Asleep(H)
         /\ Cardinality(Q!Woken(H)') >= Cardinality(Q!Woken(H)) - 1
         /\ qpc[g] = "idle" => Q!Woken(H)' = Q!Woken(H)
<1>1. /\ G \cap H = {} /\ G \cup H = Q!Goroutine
      /\ qpc \in [Q!Goroutine -> {"idle", "asleep", "woken"}]
  BY DEF Q!QueueParameters, Q!TypeOK, Q!Goroutine
<1>2. IsFiniteSet(Q!Woken(G)) /\ IsFiniteSet(Q!Woken(H))
  BY SleepersFinite
<1>3. CASE Q!Asleep(G) = {}
  <2>1. qpc' = [qpc EXCEPT ![g] = "idle"]
    BY <1>3 DEF Q!LeaveAndSignal
  <2>2. \A h \in Q!Goroutine : qpc'[h] = IF h = g THEN "idle" ELSE qpc[h]
    BY <1>1, <2>1
  <2>3. Q!Asleep(G)' = {} /\ Q!Asleep(H)' = Q!Asleep(H) /\ Q!Woken(H)' = Q!Woken(H) \ {g}
    BY <1>1, <1>3, <2>2 DEF Q!Asleep, Q!Woken
  <2>4. Cardinality(Q!Woken(H)') >= Cardinality(Q!Woken(H)) - 1
    <3>1. Cardinality(Q!Woken(H) \ {g}) \in {Cardinality(Q!Woken(H)), Cardinality(Q!Woken(H)) - 1}
      BY <1>2, FS_RemoveElement
    <3>2. Cardinality(Q!Woken(H)) \in Nat
      BY <1>2, FS_CardinalityType
    <3>3. Cardinality(Q!Woken(H)') = Cardinality(Q!Woken(H) \ {g})
      BY <2>3
    <3> QED BY <3>1, <3>2, <3>3
  <2>5. qpc[g] = "idle" => Q!Woken(H)' = Q!Woken(H)
    BY <2>3 DEF Q!Woken
  <2> QED BY <1>1, <1>3, <2>1, <2>3, <2>4, <2>5
<1>4. CASE Q!Asleep(G) # {}
  <2>1. PICK s \in Q!Asleep(G) : qpc' = [qpc EXCEPT ![g] = "idle", ![s] = "woken"]
    BY <1>4 DEF Q!LeaveAndSignal
  <2>2. s \in G /\ s # g /\ qpc[s] = "asleep"
    BY <1>1, <2>1 DEF Q!Asleep
  <2>3. \A h \in Q!Goroutine :
          qpc'[h] = IF h = s THEN "woken" ELSE IF h = g THEN "idle" ELSE qpc[h]
    BY <1>1, <2>1, <2>2
  <2>4. /\ Q!Asleep(G)' = Q!Asleep(G) \ {s} /\ Q!Woken(G)' = Q!Woken(G) \cup {s}
        /\ Q!Asleep(H)' = Q!Asleep(H) /\ Q!Woken(H)' = Q!Woken(H) \ {g}
        /\ s \notin Q!Woken(G)
    BY <1>1, <2>2, <2>3 DEF Q!Asleep, Q!Woken
  <2>5. Cardinality(Q!Woken(G)') = Cardinality(Q!Woken(G)) + 1
    BY <1>2, <2>4, FS_AddElement
  <2>6. Cardinality(Q!Woken(H)') >= Cardinality(Q!Woken(H)) - 1
    <3>1. Cardinality(Q!Woken(H) \ {g}) \in {Cardinality(Q!Woken(H)), Cardinality(Q!Woken(H)) - 1}
      BY <1>2, FS_RemoveElement
    <3>2. Cardinality(Q!Woken(H)) \in Nat
      BY <1>2, FS_CardinalityType
    <3>3. Cardinality(Q!Woken(H)') = Cardinality(Q!Woken(H) \ {g})
      BY <2>4
    <3> QED BY <3>1, <3>2, <3>3
  <2>7. qpc[g] = "idle" => Q!Woken(H)' = Q!Woken(H)
    BY <2>4 DEF Q!Woken
  <2>8. qpc' \in [Q!Goroutine -> {"idle", "asleep", "woken"}]
    BY <1>1, <2>1
  <2> QED BY <2>4, <2>5, <2>6, <2>7, <2>8
<1> QED BY <1>3, <1>4

\* Off is a sequence of what was taken off, with the one who took it.
Off == Q!Item \X (Consumer \cup {"dropped"})

\* An item appended, and one taken off by whoever it is.
LEMMA AppendMatches ==
  ASSUME NEW off \in Seq(Off), NEW rest \in Seq(Q!Item), NEW all \in Seq(Q!Item),
         NEW e \in Q!Item, Matches(off, rest, all)
  PROVE  /\ Matches(off, Append(rest, e), Append(all, e))
         /\ Append(rest, e) \in Seq(Q!Item) /\ Append(all, e) \in Seq(Q!Item)
         /\ Len(Append(rest, e)) = Len(rest) + 1
<1> DEFINE more == Append(rest, e)
           every == Append(all, e)
<1>1. Len(rest) \in Nat /\ Len(off) \in Nat /\ Len(all) \in Nat
  BY LenProperties
<1>2. /\ more \in Seq(Q!Item) /\ Len(more) = Len(rest) + 1
      /\ \A i \in 1..Len(rest) : more[i] = rest[i]
      /\ more[Len(rest) + 1] = e
      /\ every \in Seq(Q!Item) /\ Len(every) = Len(all) + 1
      /\ \A i \in 1..Len(all) : every[i] = all[i]
      /\ every[Len(all) + 1] = e
  BY AppendProperties
<1> HIDE DEF more, every
<1>3. Len(every) = Len(off) + Len(more)
  BY <1>1, <1>2 DEF Matches
<1>4. \A i \in 1..Len(off) : every[i] = off[i][1]
  BY <1>1, <1>2 DEF Matches
<1>5. \A i \in 1..Len(more) : every[Len(off) + i] = more[i]
  <2> SUFFICES ASSUME NEW i \in 1..Len(more)
               PROVE  every[Len(off) + i] = more[i]
    OBVIOUS
  <2>1. Len(all) = Len(off) + Len(rest)
    BY DEF Matches
  <2>2. CASE i \in 1..Len(rest)
    <3>1. all[Len(off) + i] = rest[i]
      BY <2>2 DEF Matches
    <3>2. Len(off) + i \in 1..Len(all)
      BY <1>1, <2>1, <2>2
    <3> QED BY <1>2, <2>2, <3>1, <3>2
  <2>3. CASE i = Len(rest) + 1
    <3>1. Len(off) + i = Len(all) + 1
      BY <1>1, <2>1, <2>3
    <3>2. every[Len(off) + i] = e
      BY <1>2, <3>1
    <3>3. more[i] = e
      BY <1>2, <2>3
    <3> QED BY <3>2, <3>3
  <2>4. i \in 1..(Len(rest) + 1)
    BY <1>2
  <2>5. i \in 1..Len(rest) \/ i = Len(rest) + 1
    BY <1>1, <2>4
  <2> QED BY <2>2, <2>3, <2>5
<1>6. Matches(off, more, every)
  BY <1>3, <1>4, <1>5 DEF Matches
<1> QED BY <1>2, <1>6 DEF more, every

LEMMA TakeMatches ==
  ASSUME NEW off \in Seq(Off), NEW rest \in Seq(Q!Item), NEW all \in Seq(Q!Item),
         rest # <<>>, NEW who \in Consumer \cup {"dropped"}, Matches(off, rest, all)
  PROVE  LET more == Append(off, <<Head(rest), who>>)
         IN  /\ Matches(more, Tail(rest), all)
             /\ Tail(rest) \in Seq(Q!Item) /\ Len(Tail(rest)) = Len(rest) - 1
             /\ more \in Seq(Off) /\ Len(more) = Len(off) + 1
             /\ more[Len(off) + 1][2] = who
             /\ \A i \in 1..Len(off) : more[i] = off[i]
<1> DEFINE more == Append(off, <<Head(rest), who>>)
           left1 == Tail(rest)
<1>1. Len(rest) \in Nat \ {0} /\ Len(off) \in Nat /\ Len(all) \in Nat
  BY LenProperties, EmptySeq
<1>2. /\ Head(rest) \in Q!Item /\ Head(rest) = rest[1] /\ left1 \in Seq(Q!Item)
      /\ Len(left1) = Len(rest) - 1 /\ \A i \in 1..Len(left1) : left1[i] = rest[i + 1]
  BY <1>1, HeadTailProperties
<1>3. /\ more \in Seq(Off) /\ Len(more) = Len(off) + 1
      /\ \A i \in 1..Len(off) : more[i] = off[i]
      /\ more[Len(off) + 1] = <<Head(rest), who>>
  BY <1>2, AppendProperties DEF Off
<1> HIDE DEF more, left1
<1>4. Len(all) = Len(more) + Len(left1)
  BY <1>1, <1>2, <1>3 DEF Matches
<1>5. \A i \in 1..Len(more) : all[i] = more[i][1]
  <2> SUFFICES ASSUME NEW i \in 1..Len(more)
               PROVE  all[i] = more[i][1]
    OBVIOUS
  <2>1. CASE i \in 1..Len(off)
    BY <1>3, <2>1 DEF Matches
  <2>2. CASE i = Len(off) + 1
    <3>1. all[Len(off) + 1] = rest[1]
      BY <1>1 DEF Matches
    <3> QED BY <1>2, <1>3, <2>2, <3>1
  <2> QED BY <1>1, <1>3, <2>1, <2>2
<1>6. \A i \in 1..Len(left1) : all[Len(more) + i] = left1[i]
  <2> SUFFICES ASSUME NEW i \in 1..Len(left1)
               PROVE  all[Len(more) + i] = left1[i]
    OBVIOUS
  <2>1. i + 1 \in 1..Len(rest) /\ Len(more) + i = Len(off) + (i + 1)
    BY <1>1, <1>2, <1>3
  <2>2. all[Len(off) + (i + 1)] = rest[i + 1]
    BY <2>1 DEF Matches
  <2> QED BY <1>2, <2>1, <2>2
<1>7. Matches(more, left1, all)
  BY <1>4, <1>5, <1>6 DEF Matches
<1> QED BY <1>2, <1>3, <1>7 DEF more, left1

LEMMA NextIsItem ==
  ASSUME Q!QueueParameters, Q!TypeOK, NEW p \in Producer, pushed[p] < MaxPush
  PROVE  /\ Q!NextItem(p) \in Q!Item
         /\ [pushed EXCEPT ![p] = @ + 1] \in [Producer -> 0..MaxPush]
<1>1. MaxPush \in Nat /\ pushed[p] \in 0..MaxPush
  BY DEF Q!QueueParameters, Q!TypeOK
<1>2. pushed[p] + 1 \in 1..MaxPush /\ pushed[p] + 1 \in 0..MaxPush
  BY <1>1
<1> QED BY <1>1, <1>2 DEF Q!NextItem, Q!Item, Q!TypeOK

\* Whoever takes an item counts it when it is dropped.
LEMMA TakeCounts ==
  ASSUME Q!TypeOK, Counted, NEW who, Len(removed') = Len(removed) + 1,
         removed'[Len(removed) + 1][2] = who,
         \A i \in 1..Len(removed) : removed'[i] = removed[i],
         droppedCount' = IF who = "dropped" THEN droppedCount + 1 ELSE droppedCount
  PROVE  Counted' /\ droppedCount' \in Nat
<1>1. Len(removed) \in Nat /\ droppedCount \in Nat
  BY LenProperties DEF Q!TypeOK
<1>2. 1..Len(removed') = (1..Len(removed)) \cup {Len(removed) + 1}
  BY <1>1
<1>3. DroppedAt' = IF who = "dropped" THEN DroppedAt \cup {Len(removed) + 1} ELSE DroppedAt
  BY <1>1, <1>2 DEF DroppedAt
<1>4. IsFiniteSet(DroppedAt) /\ Len(removed) + 1 \notin DroppedAt
  <2>1. IsFiniteSet(1..Len(removed))
    BY <1>1, FS_Interval
  <2>2. DroppedAt \subseteq 1..Len(removed)
    BY DEF DroppedAt
  <2>3. IsFiniteSet(DroppedAt)
    BY <2>1, <2>2, FS_Subset
  <2>4. Len(removed) + 1 \notin 1..Len(removed)
    BY <1>1
  <2> QED BY <2>2, <2>3, <2>4
<1>5. Cardinality(DroppedAt \cup {Len(removed) + 1}) = Cardinality(DroppedAt) + 1
  BY <1>4, FS_AddElement
<1> QED BY <1>1, <1>3, <1>5 DEF Counted

\* Each step of the queue keeps this.
LEMMA QueueStep ==
  ASSUME Q!QueueParameters, QueueInv, [Q!Next]_queueVars
  PROVE  QueueInv'
<1>1. /\ Q!TypeOK /\ Matches(removed, items, queued) /\ Counted /\ Q!NoLostWakeup
      /\ items \in Seq(Q!Item) /\ queued \in Seq(Q!Item) /\ removed \in Seq(Off)
      /\ Len(items) \in Nat /\ Len(items) <= QueueSize /\ QueueSize \in Nat \ {0}
      /\ qpc \in [Q!Goroutine -> {"idle", "asleep", "woken"}]
  BY LenProperties DEF QueueInv, Q!TypeOK, Q!QueueParameters, Off
<1>2. /\ Cardinality(Q!Woken(Consumer)) \in Nat /\ Cardinality(Q!Woken(Consumer)') \in Nat
      /\ Cardinality(Q!Woken(Producer)) \in Nat /\ Cardinality(Q!Woken(Producer)') \in Nat
  BY SleepersFinite
<1>3. /\ Q!Asleep(Consumer) # {} => Cardinality(Q!Woken(Consumer)) >= Len(items)
      /\ Q!Asleep(Producer) # {} => Cardinality(Q!Woken(Producer)) >= QueueSize - Len(items)
  BY <1>1, QueueCardinality DEF Q!NoLostWakeup
<1>4. SUFFICES /\ Q!TypeOK' /\ Matches(removed, items, queued)' /\ Counted'
               /\ Q!Asleep(Consumer)' # {} => Cardinality(Q!Woken(Consumer)') >= Len(items')
               /\ Q!Asleep(Producer)' # {} => Cardinality(Q!Woken(Producer)') >= QueueSize - Len(items')
  BY QueueCardinality DEF QueueInv, Q!NoLostWakeup
<1> DEFINE Typed == Q!TypeOK' /\ Matches(removed, items, queued)' /\ Counted'
           Awake == /\ Q!Asleep(Consumer)' # {} => Cardinality(Q!Woken(Consumer)') >= Len(items')
                    /\ Q!Asleep(Producer)' # {} =>
                         Cardinality(Q!Woken(Producer)') >= QueueSize - Len(items')
<1>5. /\ Producer \subseteq Q!Goroutine /\ Consumer \subseteq Q!Goroutine
      /\ Producer \cap Consumer = {} /\ "dropped" \notin Consumer
  BY DEF Q!Goroutine, Q!QueueParameters
<1>6. ASSUME UNCHANGED <<removed, droppedCount>>
      PROVE  Counted'
  BY <1>1, <1>6 DEF Counted, DroppedAt
<1>7. ASSUME NEW p \in Producer, Q!PushFits(p)
      PROVE  Typed /\ Awake
  <2> DEFINE e == Q!NextItem(p)
  <2>1. /\ qpc[p] \in {"idle", "woken"} /\ pushed[p] < MaxPush /\ ~(Len(items) >= QueueSize)
        /\ items' = Append(items, e) /\ queued' = Append(queued, e)
        /\ pushed' = [pushed EXCEPT ![p] = @ + 1] /\ Q!LeaveAndSignal(p, Consumer)
        /\ UNCHANGED <<strategy, droppedCount, qdone, removed>>
    BY <1>7 DEF Q!PushFits, Q!Full
  <2>2. e \in Q!Item /\ pushed' \in [Producer -> 0..MaxPush]
    BY <1>1, <2>1, NextIsItem
  <2> HIDE DEF e
  <2>3. /\ Matches(removed, items', queued') /\ Len(items') = Len(items) + 1
        /\ items' \in Seq(Q!Item) /\ queued' \in Seq(Q!Item)
    BY <1>1, <2>1, <2>2, AppendMatches
  <2>4. /\ qpc' \in [Q!Goroutine -> {"idle", "asleep", "woken"}]
        /\ Q!Asleep(Consumer)' \subseteq Q!Asleep(Consumer)
        /\ Q!Asleep(Consumer) # {} =>
             Cardinality(Q!Woken(Consumer)') = Cardinality(Q!Woken(Consumer)) + 1
        /\ Q!Asleep(Producer)' = Q!Asleep(Producer)
        /\ Cardinality(Q!Woken(Producer)') >= Cardinality(Q!Woken(Producer)) - 1
    BY <1>1, <1>5, <2>1, SignalCounts
  <2>5. Matches(removed, items, queued)'
    BY <2>1, <2>3
  <2>6. Q!TypeOK'
    BY <1>1, <2>1, <2>2, <2>3, <2>4 DEF Q!TypeOK, Off
  <2>7. Awake
    BY <1>1, <1>2, <1>3, <2>3, <2>4
  <2> QED BY <1>6, <2>1, <2>5, <2>6, <2>7
<1>8. ASSUME NEW p \in Producer, Q!PushDropping(p)
      PROVE  Typed /\ Awake
  <2> DEFINE e == Q!NextItem(p)
             more == Append(removed, <<Head(items), "dropped">>)
             rest == Tail(items)
  <2>1. /\ qpc[p] = "idle" /\ pushed[p] < MaxPush /\ Len(items) >= QueueSize
        /\ items' = Append(rest, e) /\ queued' = Append(queued, e) /\ removed' = more
        /\ droppedCount' = droppedCount + 1
        /\ pushed' = [pushed EXCEPT ![p] = @ + 1] /\ Q!LeaveAndSignal(p, Consumer)
        /\ UNCHANGED <<strategy, qdone>>
    BY <1>8 DEF Q!PushDropping, Q!Full, Q!WithoutOldest
  <2>2. e \in Q!Item /\ pushed' \in [Producer -> 0..MaxPush] /\ items # <<>>
    BY <1>1, <2>1, NextIsItem, EmptySeq
  <2>3. /\ Matches(more, rest, queued) /\ rest \in Seq(Q!Item) /\ Len(rest) = Len(items) - 1
        /\ more \in Seq(Off) /\ Len(more) = Len(removed) + 1
        /\ more[Len(removed) + 1][2] = "dropped"
        /\ \A i \in 1..Len(removed) : more[i] = removed[i]
    BY <1>1, <2>2, TakeMatches
  <2> HIDE DEF e, more, rest
  <2>4. /\ Matches(more, items', queued') /\ Len(items') = Len(rest) + 1
        /\ items' \in Seq(Q!Item) /\ queued' \in Seq(Q!Item)
    BY <1>1, <2>1, <2>2, <2>3, AppendMatches
  <2>5. Len(items') = Len(items)
    BY <1>1, <2>3, <2>4
  <2>6. /\ qpc' \in [Q!Goroutine -> {"idle", "asleep", "woken"}]
        /\ Q!Asleep(Consumer)' \subseteq Q!Asleep(Consumer)
        /\ Q!Asleep(Consumer) # {} =>
             Cardinality(Q!Woken(Consumer)') = Cardinality(Q!Woken(Consumer)) + 1
        /\ Q!Asleep(Producer)' = Q!Asleep(Producer)
        /\ Q!Woken(Producer)' = Q!Woken(Producer)
    BY <1>1, <1>5, <2>1, SignalCounts
  <2>7. Matches(removed, items, queued)'
    BY <2>1, <2>4
  <2>8. Counted' /\ droppedCount' \in Nat
    BY <1>1, <2>1, <2>3, TakeCounts
  <2>9. Q!TypeOK'
    BY <1>1, <2>1, <2>2, <2>3, <2>4, <2>5, <2>6, <2>8 DEF Q!TypeOK, Off
  <2>10. Awake
    BY <1>1, <1>2, <1>3, <2>5, <2>6
  <2> QED BY <2>7, <2>8, <2>9, <2>10
<1>9. ASSUME NEW p \in Producer, Q!PushRefused(p)
      PROVE  Typed /\ Awake
  <2>1. /\ pushed[p] < MaxPush /\ Len(items) >= QueueSize
        /\ pushed' = [pushed EXCEPT ![p] = @ + 1] /\ qpc' = [qpc EXCEPT ![p] = "idle"]
        /\ UNCHANGED <<strategy, items, droppedCount, qdone, queued, removed>>
    BY <1>9 DEF Q!PushRefused, Q!Full
  <2>2. pushed' \in [Producer -> 0..MaxPush]
    BY <1>1, <2>1, NextIsItem
  <2>3. qpc' \in [Q!Goroutine -> {"idle", "asleep", "woken"}]
    BY <1>1, <2>1
  <2>4. \A c \in Consumer : qpc'[c] = qpc[c]
    BY <1>1, <1>5, <2>1
  <2>5. Q!Asleep(Consumer)' = Q!Asleep(Consumer) /\ Q!Woken(Consumer)' = Q!Woken(Consumer)
    BY <2>4 DEF Q!Asleep, Q!Woken
  <2>6. Awake
    BY <1>1, <1>2, <1>3, <2>1, <2>5
  <2> QED BY <1>1, <1>6, <2>1, <2>2, <2>3, <2>6 DEF Q!TypeOK
<1>10. ASSUME NEW p \in Producer, Q!PushSleeps(p)
      PROVE  Typed /\ Awake
  <2>1. /\ Len(items) >= QueueSize /\ qpc' = [qpc EXCEPT ![p] = "asleep"]
        /\ UNCHANGED <<strategy, items, droppedCount, pushed, qdone, queued, removed>>
    BY <1>10 DEF Q!PushSleeps, Q!Sleep, Q!Full
  <2>2. qpc' \in [Q!Goroutine -> {"idle", "asleep", "woken"}]
    BY <1>1, <2>1
  <2>3. \A c \in Consumer : qpc'[c] = qpc[c]
    BY <1>1, <1>5, <2>1
  <2>4. Q!Asleep(Consumer)' = Q!Asleep(Consumer) /\ Q!Woken(Consumer)' = Q!Woken(Consumer)
    BY <2>3 DEF Q!Asleep, Q!Woken
  <2>5. Awake
    BY <1>1, <1>2, <1>3, <2>1, <2>4
  <2> QED BY <1>1, <1>6, <2>1, <2>2, <2>5 DEF Q!TypeOK
<1>11. ASSUME NEW c \in Consumer, Q!PopTakes(c)
      PROVE  Typed /\ Awake
  <2> DEFINE more == Append(removed, <<Head(items), c>>)
             rest == Tail(items)
  <2>1. /\ qpc[c] \in {"idle", "woken"} /\ items # <<>>
        /\ items' = rest /\ removed' = more /\ Q!LeaveAndSignal(c, Producer)
        /\ UNCHANGED <<strategy, droppedCount, pushed, qdone, queued>>
    BY <1>11 DEF Q!PopTakes, Q!Empty
  <2>2. /\ Matches(more, rest, queued) /\ rest \in Seq(Q!Item) /\ Len(rest) = Len(items) - 1
        /\ more \in Seq(Off) /\ Len(more) = Len(removed) + 1
        /\ more[Len(removed) + 1][2] = c
        /\ \A i \in 1..Len(removed) : more[i] = removed[i]
    BY <1>1, <2>1, TakeMatches
  <2> HIDE DEF more, rest
  <2>3. /\ qpc' \in [Q!Goroutine -> {"idle", "asleep", "woken"}]
        /\ Q!Asleep(Producer)' \subseteq Q!Asleep(Producer)
        /\ Q!Asleep(Producer) # {} =>
             Cardinality(Q!Woken(Producer)') = Cardinality(Q!Woken(Producer)) + 1
        /\ Q!Asleep(Consumer)' = Q!Asleep(Consumer)
        /\ Cardinality(Q!Woken(Consumer)') >= Cardinality(Q!Woken(Consumer)) - 1
    BY <1>1, <1>5, <2>1, SignalCounts
  <2>4. Matches(removed, items, queued)'
    BY <2>1, <2>2
  <2>5. Counted'
    BY <1>1, <1>5, <2>1, <2>2, TakeCounts
  <2>6. Q!TypeOK'
    <3>1. items' \in Seq(Q!Item) /\ Len(items') <= QueueSize
      BY <1>1, <2>1, <2>2
    <3>2. removed' \in Seq(Q!Item \X (Consumer \cup {"dropped"}))
      BY <2>1, <2>2 DEF Off
    <3>3. /\ strategy' \in Strategies /\ droppedCount' \in Nat /\ queued' \in Seq(Q!Item)
          /\ pushed' \in [Producer -> 0..MaxPush] /\ qdone' \subseteq Producer
      BY <1>1, <2>1 DEF Q!TypeOK
    <3> QED BY <2>3, <3>1, <3>2, <3>3 DEF Q!TypeOK
  <2>7. Awake
    <3>1. Len(items') = Len(items) - 1
      BY <2>1, <2>2
    <3>2. Q!Asleep(Consumer)' # {} => Cardinality(Q!Woken(Consumer)') >= Len(items')
      BY <1>1, <1>2, <1>3, <2>3, <3>1
    <3>3. Q!Asleep(Producer)' # {} => Cardinality(Q!Woken(Producer)') >= QueueSize - Len(items')
      <4>1. Q!Asleep(Producer)' # {} => Q!Asleep(Producer) # {}
        BY <2>3
      <4> QED BY <1>1, <1>2, <1>3, <2>3, <3>1, <4>1
    <3> QED BY <3>2, <3>3
  <2> QED BY <2>4, <2>5, <2>6, <2>7
<1>12. ASSUME NEW c \in Consumer, Q!PopSleeps(c)
      PROVE  Typed /\ Awake
  <2>1. /\ items = <<>> /\ qpc' = [qpc EXCEPT ![c] = "asleep"]
        /\ UNCHANGED <<strategy, items, droppedCount, pushed, qdone, queued, removed>>
    BY <1>12 DEF Q!PopSleeps, Q!Sleep, Q!Empty
  <2>2. qpc' \in [Q!Goroutine -> {"idle", "asleep", "woken"}] /\ Len(items) = 0
    BY <1>1, <2>1, EmptySeq
  <2>3. \A p \in Producer : qpc'[p] = qpc[p]
    BY <1>1, <1>5, <2>1
  <2>4. Q!Asleep(Producer)' = Q!Asleep(Producer) /\ Q!Woken(Producer)' = Q!Woken(Producer)
    BY <2>3 DEF Q!Asleep, Q!Woken
  <2>5. Awake
    BY <1>1, <1>2, <1>3, <2>1, <2>2, <2>4
  <2> QED BY <1>1, <1>6, <2>1, <2>2, <2>5 DEF Q!TypeOK
<1>13. ASSUME NEW p \in Producer, Q!Cancel(p)
      PROVE  Typed /\ Awake
  <2>1. /\ qdone' = qdone \cup {p}
        /\ UNCHANGED <<strategy, items, droppedCount, qpc, pushed, queued, removed>>
    BY <1>13 DEF Q!Cancel
  <2> QED BY <1>1, <1>3, <1>6, <2>1 DEF Q!TypeOK, Q!Asleep, Q!Woken
<1>14. CASE UNCHANGED queueVars
  <2>1. UNCHANGED <<strategy, items, droppedCount, qpc, pushed, qdone, queued, removed>>
    BY <1>14 DEF queueVars
  <2> QED BY <1>1, <1>3, <1>6, <2>1 DEF Q!TypeOK, Q!Asleep, Q!Woken
<1> QED
  BY <1>7, <1>8, <1>9, <1>10, <1>11, <1>12, <1>13, <1>14 DEF Q!Next, Q!Push, Q!Pop

LEMMA QueueImplies ==
  ASSUME QueueInv
  PROVE  Q!FifoConserved
<1> DEFINE off == [i \in 1..Len(removed) |-> removed[i][1]]
<1>1. /\ removed \in Seq(Off) /\ items \in Seq(Q!Item) /\ queued \in Seq(Q!Item)
      /\ Matches(removed, items, queued) /\ Counted
  BY DEF QueueInv, Q!TypeOK, Off
<1>2. Len(removed) \in Nat /\ Len(items) \in Nat
  BY <1>1, LenProperties
<1>3. \A i \in 1..Len(removed) : removed[i][1] \in Q!Item
  BY <1>1, ElementOfSeq DEF Off
<1>4. off \in Seq(Q!Item) /\ Len(off) = Len(removed)
  BY <1>2, <1>3
<1>5. \A i \in 1..Len(off) : off[i] = queued[i]
  BY <1>1, <1>4 DEF Matches
<1> HIDE DEF off
<1>6. /\ off \o items \in Seq(Q!Item) /\ Len(off \o items) = Len(off) + Len(items)
      /\ \A i \in 1..(Len(off) + Len(items)) :
           (off \o items)[i] = IF i <= Len(off) THEN off[i] ELSE items[i - Len(off)]
  BY <1>1, <1>4, ConcatProperties
<1>7. Len(off \o items) = Len(queued)
  BY <1>1, <1>4, <1>6 DEF Matches
<1>8. ASSUME NEW i \in 1..Len(off \o items)
      PROVE  (off \o items)[i] = queued[i]
  <2>1. CASE i <= Len(off)
    BY <1>2, <1>4, <1>5, <1>6, <2>1
  <2>2. CASE ~(i <= Len(off))
    <3> DEFINE k == i - Len(off)
    <3>1. k \in 1..Len(items) /\ Len(removed) + k = i
      BY <1>2, <1>4, <1>6, <2>2
    <3>2. queued[Len(removed) + k] = items[k]
      BY <1>1, <3>1 DEF Matches
    <3>3. (off \o items)[i] = items[k]
      BY <1>6, <2>2
    <3> QED BY <3>1, <3>2, <3>3
  <2> QED BY <2>1, <2>2
<1>9. off \o items = queued
  BY <1>1, <1>6, <1>7, <1>8, SeqEqual
<1> QED BY <1>1, <1>9, QueueCardinality DEF off, Q!FifoConserved, Counted, DroppedAt

\* Push, Pop and both condition variables: items keep their order and their number, and
\* nobody sleeps beside what it waits for.
THEOREM QueueSound ==
  ASSUME Q!QueueParameters
  PROVE  Q!Spec => [](Q!FifoConserved /\ Q!NoLostWakeup)
<1>1. Q!Init => QueueInv
  BY QueueInit
<1>2. QueueInv /\ [Q!Next]_(Q!vars) => QueueInv'
  BY QueueStep DEF Q!vars, queueVars
<1>3. QueueInv => Q!FifoConserved /\ Q!NoLostWakeup
  BY QueueImplies DEF QueueInv
<1> QED BY <1>1, <1>2, <1>3, PTL DEF Q!Spec

-----------------------------------------------------------------------------
(* Channels: sequences whose items are all different. *)

Members(s) == {s[i] : i \in DOMAIN s}
Distinct(s) == \A i, j \in 1..Len(s) : s[i] = s[j] => i = j

LEMMA MembersAre ==
  ASSUME NEW s
  PROVE  C!ToSet(s) = Members(s) /\ P!Range(s) = Members(s)
  BY DEF Members, C!ToSet, P!Range

LEMMA NothingInside == Members(<<>>) = {} /\ Distinct(<<>>)
  BY DEF Members, Distinct

LEMMA MembersTyped ==
  ASSUME NEW S, NEW s \in Seq(S)
  PROVE  Members(s) \subseteq S /\ (s = <<>> <=> Members(s) = {})
<1>1. /\ Len(s) \in Nat /\ DOMAIN s = 1..Len(s) /\ (s # <<>> => Len(s) \in Nat \ {0})
      /\ \A i \in 1..Len(s) : s[i] \in S
  BY LenProperties, EmptySeq
<1>2. s # <<>> => s[1] \in Members(s)
  BY <1>1 DEF Members
<1>3. Members(s) \subseteq S
  BY <1>1 DEF Members
<1>4. s = <<>> <=> Members(s) = {}
  BY <1>2, NothingInside
<1> QED BY <1>3, <1>4

\* A send puts one more item into a channel,
LEMMA SendOne ==
  ASSUME NEW S, NEW s \in Seq(S), NEW e \in S
  PROVE  /\ Append(s, e) \in Seq(S) /\ Len(Append(s, e)) = Len(s) + 1
         /\ Members(Append(s, e)) = Members(s) \cup {e}
         /\ Distinct(s) /\ e \notin Members(s) => Distinct(Append(s, e))
<1> DEFINE t == Append(s, e)
<1>1. /\ t \in Seq(S) /\ Len(t) = Len(s) + 1 /\ \A i \in 1..Len(s) : t[i] = s[i]
      /\ t[Len(s) + 1] = e
      /\ DOMAIN t = 1..Len(t) /\ DOMAIN s = 1..Len(s) /\ Len(s) \in Nat
  BY AppendProperties, LenProperties
<1> HIDE DEF t
<1>2. 1..Len(t) = (1..Len(s)) \cup {Len(s) + 1}
  BY <1>1
<1>3. ASSUME NEW x \in Members(t) PROVE x \in Members(s) \cup {e}
  BY <1>1, <1>2, <1>3 DEF Members
<1>4. ASSUME NEW x \in Members(s) \cup {e} PROVE x \in Members(t)
  BY <1>1, <1>2, <1>4 DEF Members
<1>5. ASSUME Distinct(s), e \notin Members(s)
      PROVE  Distinct(t)
  <2> SUFFICES ASSUME NEW i \in 1..Len(t), NEW j \in 1..Len(t), t[i] = t[j]
               PROVE  i = j
    BY DEF Distinct
  <2>1. \A k \in 1..Len(s) : t[k] # e /\ t[k] = s[k]
    BY <1>1, <1>5 DEF Members
  <2> QED BY <1>1, <1>2, <1>5, <2>1 DEF Distinct
<1> QED BY <1>1, <1>3, <1>4, <1>5 DEF t

\* and a receive takes the first one out.
LEMMA ReceiveOne ==
  ASSUME NEW S, NEW s \in Seq(S), s # <<>>
  PROVE  /\ Head(s) \in S /\ Tail(s) \in Seq(S) /\ Len(Tail(s)) = Len(s) - 1 /\ Len(s) \in Nat
         /\ Members(s) = Members(Tail(s)) \cup {Head(s)}
         /\ Distinct(s) => Distinct(Tail(s)) /\ Head(s) \notin Members(Tail(s))
<1> DEFINE t == Tail(s)
<1>1. /\ t \in Seq(S) /\ Len(t) = Len(s) - 1 /\ \A i \in 1..Len(t) : t[i] = s[i + 1]
      /\ Head(s) = s[1] /\ Head(s) \in S
      /\ DOMAIN t = 1..Len(t) /\ DOMAIN s = 1..Len(s) /\ Len(s) \in Nat \ {0}
  BY HeadTailProperties, LenProperties, EmptySeq
<1> HIDE DEF t
<1>2. \A i \in 1..Len(s) : i = 1 \/ i - 1 \in 1..Len(t)
  BY <1>1
<1>3. \A i \in 1..Len(t) : i + 1 \in 1..Len(s) /\ i + 1 # 1
  BY <1>1
<1>4. ASSUME NEW x \in Members(s) PROVE x \in Members(t) \cup {s[1]}
  <2>1. PICK i \in 1..Len(s) : x = s[i]
    BY <1>1, <1>4 DEF Members
  <2>2. CASE i # 1
    <3>1. i - 1 \in 1..Len(t) /\ (i - 1) + 1 = i
      BY <1>2, <2>2
    <3>2. t[i - 1] = s[i]
      BY <1>1, <3>1
    <3> QED BY <1>1, <2>1, <3>1, <3>2 DEF Members
  <2> QED BY <2>1, <2>2
<1>5. ASSUME NEW x \in Members(t) \cup {s[1]} PROVE x \in Members(s)
  BY <1>1, <1>3, <1>5 DEF Members
<1>6. ASSUME Distinct(s)
      PROVE  Distinct(t) /\ s[1] \notin Members(t)
  <2>1. ASSUME NEW i \in 1..Len(t), NEW j \in 1..Len(t), t[i] = t[j]
        PROVE  i = j
    <3>1. s[i + 1] = s[j + 1] /\ i + 1 \in 1..Len(s) /\ j + 1 \in 1..Len(s)
      BY <1>1, <1>3, <2>1
    <3>2. i + 1 = j + 1
      BY <1>6, <3>1 DEF Distinct
    <3> QED BY <3>2
  <2>2. ASSUME NEW i \in 1..Len(t)
        PROVE  t[i] # s[1]
    <3>1. t[i] = s[i + 1] /\ i + 1 \in 1..Len(s) /\ i + 1 # 1 /\ 1 \in 1..Len(s)
      BY <1>1, <1>3
    <3> QED BY <1>6, <3>1 DEF Distinct
  <2> QED BY <1>1, <2>1, <2>2 DEF Distinct, Members
<1> QED BY <1>1, <1>4, <1>5, <1>6 DEF t

\* Their number is the length.
LEMMA MembersCounted ==
  ASSUME NEW S, NEW s \in Seq(S), Distinct(s)
  PROVE  IsFiniteSet(Members(s)) /\ Cardinality(Members(s)) = Len(s)
<1>1. Len(s) \in Nat /\ DOMAIN s = 1..Len(s) /\ s \in [1..Len(s) -> S]
  BY LenProperties
<1>2. s \in [1..Len(s) -> Members(s)]
  BY <1>1 DEF Members
<1>3. s \in Bijection(1..Len(s), Members(s))
  <2>1. \A i, j \in 1..Len(s) : s[i] = s[j] => i = j
    BY DEF Distinct
  <2>2. \A x \in Members(s) : \E i \in 1..Len(s) : s[i] = x
    BY <1>1 DEF Members
  <2> QED BY <1>2, <2>1, <2>2 DEF Bijection, Injection, Surjection, IsInjective
<1>4. IsFiniteSet(1..Len(s)) /\ Cardinality(1..Len(s)) = Len(s)
  <2>1. IsFiniteSet(1..Len(s)) /\ Cardinality(1..Len(s)) = IF 1 > Len(s) THEN 0 ELSE Len(s) - 1 + 1
    BY <1>1, FS_Interval
  <2> QED BY <1>1, <2>1
<1>5. ExistsBijection(1..Len(s), Members(s))
  BY <1>3 DEF ExistsBijection
<1> QED BY <1>4, <1>5, FS_Bijection

-----------------------------------------------------------------------------
(* The stages. *)

\* What goroutines hold, and all that has left the producer.
Carried == {i \in C!Items : \E w \in Worker : i \in {worker[w], forwarder[w]}}
Everywhere == Members(source) \cup Members(merged) \cup Members(collected) \cup Carried

StagesTyped ==
  /\ source \in Seq(C!Items) /\ merged \in Seq(C!Items) /\ collected \in Seq(C!Items)
  /\ worker \in [Worker -> C!Items \cup {Nothing, Ended}]
  /\ forwarder \in [Worker -> C!Items \cup {Nothing, Ended}]
  /\ next \in 1..(Count + 1)

\* An item is in one channel, with one worker or with one forwarder.
OnePlace ==
  /\ Distinct(source) /\ Distinct(merged) /\ Distinct(collected)
  /\ Members(source) \cap Members(merged) = {} /\ Members(source) \cap Members(collected) = {}
  /\ Members(merged) \cap Members(collected) = {}
  /\ (Members(source) \cup Members(merged) \cup Members(collected)) \cap Carried = {}
  /\ \A v, w \in Worker : worker[w] \in C!Items =>
       /\ worker[w] # forwarder[v]
       /\ v # w => worker[w] # worker[v]
  /\ \A v, w \in Worker : forwarder[w] \in C!Items /\ v # w => forwarder[w] # forwarder[v]

\* All that was sent, and only that, is somewhere while nobody cancels.
Produced ==
  /\ Everywhere \subseteq 1..(next - 1)
  /\ ~stopped => Everywhere = 1..(next - 1)

\* Who has ended left nothing behind, and the reader knows.
Ends ==
  /\ sourceClosed => next = Count + 1
  /\ mergedClosed => C!AllEnded
  /\ ~stopped => \A w \in Worker : worker[w] = Ended => C!Drained
  /\ reader = "complete" => Members(collected) = C!Items

StagesInv == StagesTyped /\ OnePlace /\ Produced /\ Ends

LEMMA StagesInit ==
  ASSUME C!StageParameters, C!Init
  PROVE  StagesInv
<1>1. /\ worker = [w \in Worker |-> Nothing]
      /\ forwarder \in [Worker -> {Nothing, Ended}]
      /\ merged = <<>> /\ collected = <<>> /\ ~mergedClosed /\ reader = "reading"
      /\ Count \in Nat /\ Nothing \notin C!Items /\ Ended \notin C!Items /\ Nothing # Ended
  BY DEF C!Init, C!StageParameters, C!Items
<1>2. \/ next = 1 /\ source = <<>> /\ ~sourceClosed
      \/ next = Count + 1 /\ source = [i \in C!Items |-> i] /\ sourceClosed
  BY DEF C!Init
<1>3. next \in 1..(Count + 1) /\ source \in Seq(C!Items) /\ Distinct(source)
      /\ Members(source) = 1..(next - 1)
  <2>1. CASE next = 1 /\ source = <<>>
    <3>1. 1..(next - 1) = {}
      BY <2>1
    <3> QED BY <1>1, <2>1, <3>1, NothingInside
  <2>2. CASE next = Count + 1 /\ source = [i \in C!Items |-> i]
    <3>1. Len(source) = Count /\ source \in Seq(C!Items) /\ DOMAIN source = C!Items
      BY <1>1, <2>2 DEF C!Items
    <3>2. Members(source) = C!Items
      BY <2>2 DEF Members
    <3>3. Distinct(source)
      BY <2>2, <3>1 DEF Distinct, C!Items
    <3>4. next \in 1..(Count + 1) /\ 1..(next - 1) = C!Items
      BY <1>1, <2>2 DEF C!Items
    <3> QED BY <3>1, <3>2, <3>3, <3>4
  <2> QED BY <1>2, <2>1, <2>2
<1>4. Carried = {}
  BY <1>1 DEF Carried
<1>5. StagesTyped
  BY <1>1, <1>3 DEF StagesTyped
<1>6. OnePlace
  BY <1>1, <1>3, <1>4, NothingInside DEF OnePlace
<1>7. Produced
  BY <1>1, <1>3, <1>4, NothingInside DEF Produced, Everywhere
<1>8. Ends
  BY <1>1, <1>2 DEF Ends
<1> QED BY <1>5, <1>6, <1>7, <1>8 DEF StagesInv

\* Each step keeps this.
LEMMA StagesStep ==
  ASSUME C!StageParameters, StagesInv, [C!Next]_stageVars
  PROVE  StagesInv'
<1>1. /\ StagesTyped /\ OnePlace /\ Produced /\ Ends
      /\ source \in Seq(C!Items) /\ merged \in Seq(C!Items) /\ collected \in Seq(C!Items)
      /\ worker \in [Worker -> C!Items \cup {Nothing, Ended}]
      /\ forwarder \in [Worker -> C!Items \cup {Nothing, Ended}]
      /\ next \in 1..(Count + 1)
      /\ Count \in Nat /\ Nothing \notin C!Items /\ Ended \notin C!Items /\ Nothing # Ended
  BY DEF StagesInv, StagesTyped, C!StageParameters, C!Items
<1>2. ASSUME UNCHANGED <<source, merged, collected, next, stopped>>,
             Carried' = Carried \/ (stopped /\ Carried' \subseteq Carried)
      PROVE  Produced'
  BY <1>1, <1>2 DEF Produced, Everywhere
<1>3. CASE C!Generate
  <2>1. /\ ~sourceClosed
        /\ UNCHANGED <<shape, worker, forwarder, merged, mergedClosed, stopped, collected, reader>>
        /\ \/ /\ next <= Count /\ source' = Append(source, next) /\ next' = next + 1
              /\ sourceClosed' = sourceClosed
           \/ ~(next <= Count) /\ sourceClosed' = TRUE /\ source' = source /\ next' = next
    BY <1>3 DEF C!Generate
  <2>2. Carried' = Carried
    BY <2>1 DEF Carried
  <2>3. Ends'
    BY <1>1, <2>1 DEF Ends, C!AllEnded, C!Drained
  <2>4. CASE next <= Count
    <3>1. source' = Append(source, next) /\ next' = next + 1
      BY <2>1, <2>4
    <3>2. next \in C!Items /\ next' \in 1..(Count + 1) /\ 1..(next' - 1) = (1..(next - 1)) \cup {next}
          /\ next \notin 1..(next - 1)
      BY <1>1, <2>4, <3>1 DEF C!Items
    <3>3. next \notin Everywhere
      BY <1>1, <3>2 DEF Produced
    <3>4. /\ source' \in Seq(C!Items) /\ Members(source') = Members(source) \cup {next}
          /\ Distinct(source')
      BY <1>1, <3>1, <3>2, <3>3, SendOne DEF OnePlace, Everywhere
    <3>5. StagesTyped'
      BY <1>1, <2>1, <3>2, <3>4 DEF StagesTyped
    <3>6. OnePlace'
      BY <1>1, <2>1, <2>2, <3>3, <3>4 DEF OnePlace, Everywhere
    <3>7. Produced'
      BY <1>1, <2>1, <2>2, <3>2, <3>4 DEF Produced, Everywhere
    <3> QED BY <2>3, <3>5, <3>6, <3>7 DEF StagesInv
  <2>5. CASE ~(next <= Count)
    <3>1. source' = source /\ next' = next
      BY <2>1, <2>5
    <3> QED BY <1>1, <1>2, <2>1, <2>2, <2>3, <3>1 DEF StagesInv, StagesTyped, OnePlace
  <2> QED BY <2>4, <2>5
<1>4. ASSUME NEW w \in Worker, C!Take(w) PROVE StagesInv'
  <2> DEFINE e == Head(source)
  <2>1. /\ worker[w] = Nothing /\ source # <<>> /\ worker' = [worker EXCEPT ![w] = e]
        /\ source' = Tail(source)
        /\ UNCHANGED <<shape, next, sourceClosed, forwarder, merged, mergedClosed, stopped,
                       collected, reader>>
    BY <1>4 DEF C!Take, C!WorkerIs
  <2>2. /\ e \in C!Items /\ source' \in Seq(C!Items)
        /\ Members(source) = Members(source') \cup {e} /\ Distinct(source')
        /\ e \notin Members(source')
    BY <1>1, <2>1, ReceiveOne DEF OnePlace
  <2> HIDE DEF e
  <2>3. /\ worker' \in [Worker -> C!Items \cup {Nothing, Ended}]
        /\ \A v \in Worker : worker'[v] = IF v = w THEN e ELSE worker[v]
    BY <1>1, <2>1, <2>2
  <2>4. Carried' = Carried \cup {e}
    BY <1>1, <2>1, <2>2, <2>3 DEF Carried
  <2>5. StagesTyped'
    BY <1>1, <2>1, <2>2, <2>3 DEF StagesTyped
  <2>6. \A v \in Worker : worker[v] # e /\ forwarder[v] # e
    BY <1>1, <2>2 DEF OnePlace, Carried
  <2>7. OnePlace'
    BY <1>1, <2>1, <2>2, <2>3, <2>4, <2>6 DEF OnePlace
  <2>8. Produced'
    BY <1>1, <2>1, <2>2, <2>4 DEF Produced, Everywhere
  <2>9. ~mergedClosed /\ (~stopped => \A v \in Worker : worker[v] # Ended)
    BY <1>1, <2>1 DEF Ends, C!AllEnded, C!Drained
  <2>10. Ends'
    BY <1>1, <2>1, <2>2, <2>3, <2>9 DEF Ends
  <2> QED BY <2>5, <2>7, <2>8, <2>10 DEF StagesInv
<1>5. ASSUME NEW w \in Worker, C!Offer(w) PROVE StagesInv'
  <2> DEFINE e == worker[w]
  <2>1. /\ e \in C!Items /\ worker' = [worker EXCEPT ![w] = Nothing]
        /\ \/ forwarder[w] = Nothing /\ forwarder' = [forwarder EXCEPT ![w] = e] /\ merged' = merged
           \/ merged' = Append(merged, e) /\ forwarder' = forwarder
        /\ UNCHANGED <<shape, next, source, sourceClosed, mergedClosed, stopped, collected, reader>>
    BY <1>5 DEF C!Offer, C!WorkerIs, C!ForwarderIs
  <2>2. /\ worker' \in [Worker -> C!Items \cup {Nothing, Ended}]
        /\ \A v \in Worker : worker'[v] = IF v = w THEN Nothing ELSE worker[v]
    BY <1>1, <2>1
  <2>3. /\ e \in Carried /\ e \notin Members(source) /\ e \notin Members(merged)
        /\ e \notin Members(collected)
        /\ \A v \in Worker : forwarder[v] # e /\ (v # w => worker[v] # e)
    BY <1>1, <2>1 DEF Carried, OnePlace
  <2>4. ~mergedClosed
    BY <1>1, <2>1 DEF Ends, C!AllEnded
  <2>5. Ends'
    BY <1>1, <2>1, <2>2, <2>4 DEF Ends, C!Drained
  <2>6. CASE forwarder[w] = Nothing /\ forwarder' = [forwarder EXCEPT ![w] = e] /\ merged' = merged
    <3>1. /\ forwarder' \in [Worker -> C!Items \cup {Nothing, Ended}]
          /\ \A v \in Worker : forwarder'[v] = IF v = w THEN e ELSE forwarder[v]
      BY <1>1, <2>1, <2>6
    <3>2. Carried' = Carried
      BY <1>1, <2>1, <2>2, <2>6, <3>1 DEF Carried
    <3>3. StagesTyped' /\ Produced'
      BY <1>1, <1>2, <2>1, <2>2, <2>6, <3>1, <3>2 DEF StagesTyped
    <3>4. OnePlace'
      BY <1>1, <2>1, <2>2, <2>3, <2>6, <3>1, <3>2 DEF OnePlace
    <3> QED BY <2>5, <3>3, <3>4 DEF StagesInv
  <2>7. CASE merged' = Append(merged, e) /\ forwarder' = forwarder
    <3>1. /\ merged' \in Seq(C!Items) /\ Members(merged') = Members(merged) \cup {e}
          /\ Distinct(merged')
      BY <1>1, <2>1, <2>3, <2>7, SendOne DEF OnePlace
    <3>2. Carried' = Carried \ {e}
      BY <1>1, <2>1, <2>2, <2>3, <2>7 DEF Carried
    <3>3. StagesTyped'
      BY <1>1, <2>1, <2>2, <2>7, <3>1 DEF StagesTyped
    <3>4. Produced'
      BY <1>1, <2>1, <2>3, <3>1, <3>2 DEF Produced, Everywhere
    <3>5. OnePlace'
      BY <1>1, <2>1, <2>2, <2>3, <2>7, <3>1, <3>2 DEF OnePlace
    <3> QED BY <2>5, <3>3, <3>4, <3>5 DEF StagesInv
  <2> QED BY <2>1, <2>6, <2>7
<1>6. ASSUME NEW w \in Worker, C!WorkerEnds(w) PROVE StagesInv'
  <2>1. /\ stopped \/ (worker[w] = Nothing /\ C!Drained)
        /\ worker' = [worker EXCEPT ![w] = Ended]
        /\ UNCHANGED <<shape, next, source, sourceClosed, forwarder, merged, mergedClosed, stopped,
                       collected, reader>>
    BY <1>6 DEF C!WorkerEnds, C!WorkerIs
  <2>2. /\ worker' \in [Worker -> C!Items \cup {Nothing, Ended}]
        /\ \A v \in Worker : worker'[v] = IF v = w THEN Ended ELSE worker[v]
    BY <1>1, <2>1
  <2>3. Carried' \subseteq Carried /\ (worker[w] = Nothing => Carried' = Carried)
    BY <1>1, <2>1, <2>2 DEF Carried
  <2>4. StagesTyped' /\ Produced'
    BY <1>1, <1>2, <2>1, <2>2, <2>3 DEF StagesTyped
  <2>5. OnePlace'
    BY <1>1, <2>1, <2>2, <2>3 DEF OnePlace
  <2>6. Ends'
    BY <1>1, <2>1, <2>2 DEF Ends, C!AllEnded, C!Drained
  <2> QED BY <2>4, <2>5, <2>6 DEF StagesInv
<1>7. ASSUME NEW w \in Worker, C!ForwarderEnds(w) PROVE StagesInv'
  <2>1. /\ stopped \/ forwarder[w] = Nothing
        /\ forwarder' = [forwarder EXCEPT ![w] = Ended]
        /\ UNCHANGED <<shape, next, source, sourceClosed, worker, merged, mergedClosed, stopped,
                       collected, reader>>
    BY <1>7 DEF C!ForwarderEnds, C!ForwarderIs
  <2>2. /\ forwarder' \in [Worker -> C!Items \cup {Nothing, Ended}]
        /\ \A v \in Worker : forwarder'[v] = IF v = w THEN Ended ELSE forwarder[v]
    BY <1>1, <2>1
  <2>3. Carried' \subseteq Carried /\ (forwarder[w] = Nothing => Carried' = Carried)
    BY <1>1, <2>1, <2>2 DEF Carried
  <2>4. StagesTyped' /\ Produced'
    BY <1>1, <1>2, <2>1, <2>2, <2>3 DEF StagesTyped
  <2>5. OnePlace'
    BY <1>1, <2>1, <2>2, <2>3 DEF OnePlace
  <2>6. Ends'
    BY <1>1, <2>1, <2>2 DEF Ends, C!AllEnded, C!Drained
  <2> QED BY <2>4, <2>5, <2>6 DEF StagesInv
<1>8. CASE C!CloseMerged
  <2>1. /\ C!AllEnded /\ mergedClosed' = TRUE
        /\ UNCHANGED <<shape, next, source, sourceClosed, worker, forwarder, merged, stopped,
                       collected, reader>>
    BY <1>8 DEF C!CloseMerged
  <2>2. Carried' = Carried
    BY <2>1 DEF Carried
  <2>3. StagesTyped' /\ OnePlace' /\ Produced'
    BY <1>1, <1>2, <2>1, <2>2 DEF StagesTyped, OnePlace
  <2>4. Ends'
    BY <1>1, <2>1 DEF Ends, C!AllEnded, C!Drained
  <2> QED BY <2>3, <2>4 DEF StagesInv
<1>9. ASSUME NEW w \in Worker, C!Deliver(w) PROVE StagesInv'
  <2> DEFINE e == forwarder[w]
  <2>1. /\ reader = "reading" /\ e \in C!Items /\ collected' = Append(collected, e)
        /\ forwarder' = [forwarder EXCEPT ![w] = Nothing]
        /\ UNCHANGED <<shape, next, source, sourceClosed, worker, merged, mergedClosed, stopped,
                       reader>>
    BY <1>9 DEF C!Deliver, C!ForwarderIs
  <2>2. /\ forwarder' \in [Worker -> C!Items \cup {Nothing, Ended}]
        /\ \A v \in Worker : forwarder'[v] = IF v = w THEN Nothing ELSE forwarder[v]
    BY <1>1, <2>1
  <2>3. /\ e \in Carried /\ e \notin Members(source) /\ e \notin Members(merged)
        /\ e \notin Members(collected)
        /\ \A v \in Worker : worker[v] # e /\ (v # w => forwarder[v] # e)
    BY <1>1, <2>1 DEF Carried, OnePlace
  <2>4. /\ collected' \in Seq(C!Items) /\ Members(collected') = Members(collected) \cup {e}
        /\ Distinct(collected')
    BY <1>1, <2>1, <2>3, SendOne DEF OnePlace
  <2>5. Carried' = Carried \ {e}
    BY <1>1, <2>1, <2>2, <2>3 DEF Carried
  <2>6. StagesTyped'
    BY <1>1, <2>1, <2>2, <2>4 DEF StagesTyped
  <2>7. Produced'
    BY <1>1, <2>1, <2>3, <2>4, <2>5 DEF Produced, Everywhere
  <2>8. OnePlace'
    BY <1>1, <2>1, <2>2, <2>3, <2>4, <2>5 DEF OnePlace
  <2>9. Ends'
    BY <1>1, <2>1 DEF Ends, C!AllEnded, C!Drained
  <2> QED BY <2>6, <2>7, <2>8, <2>9 DEF StagesInv
<1>10. CASE C!Collect
  <2> DEFINE e == Head(merged)
  <2>1. /\ reader = "reading" /\ merged # <<>> /\ collected' = Append(collected, e)
        /\ merged' = Tail(merged)
        /\ UNCHANGED <<shape, next, source, sourceClosed, worker, forwarder, mergedClosed, stopped,
                       reader>>
    BY <1>10 DEF C!Collect
  <2>2. /\ e \in C!Items /\ merged' \in Seq(C!Items)
        /\ Members(merged) = Members(merged') \cup {e} /\ Distinct(merged')
        /\ e \notin Members(merged')
    BY <1>1, <2>1, ReceiveOne DEF OnePlace
  <2> HIDE DEF e
  <2>3. e \notin Members(collected) /\ e \notin Members(source) /\ e \notin Carried
    BY <1>1, <2>2 DEF OnePlace
  <2>4. /\ collected' \in Seq(C!Items) /\ Members(collected') = Members(collected) \cup {e}
        /\ Distinct(collected')
    BY <1>1, <2>1, <2>2, <2>3, SendOne DEF OnePlace
  <2>5. Carried' = Carried
    BY <2>1 DEF Carried
  <2>6. StagesTyped'
    BY <1>1, <2>1, <2>2, <2>4 DEF StagesTyped
  <2>7. Produced'
    BY <1>1, <2>1, <2>2, <2>4, <2>5 DEF Produced, Everywhere
  <2>8. OnePlace'
    BY <1>1, <2>1, <2>2, <2>3, <2>4, <2>5 DEF OnePlace
  <2>9. Ends'
    BY <1>1, <2>1 DEF Ends, C!AllEnded, C!Drained
  <2> QED BY <2>6, <2>7, <2>8, <2>9 DEF StagesInv
<1>11. CASE C!ReaderReturns
  <2>1. /\ mergedClosed /\ merged = <<>> /\ reader' = IF stopped THEN "cancelled" ELSE "complete"
        /\ UNCHANGED <<shape, next, source, sourceClosed, worker, forwarder, merged, mergedClosed,
                       stopped, collected>>
    BY <1>11 DEF C!ReaderReturns
  <2>2. Carried' = Carried /\ Carried = {}
    BY <1>1, <2>1 DEF Carried, Ends, C!AllEnded
  <2>3. StagesTyped' /\ OnePlace' /\ Produced'
    BY <1>1, <1>2, <2>1, <2>2 DEF StagesTyped, OnePlace
  <2>4. ~stopped => Members(collected) = C!Items
    <3> SUFFICES ASSUME ~stopped PROVE Members(collected) = C!Items
      OBVIOUS
    <3>1. PICK w \in Worker : TRUE
      BY DEF C!StageParameters
    <3>2. source = <<>> /\ next = Count + 1
      BY <1>1, <2>1, <3>1 DEF Ends, C!AllEnded, C!Drained
    <3>3. Everywhere = 1..(next - 1)
      BY <1>1 DEF Produced
    <3>4. 1..(next - 1) = C!Items
      BY <1>1, <3>2 DEF C!Items
    <3> QED BY <2>1, <2>2, <3>2, <3>3, <3>4, NothingInside DEF Everywhere
  <2>5. Ends'
    BY <1>1, <2>1, <2>4 DEF Ends, C!AllEnded, C!Drained
  <2> QED BY <2>3, <2>5 DEF StagesInv
<1>12. CASE C!Cancel
  <2>1. /\ stopped' = TRUE
        /\ UNCHANGED <<shape, next, source, sourceClosed, worker, forwarder, merged, mergedClosed,
                       collected, reader>>
    BY <1>12 DEF C!Cancel
  <2>2. Carried' = Carried
    BY <2>1 DEF Carried
  <2>3. StagesTyped' /\ OnePlace' /\ Produced'
    BY <1>1, <2>1, <2>2 DEF StagesTyped, OnePlace, Produced, Everywhere
  <2>4. Ends'
    BY <1>1, <2>1 DEF Ends, C!AllEnded, C!Drained
  <2> QED BY <2>3, <2>4 DEF StagesInv
<1>13. CASE UNCHANGED stageVars
  <2>1. UNCHANGED <<shape, next, source, sourceClosed, worker, forwarder, merged, mergedClosed,
                    stopped, collected, reader>>
    BY <1>13 DEF stageVars
  <2>2. Carried' = Carried
    BY <2>1 DEF Carried
  <2> QED BY <1>1, <1>2, <2>1, <2>2 DEF StagesInv, StagesTyped, OnePlace, Ends, C!AllEnded, C!Drained
<1> QED
  BY <1>3, <1>4, <1>5, <1>6, <1>7, <1>8, <1>9, <1>10, <1>11, <1>12, <1>13
     DEF C!Next, C!WorkerStep, C!ReaderStep

LEMMA StagesImplies ==
  ASSUME C!StageParameters, StagesInv
  PROVE  C!StagesSound
<1>1. /\ StagesTyped /\ OnePlace /\ Produced /\ Ends
      /\ Nothing \notin C!Items /\ Ended \notin C!Items
  BY DEF StagesInv, C!StageParameters, C!Items
<1>2. C!Around = Everywhere
  BY MembersAre DEF C!Around, Everywhere, Carried
<1>3. C!ToSet(collected) = Members(collected)
  BY MembersAre
<1>4. \A i, j \in 1..Len(collected) : collected[i] = collected[j] => i = j
  BY <1>1 DEF OnePlace, Distinct
<1>5. mergedClosed => \A w \in Worker : worker[w] \notin C!Items /\ forwarder[w] \notin C!Items
  BY <1>1 DEF Ends, C!AllEnded
<1> QED BY <1>1, <1>2, <1>3, <1>4, <1>5 DEF C!StagesSound, Produced, Ends

\* The flags of the stages.
StagesFlags ==
  /\ shape \in {"fan", "pipeline"} /\ reader \in {"reading", "complete", "cancelled"}
  /\ sourceClosed \in BOOLEAN /\ mergedClosed \in BOOLEAN /\ stopped \in BOOLEAN

\* Each only goes up.
LEMMA StagesFlagsStep ==
  ASSUME StagesFlags, [C!Next]_stageVars
  PROVE  StagesFlags'
<1>1. shape' = shape
  BY DEF C!Next, C!Generate, C!CloseMerged, C!ReaderStep, C!Collect, C!ReaderReturns, C!Deliver,
         C!Cancel, C!WorkerStep, C!Take, C!Offer, C!WorkerEnds, C!ForwarderEnds, stageVars
<1>2. reader' = reader \/ reader' \in {"complete", "cancelled"}
  BY DEF C!Next, C!Generate, C!CloseMerged, C!ReaderStep, C!Collect, C!ReaderReturns, C!Deliver,
         C!Cancel, C!WorkerStep, C!Take, C!Offer, C!WorkerEnds, C!ForwarderEnds, stageVars
<1>3. sourceClosed' = sourceClosed \/ sourceClosed' = TRUE
  BY DEF C!Next, C!Generate, C!CloseMerged, C!ReaderStep, C!Collect, C!ReaderReturns, C!Deliver,
         C!Cancel, C!WorkerStep, C!Take, C!Offer, C!WorkerEnds, C!ForwarderEnds, stageVars
<1>4. mergedClosed' = mergedClosed \/ mergedClosed' = TRUE
  BY DEF C!Next, C!Generate, C!CloseMerged, C!ReaderStep, C!Collect, C!ReaderReturns, C!Deliver,
         C!Cancel, C!WorkerStep, C!Take, C!Offer, C!WorkerEnds, C!ForwarderEnds, stageVars
<1>5. stopped' = stopped \/ stopped' = TRUE
  BY DEF C!Next, C!Generate, C!CloseMerged, C!ReaderStep, C!Collect, C!ReaderReturns, C!Deliver,
         C!Cancel, C!WorkerStep, C!Take, C!Offer, C!WorkerEnds, C!ForwarderEnds, stageVars
<1> QED BY <1>1, <1>2, <1>3, <1>4, <1>5 DEF StagesFlags

\* Both make the types.
LEMMA StagesTypes ==
  ASSUME StagesInv, StagesFlags
  PROVE  C!TypeOK
BY DEF StagesInv, StagesTyped, StagesFlags, C!TypeOK

\* Generate, the workers, FanIn and the reader: no item is duplicated, none is lost unless
\* the context ends, and a complete answer is complete.
THEOREM StagesSoundHolds ==
  ASSUME C!StageParameters
  PROVE  C!Spec => []C!StagesSound
<1>1. C!Init => StagesInv
  BY StagesInit
<1>2. StagesInv /\ [C!Next]_(C!vars) => StagesInv'
  BY StagesStep DEF C!vars, stageVars
<1>3. StagesInv => C!StagesSound
  BY StagesImplies
<1> QED BY <1>1, <1>2, <1>3, PTL DEF C!Spec

-----------------------------------------------------------------------------
(* The worker pool. *)

PoolTyped ==
  /\ taskQueue \in Seq(Task) /\ Len(taskQueue) <= QueueCapacity
  /\ results \in Seq(Task) /\ Len(results) <= QueueCapacity
  /\ wpc \in [Worker -> {"select", "running", "sending", "returned"}]
  /\ wtask \in [Worker -> SUBSET Task]
  /\ use \in Uses /\ {queueClosed, resultsClosed, cancelled} \subseteq BOOLEAN
  /\ submitting \subseteq Task /\ received \subseteq Task
  /\ shutdown \in {"no", "waiting", "returned"}
  /\ panicked \in {"none", "submitter", "worker"}

\* What the workers hold.
InHands == UNION {wtask[w] : w \in Worker}

\* An accepted task is in one place.
OneOwner ==
  /\ Distinct(taskQueue) /\ Distinct(results)
  /\ Members(taskQueue) \cap Members(results) = {} /\ Members(taskQueue) \cap received = {}
  /\ Members(results) \cap received = {}
  /\ (Members(taskQueue) \cup Members(results) \cup received) \cap InHands = {}
  /\ \A v, w \in Worker : v # w => wtask[v] \cap wtask[w] = {}
  /\ \A w \in Worker : wpc[w] = "select" => wtask[w] = {}
  /\ \A w \in Worker : wpc[w] \in {"running", "sending"} => \E t \in Task : wtask[w] = {t}

Placed ==
  /\ accepted = Members(taskQueue) \cup Members(results) \cup received \cup InHands
  /\ IsFiniteSet(accepted)

\* Results is closed only when all workers have returned.
Closing ==
  /\ resultsClosed => \A w \in Worker : wpc[w] = "returned"
  /\ panicked # "worker"

PoolInv == PoolTyped /\ OneOwner /\ Placed /\ Closing

LEMMA PoolInit ==
  ASSUME P!PoolParameters, P!Init
  PROVE  PoolInv
<1>1. /\ use \in Uses /\ taskQueue = <<>> /\ queueClosed = FALSE /\ results = <<>>
      /\ resultsClosed = FALSE /\ cancelled = FALSE /\ submitting = {} /\ accepted = {}
      /\ wpc = [w \in Worker |-> "select"] /\ wtask = [w \in Worker |-> {}]
      /\ shutdown = "no" /\ received = {} /\ panicked = "none"
      /\ QueueCapacity \in Nat \ {0}
  BY DEF P!Init, P!PoolParameters
<1>2. Len(taskQueue) = 0 /\ Len(results) = 0
  BY <1>1
<1>3. PoolTyped
  <2>1. /\ taskQueue \in Seq(Task) /\ Len(taskQueue) <= QueueCapacity
        /\ results \in Seq(Task) /\ Len(results) <= QueueCapacity
    BY <1>1, <1>2, EmptySeq
  <2>2. /\ wpc \in [Worker -> {"select", "running", "sending", "returned"}]
        /\ wtask \in [Worker -> SUBSET Task]
        /\ {queueClosed, resultsClosed, cancelled} \subseteq BOOLEAN
    BY <1>1
  <2> QED BY <1>1, <2>1, <2>2 DEF PoolTyped
<1>4. InHands = {}
  BY <1>1 DEF InHands
<1>5. OneOwner /\ Placed
  BY <1>1, <1>4, NothingInside, FS_EmptySet DEF OneOwner, Placed
<1>6. Closing
  BY <1>1 DEF Closing
<1> QED BY <1>3, <1>5, <1>6 DEF PoolInv

\* What one worker takes or gives up, the workers take or give up.
LEMMA HandsChange ==
  ASSUME NEW w \in Worker, NEW took, wtask \in [Worker -> SUBSET Task],
         wtask' = [wtask EXCEPT ![w] = took]
  PROVE  /\ InHands' \subseteq InHands \cup took
         /\ took \subseteq InHands'
         /\ wtask[w] = {} => InHands' = InHands \cup took
         /\ took = {} /\ (\A v \in Worker : v # w => wtask[v] \cap wtask[w] = {}) =>
              InHands' = InHands \ wtask[w]
<1>1. \A v \in Worker : wtask'[v] = IF v = w THEN took ELSE wtask[v]
  OBVIOUS
<1>2. \A x : x \in InHands' <=> \E v \in Worker : x \in wtask'[v]
  BY DEF InHands
<1>3. \A x : x \in InHands <=> \E v \in Worker : x \in wtask[v]
  BY DEF InHands
<1> QED BY <1>1, <1>2, <1>3

\* Each step keeps this.
LEMMA PoolStep ==
  ASSUME P!PoolParameters, PoolInv, [P!Next]_poolVars
  PROVE  PoolInv'
<1> USE DEF P!queue, P!out, P!users, P!workers
<1>1. /\ PoolTyped /\ OneOwner /\ Placed /\ Closing
      /\ taskQueue \in Seq(Task) /\ results \in Seq(Task)
      /\ wpc \in [Worker -> {"select", "running", "sending", "returned"}]
      /\ wtask \in [Worker -> SUBSET Task]
      /\ Len(taskQueue) \in Nat /\ Len(results) \in Nat /\ QueueCapacity \in Nat \ {0}
  BY LenProperties DEF PoolInv, PoolTyped, P!PoolParameters
<1>2. ASSUME UNCHANGED <<taskQueue, results, wpc, wtask, use, received, accepted>>,
             {queueClosed', resultsClosed', cancelled'} \subseteq BOOLEAN,
             submitting' \subseteq Task,
             shutdown' \in {"no", "waiting", "returned"},
             panicked' \in {"none", "submitter"},
             resultsClosed' => \A w \in Worker : wpc[w] = "returned"
      PROVE  PoolInv'
  <2>1. InHands' = InHands
    BY <1>2 DEF InHands
  <2> QED BY <1>1, <1>2, <2>1 DEF PoolInv, PoolTyped, OneOwner, Placed, Closing
<1>3. ASSUME NEW t \in Task, P!SubmitCall(t) PROVE PoolInv'
  <2>1. /\ submitting' = submitting \cup {t}
        /\ UNCHANGED <<use, taskQueue, queueClosed, results, resultsClosed, cancelled, accepted,
                       wpc, wtask, shutdown, received, panicked>>
    BY <1>3 DEF P!SubmitCall
  <2> QED BY <1>1, <1>2, <2>1 DEF PoolTyped, Closing
<1>4. ASSUME NEW t \in Task, P!SubmitCancelled(t) PROVE PoolInv'
  <2>1. /\ submitting' = submitting \ {t}
        /\ UNCHANGED <<use, taskQueue, queueClosed, results, resultsClosed, cancelled, accepted,
                       wpc, wtask, shutdown, received, panicked>>
    BY <1>4 DEF P!SubmitCancelled
  <2> QED BY <1>1, <1>2, <2>1 DEF PoolTyped, Closing
<1>5. ASSUME NEW t \in Task, P!SubmitSend(t) PROVE PoolInv'
  <2>1. /\ t \notin accepted
        /\ UNCHANGED <<use, queueClosed, results, resultsClosed, cancelled, submitting, wpc, wtask,
                       shutdown, received>>
    BY <1>5 DEF P!SubmitSend, P!Pending
  <2>2. \/ panicked' = "submitter" /\ taskQueue' = taskQueue /\ accepted' = accepted
        \/ /\ Len(taskQueue) < QueueCapacity
           /\ taskQueue' = Append(taskQueue, t) /\ accepted' = accepted \cup {t}
           /\ panicked' = panicked
    BY <1>5 DEF P!SubmitSend, P!HasRoom
  <2>3. CASE panicked' = "submitter" /\ taskQueue' = taskQueue /\ accepted' = accepted
    BY <1>1, <1>2, <2>1, <2>3 DEF PoolTyped, Closing
  <2>4. CASE /\ Len(taskQueue) < QueueCapacity
             /\ taskQueue' = Append(taskQueue, t) /\ accepted' = accepted \cup {t}
             /\ panicked' = panicked
    <3>1. /\ t \notin Members(taskQueue) /\ t \notin Members(results) /\ t \notin received
          /\ t \notin InHands
      BY <1>1, <2>1 DEF Placed
    <3>2. /\ taskQueue' \in Seq(Task) /\ Len(taskQueue') = Len(taskQueue) + 1
          /\ Members(taskQueue') = Members(taskQueue) \cup {t} /\ Distinct(taskQueue')
      BY <1>1, <2>4, <3>1, SendOne DEF OneOwner
    <3>3. InHands' = InHands
      BY <2>1 DEF InHands
    <3>4. Len(taskQueue') <= QueueCapacity
      BY <1>1, <2>4, <3>2
    <3>5. PoolTyped'
      BY <1>1, <2>1, <2>4, <3>2, <3>4 DEF PoolTyped
    <3>6. OneOwner'
      BY <1>1, <2>1, <3>1, <3>2, <3>3 DEF OneOwner
    <3>7. IsFiniteSet(accepted')
      BY <1>1, <2>4, FS_AddElement DEF Placed
    <3>8. Placed' /\ Closing'
      BY <1>1, <2>1, <2>4, <3>2, <3>3, <3>7 DEF Placed, Closing
    <3> QED BY <3>5, <3>6, <3>8 DEF PoolInv
  <2> QED BY <2>2, <2>3, <2>4
<1>6. ASSUME NEW w \in Worker, P!WorkerTake(w) PROVE PoolInv'
  <2> DEFINE t == Head(taskQueue)
  <2>1. /\ wpc[w] = "select" /\ taskQueue # <<>> /\ wtask' = [wtask EXCEPT ![w] = {t}]
        /\ taskQueue' = Tail(taskQueue) /\ wpc' = [wpc EXCEPT ![w] = "running"]
        /\ UNCHANGED <<use, results, resultsClosed, submitting, accepted, received, queueClosed,
                       cancelled, shutdown, panicked>>
    BY <1>6 DEF P!WorkerTake, P!Received
  <2>2. /\ t \in Task /\ taskQueue' \in Seq(Task) /\ Len(taskQueue') = Len(taskQueue) - 1
        /\ Members(taskQueue) = Members(taskQueue') \cup {t} /\ Distinct(taskQueue')
        /\ t \notin Members(taskQueue')
    BY <1>1, <2>1, ReceiveOne DEF OneOwner
  <2> HIDE DEF t
  <2>3. wtask[w] = {}
    BY <1>1, <2>1 DEF OneOwner
  <2>4. InHands' = InHands \cup {t}
    BY <1>1, <2>1, <2>3, HandsChange
  <2>5. /\ \A v \in Worker : wtask'[v] = IF v = w THEN {t} ELSE wtask[v]
        /\ \A v \in Worker : wpc'[v] = IF v = w THEN "running" ELSE wpc[v]
        /\ wtask' \in [Worker -> SUBSET Task]
        /\ wpc' \in [Worker -> {"select", "running", "sending", "returned"}]
    BY <1>1, <2>1, <2>2
  <2>6. t \notin InHands /\ t \notin Members(results) /\ t \notin received
        /\ \A v \in Worker : t \notin wtask[v]
    BY <1>1, <2>2 DEF OneOwner, InHands
  <2>7. Len(taskQueue') <= QueueCapacity
    BY <1>1, <2>2 DEF PoolTyped
  <2>8. PoolTyped'
    BY <1>1, <2>1, <2>2, <2>5, <2>7 DEF PoolTyped
  <2>9. OneOwner'
    <3>1. /\ Members(taskQueue') \cap Members(results) = {} /\ Members(taskQueue') \cap received = {}
          /\ Members(results) \cap received = {}
          /\ (Members(taskQueue') \cup Members(results) \cup received) \cap InHands' = {}
      BY <1>1, <2>2, <2>4, <2>6 DEF OneOwner
    <3>2. \A v, u \in Worker : v # u => wtask'[v] \cap wtask'[u] = {}
      BY <1>1, <2>5, <2>6 DEF OneOwner
    <3>3. /\ \A v \in Worker : wpc'[v] = "select" => wtask'[v] = {}
          /\ \A v \in Worker : wpc'[v] \in {"running", "sending"} => \E x \in Task : wtask'[v] = {x}
      <4>1. \E x \in Task : wtask'[w] = {x}
        BY <2>2, <2>5
      <4>2. \A v \in Worker : v # w => wtask'[v] = wtask[v] /\ wpc'[v] = wpc[v]
        BY <2>5
      <4>3. wpc'[w] = "running"
        BY <2>5
      <4> QED BY <1>1, <4>1, <4>2, <4>3 DEF OneOwner
    <3> QED BY <1>1, <2>1, <2>2, <3>1, <3>2, <3>3 DEF OneOwner
  <2>10. Placed'
    BY <1>1, <2>1, <2>2, <2>4 DEF Placed
  <2>11. Closing'
    BY <1>1, <2>1, <2>5 DEF Closing
  <2> QED BY <2>8, <2>9, <2>10, <2>11 DEF PoolInv
<1>7. ASSUME NEW w \in Worker, P!WorkerRun(w) \/ P!WorkerReturn(w) PROVE PoolInv'
  <2>1. /\ wpc[w] \in {"running", "select", "sending"}
        /\ \/ wpc' = [wpc EXCEPT ![w] = "sending"] /\ wpc[w] = "running"
           \/ wpc' = [wpc EXCEPT ![w] = "returned"]
        /\ UNCHANGED <<use, taskQueue, queueClosed, results, resultsClosed, submitting, accepted,
                       received, cancelled, wtask, shutdown, panicked>>
    BY <1>7 DEF P!WorkerRun, P!WorkerReturn
  <2>2. InHands' = InHands
    BY <2>1 DEF InHands
  <2>3. /\ wpc' \in [Worker -> {"select", "running", "sending", "returned"}]
        /\ \A v \in Worker : \/ wpc'[v] = wpc[v]
                             \/ v = w /\ wpc'[v] = "sending" /\ wpc[v] = "running"
                             \/ v = w /\ wpc'[v] = "returned"
    BY <1>1, <2>1
  <2>4. PoolTyped' /\ Placed'
    BY <1>1, <2>1, <2>2, <2>3 DEF PoolTyped, Placed
  <2>5. OneOwner'
    BY <1>1, <2>1, <2>2, <2>3 DEF OneOwner
  <2>6. Closing'
    BY <1>1, <2>1, <2>3 DEF Closing
  <2> QED BY <2>4, <2>5, <2>6 DEF PoolInv
<1>8. ASSUME NEW w \in Worker, P!WorkerSend(w) PROVE PoolInv'
  <2>1. /\ wpc[w] = "sending" /\ ~resultsClosed /\ Len(results) < QueueCapacity
        /\ results' = results \o <<CHOOSE t \in wtask[w] : TRUE>>
        /\ wtask' = [wtask EXCEPT ![w] = {}] /\ wpc' = [wpc EXCEPT ![w] = "select"]
        /\ UNCHANGED <<use, taskQueue, queueClosed, submitting, accepted, received, resultsClosed,
                       cancelled, shutdown, panicked>>
    BY <1>1, <1>8 DEF P!WorkerSend, P!HasRoom, Closing
  <2>2. PICK t \in Task : wtask[w] = {t}
    BY <1>1, <2>1 DEF OneOwner
  <2>3. results' = Append(results, t)
    <3>1. (CHOOSE x \in wtask[w] : TRUE) = t
      BY <2>2
    <3> QED BY <1>1, <2>1, <3>1, AppendIsConcat
  <2>4. t \in InHands /\ \A v \in Worker : v # w => t \notin wtask[v]
    BY <1>1, <2>2 DEF InHands, OneOwner
  <2>5. t \notin Members(taskQueue) /\ t \notin Members(results) /\ t \notin received
    BY <1>1, <2>4 DEF OneOwner
  <2>6. /\ results' \in Seq(Task) /\ Len(results') = Len(results) + 1
        /\ Members(results') = Members(results) \cup {t} /\ Distinct(results')
    BY <1>1, <2>3, <2>5, SendOne DEF OneOwner
  <2>7. InHands' = InHands \ {t}
    <3>1. \A v \in Worker : v # w => wtask[v] \cap wtask[w] = {}
      BY <1>1 DEF OneOwner
    <3> QED BY <1>1, <2>1, <2>2, <3>1, HandsChange
  <2>8. /\ \A v \in Worker : wtask'[v] = IF v = w THEN {} ELSE wtask[v]
        /\ \A v \in Worker : wpc'[v] = IF v = w THEN "select" ELSE wpc[v]
        /\ wtask' \in [Worker -> SUBSET Task]
        /\ wpc' \in [Worker -> {"select", "running", "sending", "returned"}]
    BY <1>1, <2>1
  <2>9. Len(results') <= QueueCapacity
    BY <1>1, <2>1, <2>6
  <2>10. PoolTyped'
    BY <1>1, <2>1, <2>6, <2>8, <2>9 DEF PoolTyped
  <2>11. OneOwner'
    <3>1. /\ Members(taskQueue) \cap Members(results') = {} /\ Members(taskQueue) \cap received = {}
          /\ Members(results') \cap received = {}
          /\ (Members(taskQueue) \cup Members(results') \cup received) \cap InHands' = {}
      BY <1>1, <2>5, <2>6, <2>7 DEF OneOwner
    <3>2. \A v, u \in Worker : v # u => wtask'[v] \cap wtask'[u] = {}
      BY <1>1, <2>8 DEF OneOwner
    <3>3. \A v \in Worker : wpc'[v] = "select" => wtask'[v] = {}
      <4> SUFFICES ASSUME NEW v \in Worker, wpc'[v] = "select" PROVE wtask'[v] = {}
        OBVIOUS
      <4>1. CASE v = w
        BY <2>8, <4>1
      <4>2. CASE v # w
        <5>1. wtask'[v] = wtask[v] /\ wpc[v] = "select"
          BY <2>8, <4>2
        <5>2. wpc[v] = "select" => wtask[v] = {}
          BY <1>1 DEF OneOwner
        <5> QED BY <5>1, <5>2
      <4> QED BY <4>1, <4>2
    <3>4. \A v \in Worker : wpc'[v] \in {"running", "sending"} => \E x \in Task : wtask'[v] = {x}
      <4> SUFFICES ASSUME NEW v \in Worker, wpc'[v] \in {"running", "sending"}
                   PROVE  \E x \in Task : wtask'[v] = {x}
        OBVIOUS
      <4>1. v # w /\ wtask'[v] = wtask[v] /\ wpc'[v] = wpc[v]
        BY <2>8
      <4>2. wpc[v] \in {"running", "sending"} => \E x \in Task : wtask[v] = {x}
        BY <1>1 DEF OneOwner
      <4> QED BY <4>1, <4>2
    <3> QED BY <1>1, <2>1, <2>6, <3>1, <3>2, <3>3, <3>4 DEF OneOwner
  <2>12. Placed'
    BY <1>1, <2>1, <2>4, <2>6, <2>7 DEF Placed
  <2>13. Closing'
    BY <1>1, <2>1 DEF Closing
  <2> QED BY <2>10, <2>11, <2>12, <2>13 DEF PoolInv
<1>9. CASE P!ShutdownCall \/ P!ParentCancel
  <2>1. /\ UNCHANGED <<use, taskQueue, results, resultsClosed, submitting, accepted, received, wpc,
                       wtask, panicked>>
        /\ {queueClosed', cancelled'} \subseteq BOOLEAN
        /\ shutdown' \in {"no", "waiting", "returned"}
    BY <1>1, <1>9 DEF P!ShutdownCall, P!ParentCancel, PoolTyped
  <2> QED BY <1>1, <1>2, <2>1 DEF PoolTyped, Closing
<1>10. CASE P!ShutdownReturn
  <2>1. /\ \A w \in Worker : wpc[w] = "returned"
        /\ shutdown' = "returned" /\ resultsClosed' = TRUE /\ cancelled' = TRUE
        /\ UNCHANGED <<use, taskQueue, queueClosed, submitting, accepted, received, wpc, wtask,
                       results, panicked>>
    BY <1>10 DEF P!ShutdownReturn, P!WaitOver
  <2> QED BY <1>1, <1>2, <2>1 DEF PoolTyped, Closing
<1>11. CASE P!Read
  <2> DEFINE t == Head(results)
  <2>1. /\ results # <<>> /\ received' = received \cup {t} /\ results' = Tail(results)
        /\ UNCHANGED <<use, taskQueue, queueClosed, wpc, wtask, resultsClosed, cancelled, submitting,
                       accepted, shutdown, panicked>>
    BY <1>11 DEF P!Read, P!Received
  <2>2. /\ t \in Task /\ results' \in Seq(Task) /\ Len(results') = Len(results) - 1
        /\ Members(results) = Members(results') \cup {t} /\ Distinct(results')
        /\ t \notin Members(results')
    BY <1>1, <2>1, ReceiveOne DEF OneOwner
  <2> HIDE DEF t
  <2>3. InHands' = InHands
    BY <2>1 DEF InHands
  <2>4. t \notin Members(taskQueue) /\ t \notin received /\ t \notin InHands
    BY <1>1, <2>2 DEF OneOwner
  <2>5. Len(results') <= QueueCapacity
    BY <1>1, <2>2 DEF PoolTyped
  <2>6. PoolTyped'
    BY <1>1, <2>1, <2>2, <2>5 DEF PoolTyped
  <2>7. OneOwner'
    BY <1>1, <2>1, <2>2, <2>3, <2>4 DEF OneOwner
  <2>8. Placed' /\ Closing'
    BY <1>1, <2>1, <2>2, <2>3 DEF Placed, Closing
  <2> QED BY <2>6, <2>7, <2>8 DEF PoolInv
<1>12. CASE UNCHANGED poolVars
  <2>1. UNCHANGED <<use, taskQueue, queueClosed, results, resultsClosed, cancelled, submitting,
                    accepted, wpc, wtask, shutdown, received, panicked>>
    BY <1>12 DEF poolVars
  <2> QED BY <1>1, <1>2, <2>1 DEF PoolTyped, Closing
<1> QED
  BY <1>3, <1>4, <1>5, <1>6, <1>7, <1>8, <1>9, <1>10, <1>11, <1>12 DEF P!Next, P!WorkerStep

\* Places that have nothing in common are counted one by one.
LEMMA TwoCounts ==
  ASSUME NEW A, NEW B, IsFiniteSet(A), IsFiniteSet(B), A \cap B = {}
  PROVE  IsFiniteSet(A \cup B) /\ Cardinality(A \cup B) = Cardinality(A) + Cardinality(B)
<1>1. Cardinality(A \cap B) = 0
  BY FS_EmptySet
<1>2. Cardinality(A) \in Nat /\ Cardinality(B) \in Nat
  BY FS_CardinalityType
<1>3. Cardinality(A \cup B) = Cardinality(A) + Cardinality(B) - Cardinality(A \cap B)
  BY FS_Union
<1>4. IsFiniteSet(A \cup B)
  BY FS_Union
<1>5. Cardinality(A \cup B) = Cardinality(A) + Cardinality(B)
  BY <1>1, <1>2, <1>3
<1> QED BY <1>4, <1>5

LEMMA FourCounts ==
  ASSUME NEW A, NEW B, NEW D, NEW E, IsFiniteSet(A), IsFiniteSet(B), IsFiniteSet(D),
         IsFiniteSet(E), A \cap B = {}, A \cap D = {}, B \cap D = {}, (A \cup B \cup D) \cap E = {}
  PROVE  Cardinality(A \cup B \cup D \cup E)
           = Cardinality(A) + Cardinality(B) + Cardinality(D) + Cardinality(E)
<1>1. IsFiniteSet(A \cup B) /\ Cardinality(A \cup B) = Cardinality(A) + Cardinality(B)
  BY TwoCounts
<1>2. (A \cup B) \cap D = {}
  OBVIOUS
<1>3. /\ IsFiniteSet(A \cup B \cup D)
      /\ Cardinality(A \cup B \cup D) = Cardinality(A \cup B) + Cardinality(D)
  BY <1>1, <1>2, TwoCounts
<1>4. Cardinality(A \cup B \cup D \cup E) = Cardinality(A \cup B \cup D) + Cardinality(E)
  BY <1>3, TwoCounts
<1> QED BY <1>1, <1>3, <1>4

LEMMA PoolImplies ==
  ASSUME PoolInv
  PROVE  P!TypeOK /\ P!EachTaskOnce /\ P!WorkersNeverPanic
<1>1. PoolTyped /\ OneOwner /\ Placed /\ Closing
  BY DEF PoolInv
<1>2. /\ Members(taskQueue) \subseteq Task /\ Members(results) \subseteq Task
      /\ InHands \subseteq Task
  BY <1>1, MembersTyped DEF PoolTyped, InHands
<1>3. P!TypeOK
  BY <1>1, <1>2 DEF PoolTyped, Placed, P!TypeOK
<1>4. P!InWorkers = InHands /\ P!Range(taskQueue) = Members(taskQueue)
      /\ P!Range(results) = Members(results)
  BY MembersAre DEF P!InWorkers, InHands
<1>5. P!Held = accepted
  BY <1>1, <1>4 DEF P!Held, Placed
<1>6. /\ IsFiniteSet(Members(taskQueue)) /\ Cardinality(Members(taskQueue)) = Len(taskQueue)
      /\ IsFiniteSet(Members(results)) /\ Cardinality(Members(results)) = Len(results)
  BY <1>1, MembersCounted DEF PoolTyped, OneOwner
<1>7. IsFiniteSet(received) /\ IsFiniteSet(InHands)
  BY <1>1, FS_Subset DEF Placed
<1>8. /\ Cardinality(received) \in Nat /\ Cardinality(InHands) \in Nat
      /\ Len(taskQueue) \in Nat /\ Len(results) \in Nat
  BY <1>1, <1>7, FS_CardinalityType, LenProperties DEF PoolTyped
<1>9. Cardinality(accepted)
        = Len(taskQueue) + Len(results) + Cardinality(received) + Cardinality(InHands)
  <2>1. accepted = Members(taskQueue) \cup Members(results) \cup received \cup InHands
    BY <1>1 DEF Placed
  <2>2. /\ Members(taskQueue) \cap Members(results) = {} /\ Members(taskQueue) \cap received = {}
        /\ Members(results) \cap received = {}
        /\ (Members(taskQueue) \cup Members(results) \cup received) \cap InHands = {}
    BY <1>1 DEF OneOwner
  <2> DEFINE A == Members(taskQueue)
             B == Members(results)
  <2> HIDE DEF A, B
  <2>3. /\ IsFiniteSet(A) /\ IsFiniteSet(B) /\ A \cap B = {} /\ A \cap received = {}
        /\ B \cap received = {} /\ (A \cup B \cup received) \cap InHands = {}
    BY <1>6, <2>2 DEF A, B
  <2>4. Cardinality(A \cup B \cup received \cup InHands)
          = Cardinality(A) + Cardinality(B) + Cardinality(received) + Cardinality(InHands)
    BY <1>7, <2>3, FourCounts
  <2> QED BY <1>6, <2>1, <2>4 DEF A, B
<1>10. \A S : P!Cardinality(S) = Cardinality(S)
  BY DEF P!Cardinality, Cardinality
<1>11. Len(taskQueue) + Len(results) + P!Cardinality(P!InWorkers) + P!Cardinality(received)
         = P!Cardinality(accepted)
  BY <1>4, <1>8, <1>9, <1>10
<1> QED BY <1>1, <1>3, <1>5, <1>11 DEF P!EachTaskOnce, P!WorkersNeverPanic, Closing

\* Submit, the workers, Shutdown and the reader: an accepted task is in one place, and no
\* worker sends on the closed channel.
THEOREM PoolSound ==
  ASSUME P!PoolParameters
  PROVE  P!Spec => [](P!TypeOK /\ P!EachTaskOnce /\ P!WorkersNeverPanic)
<1>1. P!Init => PoolInv
  BY PoolInit
<1>2. PoolInv /\ [P!Next]_(P!vars) => PoolInv'
  BY PoolStep DEF P!vars, P!queue, P!out, P!users, P!workers, poolVars
<1>3. PoolInv => P!TypeOK /\ P!EachTaskOnce /\ P!WorkersNeverPanic
  BY PoolImplies
<1> QED BY <1>1, <1>2, <1>3, PTL DEF P!Spec

-----------------------------------------------------------------------------
(* The termination. *)

\* A set that has 0 and the successors of its members has every natural number.
LEMMA Induction ==
  ASSUME NEW Good, 0 \in Good, \A n \in Nat : n \in Good => n + 1 \in Good
  PROVE  Nat \subseteq Good
<1> SUFFICES ASSUME Nat \ Good # {} PROVE FALSE
  OBVIOUS
<1> DEFINE Less == {ss \in Nat \X Nat : ss[1] < ss[2]}
<1>1. IsWellFoundedOn(Less, Nat)
  BY ONLY NatLessThanWellFounded DEF OpToRel
<1> HIDE DEF Less
<1>2. PICK n \in Nat \ Good : \A m \in Nat \ Good : <<m, n>> \notin Less
  BY <1>1, WFMin
<1>3. n # 0 /\ n - 1 \in Nat /\ n = (n - 1) + 1
  BY <1>2
<1>4. <<n - 1, n>> \in Less
  BY <1>3 DEF Less
<1> QED BY <1>2, <1>3, <1>4

\* f has base at 0, and follows step from there to n.
Follows(f, n, base, step) ==
  \A i \in 0..n : f[i] = IF i = 0 THEN base ELSE step[i][f[i - 1]]

\* There is a function that does.
LEMMA Recursion ==
  ASSUME NEW m \in Nat, NEW Val, NEW base \in Val, NEW step \in [1..m -> [Val -> Val]]
  PROVE  \E f \in [0..m -> Val] : Follows(f, m, base, step)
<1> DEFINE Good == {n \in Nat : n <= m => \E f \in [0..n -> Val] : Follows(f, n, base, step)}
<1>1. 0 \in Good
  <2>1. [i \in 0..0 |-> base] \in [0..0 -> Val] /\ Follows([i \in 0..0 |-> base], 0, base, step)
    BY DEF Follows
  <2> QED BY <2>1
<1>2. ASSUME NEW n \in Nat, n \in Good PROVE n + 1 \in Good
  <2> SUFFICES ASSUME n + 1 <= m
               PROVE  \E f \in [0..(n + 1) -> Val] : Follows(f, n + 1, base, step)
    OBVIOUS
  <2>1. PICK f \in [0..n -> Val] : Follows(f, n, base, step)
    BY <1>2
  <2> DEFINE g == [i \in 0..(n + 1) |-> IF i = n + 1 THEN step[n + 1][f[n]] ELSE f[i]]
  <2>2. step[n + 1][f[n]] \in Val
    <3>1. n + 1 \in 1..m /\ f[n] \in Val
      OBVIOUS
    <3>2. step[n + 1] \in [Val -> Val]
      BY <3>1
    <3> QED BY <3>1, <3>2
  <2>3. g \in [0..(n + 1) -> Val]
    BY <2>2
  <2>4. g[n + 1] = step[n + 1][f[n]] /\ \A i \in 0..n : g[i] = f[i]
    OBVIOUS
  <2>5. Follows(g, n + 1, base, step)
    <3> HIDE DEF g
    <3> SUFFICES ASSUME NEW i \in 0..(n + 1)
                 PROVE  g[i] = IF i = 0 THEN base ELSE step[i][g[i - 1]]
      BY DEF Follows
    <3>1. CASE i = n + 1
      <4>1. i # 0 /\ i - 1 = n /\ g[n] = f[n]
        BY <2>4, <3>1
      <4> QED BY <2>4, <3>1, <4>1
    <3>2. CASE i # n + 1
      <4>1. i \in 0..n /\ (i # 0 => i - 1 \in 0..n)
        BY <3>2
      <4> QED BY <2>1, <2>4, <4>1 DEF Follows
    <3> QED BY <3>1, <3>2
  <2> QED BY <2>3, <2>5
<1>3. Nat \subseteq Good
  <2> HIDE DEF Good
  <2> QED BY <1>1, <1>2, Induction
<1> QED BY <1>3

\* g has the higher priority, or the same and was registered first.
Before(g, h) == Priority[g] > Priority[h] \/ (Priority[g] = Priority[h] /\ T!At(g) < T!At(h))

InOrder(s) == \A i, j \in 1..Len(s) : i < j => Before(s[i], s[j])

\* Every hook was registered once.
HooksKnown ==
  /\ hooks \in Seq(Hook)
  /\ \A i, j \in 1..Len(hooks) : hooks[i] = hooks[j] => i = j

\* The first n hooks in the order in which they are to run.
SortedTo(s, n) ==
  /\ s \in Seq(Hook) /\ InOrder(s)
  /\ \A i \in 1..Len(s) : \E k \in 1..n : s[i] = hooks[k]
  /\ \A k \in 1..n : \E i \in 1..Len(s) : s[i] = hooks[k]

\* What InsertAt does.
LEMMA InsertAtProperties ==
  ASSUME NEW S, NEW s \in Seq(S), NEW e \in S, NEW j \in 0..Len(s)
  PROVE  /\ T!InsertAt(s, j + 1, e) \in Seq(S)
         /\ Len(T!InsertAt(s, j + 1, e)) = Len(s) + 1
         /\ \A i \in 1..(Len(s) + 1) :
              T!InsertAt(s, j + 1, e)[i] =
                IF i <= j THEN s[i] ELSE IF i = j + 1 THEN e ELSE s[i - 1]
<1> DEFINE a == SubSeq(s, 1, j)
           b == SubSeq(s, j + 1, Len(s))
           n == Len(s)
<1>0. n \in Nat /\ j \in Nat /\ j <= n /\ (j + 1) - 1 = j
  OBVIOUS
<1>1. a \in Seq(S) /\ Len(a) = j /\ \A i \in 1..j : a[i] = s[i]
  BY <1>0, SubSeqProperties
<1>2. b \in Seq(S) /\ Len(b) = n - j /\ \A i \in 1..(n - j) : b[i] = s[j + i]
  BY <1>0, SubSeqProperties
<1>3. T!InsertAt(s, j + 1, e) = a \o <<e>> \o b
  BY <1>0 DEF T!InsertAt
<1> HIDE DEF a, b, n
<1>4. /\ a \o <<e>> \in Seq(S) /\ Len(a \o <<e>>) = j + 1
      /\ \A i \in 1..(j + 1) : (a \o <<e>>)[i] = IF i <= j THEN a[i] ELSE e
  BY <1>0, <1>1
<1> DEFINE c == a \o <<e>>
<1>5. c \in Seq(S) /\ Len(c) = j + 1 /\ \A i \in 1..(j + 1) : c[i] = IF i <= j THEN s[i] ELSE e
  BY <1>0, <1>1, <1>4
<1> HIDE DEF c
<1>6. /\ c \o b \in Seq(S) /\ Len(c \o b) = n + 1
      /\ \A i \in 1..(n + 1) : (c \o b)[i] = IF i <= j + 1 THEN c[i] ELSE b[i - (j + 1)]
  <2>1. /\ c \o b \in Seq(S) /\ Len(c \o b) = Len(c) + Len(b)
        /\ \A i \in 1..(Len(c) + Len(b)) :
             (c \o b)[i] = IF i <= Len(c) THEN c[i] ELSE b[i - Len(c)]
    BY <1>2, <1>5, ConcatProperties
  <2>2. Len(c) + Len(b) = n + 1
    BY <1>0, <1>2, <1>5
  <2> QED BY <1>5, <2>1, <2>2
<1>7. ASSUME NEW i \in 1..(n + 1)
      PROVE  (c \o b)[i] = IF i <= j THEN s[i] ELSE IF i = j + 1 THEN e ELSE s[i - 1]
  <2>1. CASE i <= j + 1
    <3>1. i \in 1..(j + 1) /\ (c \o b)[i] = c[i]
      BY <1>0, <1>6, <2>1
    <3>2. c[i] = IF i <= j THEN s[i] ELSE e
      BY <1>5, <3>1
    <3>3. ~(i <= j) => i = j + 1
      BY <1>0, <2>1
    <3> QED BY <3>1, <3>2, <3>3
  <2>2. CASE i > j + 1
    <3>1. i - (j + 1) \in 1..(n - j) /\ j + (i - (j + 1)) = i - 1
      BY <1>0, <2>2
    <3>2. (c \o b)[i] = b[i - (j + 1)]
      BY <1>0, <1>6, <2>2
    <3>3. b[i - (j + 1)] = s[i - 1]
      BY <1>2, <3>1
    <3>4. ~(i <= j) /\ i # j + 1
      BY <1>0, <2>2
    <3>5. (c \o b)[i] = s[i - 1]
      BY <3>2, <3>3, Zenon
    <3> QED BY <3>4, <3>5, Zenon
  <2>3. i <= j + 1 \/ i > j + 1
    BY <1>0
  <2> QED BY <2>1, <2>2, <2>3, Zenon
<1>8. T!InsertAt(s, j + 1, e) = c \o b
  BY <1>3 DEF c
<1>9. n = Len(s)
  BY DEF n
<1>10. /\ c \o b \in Seq(S) /\ Len(c \o b) = n + 1
       /\ \A i \in 1..(n + 1) :
            (c \o b)[i] = IF i <= j THEN s[i] ELSE IF i = j + 1 THEN e ELSE s[i - 1]
  BY <1>6, <1>7
<1> DEFINE t == T!InsertAt(s, j + 1, e)
<1> HIDE DEF c, t
<1>11. t = c \o b
  BY <1>8 DEF t
<1>12. /\ t \in Seq(S) /\ Len(t) = n + 1
       /\ \A i \in 1..(n + 1) :
            t[i] = IF i <= j THEN s[i] ELSE IF i = j + 1 THEN e ELSE s[i - 1]
  BY ONLY <1>10, <1>11
<1> QED BY <1>9, <1>12 DEF t

\* The place of a hook: behind the last that is not to run after it.
LEMMA Place ==
  ASSUME T!TerminationParameters, NEW s \in Seq(Hook), NEW h \in Hook
  PROVE  \E j \in 0..Len(s) :
           /\ T!Insert(s, h) = T!InsertAt(s, j + 1, h)
           /\ j > 0 => Priority[s[j]] >= Priority[h]
           /\ \A i \in 1..Len(s) : i > j => Priority[s[i]] < Priority[h]
<1> DEFINE kept == {i \in 1..Len(s) : Priority[s[i]] >= Priority[h]}
           j == IF kept = {} THEN 0 ELSE T!Max(kept)
<1>1. T!Insert(s, h) = T!InsertAt(s, j + 1, h)
  BY Zenon DEF T!Insert
<1>2. \A i \in 1..Len(s) : Priority[s[i]] \in Int /\ Priority[h] \in Int
  BY DEF T!TerminationParameters
<1>3. kept # {} => j \in kept /\ \A i \in kept : j >= i
  <2> SUFFICES ASSUME kept # {} PROVE \E m \in kept : \A i \in kept : m >= i
    BY DEF T!Max
  <2> DEFINE Good == {n \in Nat : n <= Len(s) /\ (\E i \in kept : i <= n) =>
                          \E m \in kept : m <= n /\ \A i \in kept : i <= n => m >= i}
  <2>1. 0 \in Good
    OBVIOUS
  <2>2. ASSUME NEW n \in Nat, n \in Good PROVE n + 1 \in Good
    <3> SUFFICES ASSUME n + 1 <= Len(s), NEW k \in kept, k <= n + 1
                 PROVE  \E m \in kept : m <= n + 1 /\ \A i \in kept : i <= n + 1 => m >= i
      OBVIOUS
    <3>1. \A i \in kept : i \in Nat
      OBVIOUS
    <3> HIDE DEF kept
    <3>2. CASE n + 1 \in kept
      BY <3>1, <3>2
    <3>3. CASE n + 1 \notin kept
      <4>1. \A i \in kept : i <= n + 1 => i <= n
        BY <3>1, <3>3
      <4>2. PICK m \in kept : m <= n /\ \A i \in kept : i <= n => m >= i
        BY <2>2, <4>1
      <4> QED BY <3>1, <4>1, <4>2
    <3> QED BY <3>2, <3>3
  <2>3. Nat \subseteq Good
    <3> HIDE DEF Good
    <3> QED BY <2>1, <2>2, Induction
  <2>4. Len(s) \in Nat /\ \A i \in kept : i <= Len(s)
    OBVIOUS
  <2>5. Len(s) \in Good
    BY <2>3, <2>4
  <2> QED BY <2>4, <2>5
<1> HIDE DEF j
<1>4. j \in 0..Len(s) /\ (j > 0 => j \in kept) /\ \A i \in kept : j >= i
  BY <1>3 DEF j
<1> QED BY <1>1, <1>2, <1>4

\* A hook's place among the registered ones is the one it was registered at.
LEMMA AtIs ==
  ASSUME HooksKnown, NEW k \in 1..Len(hooks)
  PROVE  T!At(hooks[k]) = k
BY DEF HooksKnown, T!At

\* Whoever is behind the last that is not to run after it is to run after it.
LEMMA InsertStep ==
  ASSUME T!TerminationParameters, HooksKnown, NEW n \in Nat, n < Len(hooks),
         NEW s, SortedTo(s, n)
  PROVE  SortedTo(T!Insert(s, hooks[n + 1]), n + 1)
<1> DEFINE h == hooks[n + 1]
           t == T!Insert(s, h)
<1>0. /\ s \in Seq(Hook) /\ Len(s) \in Nat /\ Len(hooks) \in Nat /\ n + 1 \in 1..Len(hooks)
      /\ \A k \in 1..n : k \in 1..Len(hooks)
  BY DEF SortedTo, HooksKnown
<1>1. h \in Hook /\ T!At(h) = n + 1
  BY <1>0, AtIs DEF HooksKnown
<1> HIDE DEF h
<1>2. \A i \in 1..Len(s) : s[i] \in Hook /\ T!At(s[i]) \in 1..n
  <2> SUFFICES ASSUME NEW i \in 1..Len(s) PROVE T!At(s[i]) \in 1..n
    BY <1>0
  <2>1. PICK k \in 1..n : s[i] = hooks[k]
    BY DEF SortedTo
  <2> QED BY <1>0, <2>1, AtIs
<1>3. Priority \in [Hook -> Int]
  BY DEF T!TerminationParameters
<1>4. PICK j \in 0..Len(s) :
        /\ t = T!InsertAt(s, j + 1, h)
        /\ j > 0 => Priority[s[j]] >= Priority[h]
        /\ \A i \in 1..Len(s) : i > j => Priority[s[i]] < Priority[h]
  BY <1>0, <1>1, Place
<1> HIDE DEF t
<1>5. /\ t \in Seq(Hook) /\ Len(t) = Len(s) + 1
      /\ \A i \in 1..(Len(s) + 1) :
           t[i] = IF i <= j THEN s[i] ELSE IF i = j + 1 THEN h ELSE s[i - 1]
  <2> DEFINE u == T!InsertAt(s, j + 1, h)
  <2>1. /\ u \in Seq(Hook) /\ Len(u) = Len(s) + 1
        /\ \A i \in 1..(Len(s) + 1) :
             u[i] = IF i <= j THEN s[i] ELSE IF i = j + 1 THEN h ELSE s[i - 1]
    BY <1>0, <1>1, InsertAtProperties
  <2> HIDE DEF u
  <2>2. t = u
    BY <1>4 DEF u
  <2> QED BY ONLY <2>1, <2>2
<1>6. \A i \in 1..j : i \in 1..Len(s) /\ i \in 1..(Len(s) + 1) /\ t[i] = s[i]
  BY <1>0, <1>5
<1>7. j + 1 \in 1..(Len(s) + 1) /\ t[j + 1] = h
  BY <1>0, <1>5
<1>8. \A i \in 1..(Len(s) + 1) : i > j + 1 => i - 1 \in 1..Len(s) /\ i - 1 > j /\ t[i] = s[i - 1]
  BY <1>0, <1>5
<1>9. ASSUME NEW i \in 1..j PROVE Before(s[i], h)
  <2>1. i \in 1..Len(s) /\ j \in 1..Len(s) /\ (i = j \/ i < j)
    BY <1>0
  <2>2. Priority[s[i]] >= Priority[s[j]]
    <3>1. i = j \/ Before(s[i], s[j])
      BY <2>1 DEF SortedTo, InOrder
    <3>2. Priority[s[i]] \in Int /\ Priority[s[j]] \in Int
      BY <1>2, <1>3, <2>1
    <3> QED BY <3>1, <3>2 DEF Before
  <2>3. Priority[s[j]] >= Priority[h]
    BY <1>0, <1>4
  <2>4. Priority[s[i]] \in Int /\ Priority[s[j]] \in Int /\ Priority[h] \in Int
    BY <1>1, <1>2, <1>3, <2>1
  <2>5. Priority[s[i]] > Priority[h] \/ Priority[s[i]] = Priority[h]
    BY <2>2, <2>3, <2>4
  <2>6. T!At(s[i]) < T!At(h)
    BY <1>1, <1>2, <2>1
  <2> QED BY <2>5, <2>6 DEF Before
<1>10. ASSUME NEW i \in 1..Len(s), i > j PROVE Before(h, s[i])
  <2>1. Priority[s[i]] \in Int /\ Priority[h] \in Int /\ Priority[s[i]] < Priority[h]
    BY <1>1, <1>2, <1>3, <1>4, <1>10
  <2> QED BY <2>1 DEF Before
<1>11. InOrder(t)
  <2> SUFFICES ASSUME NEW k \in 1..Len(t), NEW l \in 1..Len(t), k < l PROVE Before(t[k], t[l])
    BY DEF InOrder
  <2>0. k \in 1..(Len(s) + 1) /\ l \in 1..(Len(s) + 1) /\ k \in Int /\ l \in Int /\ j \in Nat
    BY <1>0, <1>5
  <2>s. \A p, q \in 1..Len(s) : p < q => Before(s[p], s[q])
    BY DEF SortedTo, InOrder
  <2>1. CASE l <= j
    <3>1. k \in 1..j /\ l \in 1..j
      BY <2>0, <2>1
    <3> QED BY <1>6, <2>s, <3>1
  <2>2. CASE k <= j /\ l = j + 1
    <3>1. k \in 1..j
      BY <2>0, <2>2
    <3> QED BY <1>6, <1>7, <1>9, <2>2, <3>1
  <2>3. CASE k <= j /\ l > j + 1
    <3>1. k \in 1..j /\ k < l - 1
      BY <2>0, <2>3
    <3>2. t[k] = s[k] /\ t[l] = s[l - 1] /\ k \in 1..Len(s) /\ l - 1 \in 1..Len(s)
      BY <1>6, <1>8, <2>0, <2>3, <3>1
    <3> QED BY <2>s, <3>1, <3>2
  <2>4. CASE k = j + 1
    <3>1. l > j + 1
      BY <2>0, <2>4
    <3> QED BY <1>7, <1>8, <1>10, <2>0, <2>4, <3>1
  <2>5. CASE k > j + 1
    <3>1. l > j + 1 /\ k - 1 < l - 1
      BY <2>0, <2>5
    <3>2. t[k] = s[k - 1] /\ t[l] = s[l - 1] /\ k - 1 \in 1..Len(s) /\ l - 1 \in 1..Len(s)
      BY <1>8, <2>0, <2>5, <3>1
    <3> QED BY <2>s, <3>1, <3>2
  <2> QED BY <2>0, <2>1, <2>2, <2>3, <2>4, <2>5
<1>12. \A i \in 1..Len(t) : \E k \in 1..(n + 1) : t[i] = hooks[k]
  <2> SUFFICES ASSUME NEW i \in 1..Len(t) PROVE \E k \in 1..(n + 1) : t[i] = hooks[k]
    OBVIOUS
  <2>0. i \in 1..(Len(s) + 1) /\ j \in Nat /\ Len(s) \in Nat
    BY <1>0, <1>5
  <2>1. CASE i = j + 1
    <3>1. t[i] = hooks[n + 1]
      BY <1>7, <2>1 DEF h
    <3> QED BY <3>1
  <2>2. CASE i # j + 1
    <3>1. PICK p \in 1..Len(s) : t[i] = s[p]
      <4>1. CASE i <= j
        BY <1>6, <2>0, <4>1
      <4>2. CASE i > j + 1
        BY <1>8, <2>0, <4>2
      <4> QED BY <2>0, <2>2, <4>1, <4>2
    <3>2. PICK k \in 1..n : s[p] = hooks[k]
      BY DEF SortedTo
    <3> QED BY <3>1, <3>2
  <2> QED BY <2>1, <2>2
<1>13. \A k \in 1..(n + 1) : \E i \in 1..Len(t) : t[i] = hooks[k]
  <2> SUFFICES ASSUME NEW k \in 1..(n + 1) PROVE \E i \in 1..Len(t) : t[i] = hooks[k]
    OBVIOUS
  <2>1. CASE k = n + 1
    BY <1>5, <1>7, <2>1 DEF h
  <2>2. CASE k # n + 1
    <3>1. k \in 1..n
      BY <2>2
    <3>2. PICK i \in 1..Len(s) : s[i] = hooks[k]
      BY <3>1 DEF SortedTo
    <3>3. CASE i <= j
      <4>1. i \in 1..j /\ i \in 1..Len(t)
        BY <1>0, <1>5, <3>3
      <4> QED BY <1>6, <3>2, <4>1
    <3>4. CASE i > j
      <4>1. i + 1 \in 1..(Len(s) + 1) /\ i + 1 > j + 1 /\ (i + 1) - 1 = i
        BY <1>0, <3>4
      <4>2. t[i + 1] = s[i]
        BY <1>8, <4>1
      <4> QED BY <1>5, <3>2, <4>1, <4>2
    <3>5. i <= j \/ i > j
      BY <1>0
    <3> QED BY <3>3, <3>4, <3>5
  <2> QED BY <2>1, <2>2
<1> QED BY <1>5, <1>11, <1>12, <1>13 DEF SortedTo, t, h

\* The sort of Shutdown: all hooks, in the order in which they are to run.
LEMMA SortedHooks ==
  ASSUME T!TerminationParameters, HooksKnown
  PROVE  SortedTo(T!Sorted, Len(hooks))
<1> DEFINE m == Len(hooks)
           step == [i \in 1..m |-> [s \in Seq(Hook) |-> T!Insert(s, hooks[i])]]
           Value(f, i) == IF i = 0 THEN <<>> ELSE T!Insert(f[i - 1], hooks[i])
           Solves(f) == f = [i \in 0..m |-> Value(f, i)]
           sorted == CHOOSE f : Solves(f)
<1>0. m \in Nat /\ \A i \in 1..m : hooks[i] \in Hook
  BY DEF HooksKnown
<1>1. step \in [1..m -> [Seq(Hook) -> Seq(Hook)]]
  <2> SUFFICES ASSUME NEW i \in 1..m, NEW s \in Seq(Hook) PROVE T!Insert(s, hooks[i]) \in Seq(Hook)
    OBVIOUS
  <2>1. PICK j \in 0..Len(s) : T!Insert(s, hooks[i]) = T!InsertAt(s, j + 1, hooks[i])
    BY <1>0, Place
  <2> QED BY <1>0, <2>1, InsertAtProperties
<1>2. PICK f \in [0..m -> Seq(Hook)] : Follows(f, m, <<>>, step)
  <2>1. <<>> \in Seq(Hook)
    OBVIOUS
  <2> HIDE DEF step, m
  <2> QED BY <1>0, <1>1, <2>1, Recursion
<1>3. Solves(f)
  <2> SUFFICES ASSUME NEW i \in 0..m PROVE f[i] = Value(f, i)
    OBVIOUS
  <2>1. i # 0 => i \in 1..m /\ i - 1 \in 0..m /\ f[i - 1] \in Seq(Hook)
    BY <1>0
  <2>2. i # 0 => step[i][f[i - 1]] = T!Insert(f[i - 1], hooks[i])
    BY <2>1
  <2>3. f[i] = IF i = 0 THEN <<>> ELSE step[i][f[i - 1]]
    BY <1>2 DEF Follows
  <2> HIDE DEF step
  <2> QED BY <2>2, <2>3
<1>4. Solves(sorted)
  <2> HIDE DEF Solves
  <2> QED BY <1>3
<1>5. T!Sorted = sorted[m]
  BY Zenon DEF T!Sorted
<1> HIDE DEF sorted
<1>6. \A i \in 0..m : sorted[i] = IF i = 0 THEN <<>> ELSE T!Insert(sorted[i - 1], hooks[i])
  BY <1>4
<1> DEFINE Good == {n \in Nat : n <= m => SortedTo(sorted[n], n)}
<1>7. 0 \in Good
  <2>1. sorted[0] = <<>>
    BY <1>0, <1>6
  <2>2. SortedTo(<<>>, 0)
    BY DEF SortedTo, InOrder
  <2> QED BY <2>1, <2>2
<1>8. ASSUME NEW n \in Nat, n \in Good PROVE n + 1 \in Good
  <2> SUFFICES ASSUME n + 1 <= m PROVE SortedTo(sorted[n + 1], n + 1)
    OBVIOUS
  <2>1. SortedTo(sorted[n], n) /\ n < m
    BY <1>0, <1>8
  <2>2. n + 1 \in 0..m /\ n + 1 # 0 /\ (n + 1) - 1 = n
    BY <1>0
  <2>3. sorted[n + 1] = T!Insert(sorted[n], hooks[n + 1])
    BY <1>6, <2>2
  <2> QED BY <2>1, <2>3, InsertStep
<1>9. Nat \subseteq Good
  <2> HIDE DEF Good
  <2> QED BY <1>7, <1>8, Induction
<1> QED BY <1>0, <1>5, <1>9


\* What TerminationOrderly says of the calls and of the signals.
OneShutdown ==
  \A c, d \in Stopper :
    c # d /\ spc[c] \notin {"idle", "refused"} => spc[d] \in {"idle", "refused"}
ForcedTwice == forceExit => signalled /\ sent >= 2

\* The signal that the loop has taken from the channel was sent, and so are those in it.
Taken == IF loop = "second" THEN 1 ELSE 0
Numbers == sigChan \in Nat /\ sent \in Nat /\ sigChan + Taken <= sent
Flags ==
  /\ signalled \in BOOLEAN /\ forceExit \in BOOLEAN
  /\ loop = "first" => forceExit = FALSE
  /\ loop = "second" => forceExit = FALSE /\ signalled = TRUE
  /\ forceExit = TRUE => signalled = TRUE
Signals == Numbers /\ Flags /\ (forceExit = TRUE => sent >= 2)

\* Only who found the manager open does not stand aside.
TerminationInv ==
  /\ spc \in [Stopper -> {"idle", "looking", "hook", "done", "timed out", "refused", "crashed"}]
  /\ isClosed \in BOOLEAN
  /\ composed = "root" => \A c \in Stopper : c # Root => spc[c] = "idle"
  /\ \A c \in Stopper : spc[c] = "crashed" => composed = "root"
  /\ ~isClosed => \A c \in Stopper : spc[c] \in {"idle", "crashed"}
  /\ OneShutdown
  /\ Signals

LEMMA TerminationStep ==
  ASSUME TerminationInv, [T!Next]_terminationVars
  PROVE  TerminationInv'
<1> USE DEF T!signalVars, T!managerVars, T!Goes
<1>1. /\ spc \in [Stopper -> {"idle", "looking", "hook", "done", "timed out", "refused", "crashed"}]
      /\ isClosed \in BOOLEAN
  BY DEF TerminationInv
<1>n. Numbers
  BY DEF TerminationInv, Signals
<1>f. Flags
  BY DEF TerminationInv, Signals
<1>s. forceExit = TRUE => sent >= 2
  BY DEF TerminationInv, Signals
<1>2. ASSUME UNCHANGED <<composed, isClosed, spc>>, Signals'
      PROVE  TerminationInv'
  BY <1>2 DEF TerminationInv, OneShutdown
<1>3. ASSUME sigChan' = sigChan, sent' = sent, loop' = loop,
             signalled' = signalled, forceExit' = forceExit
      PROVE  Signals'
  <2>1. Numbers'
    BY <1>n, <1>3 DEF Numbers, Taken
  <2>2. Flags'
    BY <1>f, <1>3 DEF Flags
  <2>3. forceExit' = TRUE => sent' >= 2
    BY <1>s, <1>3
  <2> QED BY <2>1, <2>2, <2>3 DEF Signals
<1>4. CASE T!Signal \/ T!Loop
  <2>1. UNCHANGED <<composed, isClosed, spc>>
    BY <1>4 DEF T!Signal, T!Loop, T!FirstSignal, T!SecondSignal, T!DeadlineElapses
  <2>2. CASE T!Signal
    <3>1. sent' = sent + 1 /\ (sigChan' = sigChan \/ sigChan' = sigChan + 1) /\ loop' = loop
      BY <2>2 DEF T!Signal
    <3>2. signalled' = signalled /\ forceExit' = forceExit
      BY <2>2 DEF T!Signal
    <3>3. Taken' = Taken
      BY <3>1 DEF Taken
    <3>4. Taken \in {0, 1}
      BY DEF Taken
    <3>5. Numbers'
      BY <1>n, <3>1, <3>3, <3>4 DEF Numbers
    <3>6. sent >= 2 => sent' >= 2
      BY <1>n, <3>1 DEF Numbers
    <3>7. Flags'
      BY <1>f, <3>1, <3>2 DEF Flags
    <3>8. forceExit' = TRUE => sent' >= 2
      BY <1>s, <3>2, <3>6
    <3> QED BY <1>2, <2>1, <3>5, <3>7, <3>8 DEF Signals
  <2>3. CASE T!FirstSignal
    <3>1. /\ loop = "first" /\ sigChan > 0 /\ sigChan' = sigChan - 1 /\ loop' = "second"
          /\ sent' = sent
      BY <2>3 DEF T!FirstSignal
    <3>2. signalled' = TRUE /\ forceExit' = forceExit
      BY <2>3 DEF T!FirstSignal
    <3>3. Taken = 0 /\ Taken' = 1
      BY <3>1 DEF Taken
    <3>4. Numbers'
      BY <1>n, <3>1, <3>3 DEF Numbers
    <3>5. Flags' /\ forceExit' = FALSE
      BY <1>f, <3>1, <3>2 DEF Flags
    <3> QED BY <1>2, <2>1, <3>4, <3>5 DEF Signals
  <2>4. CASE T!SecondSignal
    <3>1. /\ loop = "second" /\ sigChan > 0 /\ sigChan' = sigChan - 1 /\ loop' = "ended"
          /\ sent' = sent
      BY <2>4 DEF T!SecondSignal
    <3>2. signalled' = signalled /\ forceExit' = TRUE
      BY <2>4 DEF T!SecondSignal
    <3>3. Taken = 1 /\ Taken' = 0
      BY <3>1 DEF Taken
    <3>4. Numbers' /\ sent' >= 2
      BY <1>n, <3>1, <3>3 DEF Numbers
    <3>5. Flags'
      BY <1>f, <3>1, <3>2 DEF Flags
    <3> QED BY <1>2, <2>1, <3>4, <3>5 DEF Signals
  <2>5. CASE T!DeadlineElapses
    <3>1. loop = "second" /\ loop' = "ended" /\ sigChan' = sigChan /\ sent' = sent
      BY <2>5 DEF T!DeadlineElapses
    <3>2. signalled' = signalled /\ forceExit' = forceExit
      BY <2>5 DEF T!DeadlineElapses
    <3>3. Taken = 1 /\ Taken' = 0
      BY <3>1 DEF Taken
    <3>4. Numbers'
      BY <1>n, <3>1, <3>3 DEF Numbers
    <3>5. Flags' /\ forceExit' = FALSE
      BY <1>f, <3>1, <3>2 DEF Flags
    <3> QED BY <1>2, <2>1, <3>4, <3>5 DEF Signals
  <2> QED BY <1>4, <2>2, <2>3, <2>4, <2>5 DEF T!Loop
<1>5. ASSUME NEW c \in Stopper, T!Shutdown(c) PROVE TerminationInv'
  <2>1. /\ spc[c] = "idle" /\ (composed = "root" => c = Root)
        /\ \/ isClosed /\ spc' = [spc EXCEPT ![c] = "refused"] /\ isClosed' = isClosed
           \/ ~isClosed /\ spc' = [spc EXCEPT ![c] = "looking"] /\ isClosed' = TRUE
        /\ UNCHANGED <<composed, sigChan, loop, signalled, forceExit, sent>>
    BY <1>5 DEF T!Shutdown
  <2>2. ~isClosed => \A d \in Stopper : d # c => spc[d] = "idle"
    BY <1>1, <2>1 DEF TerminationInv
  <2>3. \A d \in Stopper : spc'[d] = IF d = c THEN (IF isClosed THEN "refused" ELSE "looking") ELSE spc[d]
    BY <1>1, <2>1
  <2>4. spc' \in [Stopper -> {"idle", "looking", "hook", "done", "timed out", "refused", "crashed"}]
    BY <1>1, <2>1
  <2>5. OneShutdown'
    BY <2>1, <2>2, <2>3 DEF TerminationInv, OneShutdown
  <2>6. /\ composed' = "root" => \A d \in Stopper : d # Root => spc'[d] = "idle"
        /\ \A d \in Stopper : spc'[d] = "crashed" => composed' = "root"
    <3>1. spc'[c] # "crashed" /\ \A d \in Stopper : d # c => spc'[d] = spc[d]
      BY <2>3
    <3>2. /\ composed = "root" => \A d \in Stopper : d # Root => spc[d] = "idle"
          /\ \A d \in Stopper : spc[d] = "crashed" => composed = "root"
      BY DEF TerminationInv
    <3>3. composed' = "root" => \A d \in Stopper : d # Root => spc'[d] = "idle"
      BY <2>1, <3>1, <3>2
    <3>4. \A d \in Stopper : spc'[d] = "crashed" => composed' = "root"
      BY <2>1, <3>1, <3>2
    <3> QED BY <3>3, <3>4
  <2>7. isClosed' = TRUE
    BY <1>1, <2>1
  <2> QED BY <1>3, <2>1, <2>4, <2>5, <2>6, <2>7 DEF TerminationInv
<1>6. CASE T!StartSeesCrash
  <2>1. /\ composed = "root" /\ spc' = [spc EXCEPT ![Root] = "crashed"]
        /\ spc[Root] = "idle"
        /\ UNCHANGED <<composed, isClosed, sigChan, loop, signalled, forceExit, sent>>
    BY <1>6 DEF T!StartSeesCrash
  <2>2. \A d \in Stopper : spc'[d] = IF d = Root THEN "crashed" ELSE spc[d]
    BY <1>1, <2>1
  <2>3. spc' \in [Stopper -> {"idle", "looking", "hook", "done", "timed out", "refused", "crashed"}]
    BY <1>1, <2>1
  <2>4. OneShutdown'
    BY <2>1, <2>2 DEF TerminationInv, OneShutdown
  <2>5. /\ composed' = "root" => \A d \in Stopper : d # Root => spc'[d] = "idle"
        /\ \A d \in Stopper : spc'[d] = "crashed" => composed' = "root"
        /\ ~isClosed' => \A d \in Stopper : spc'[d] \in {"idle", "crashed"}
    BY <2>1, <2>2 DEF TerminationInv
  <2> QED BY <1>3, <2>1, <2>3, <2>4, <2>5 DEF TerminationInv
<1>7. ASSUME NEW c \in Stopper, T!RunHook(c) \/ T!HookReturns(c) \/ T!ShutdownReturns(c)
      PROVE  TerminationInv'
  <2>1. /\ spc[c] \in {"looking", "hook"}
        /\ \E s \in {"looking", "hook", "done", "timed out"} : spc' = [spc EXCEPT ![c] = s]
        /\ UNCHANGED <<composed, isClosed, sigChan, loop, signalled, forceExit, sent>>
    BY <1>7 DEF T!RunHook, T!HookReturns, T!ShutdownReturns
  <2>2. /\ spc'[c] \in {"looking", "hook", "done", "timed out"}
        /\ \A d \in Stopper : d # c => spc'[d] = spc[d]
        /\ spc' \in [Stopper -> {"idle", "looking", "hook", "done", "timed out", "refused", "crashed"}]
    BY <1>1, <2>1
  <2>3. OneShutdown'
    BY <2>1, <2>2 DEF TerminationInv, OneShutdown
  <2>4. /\ composed' = "root" => \A d \in Stopper : d # Root => spc'[d] = "idle"
        /\ \A d \in Stopper : spc'[d] = "crashed" => composed' = "root"
        /\ ~isClosed' => \A d \in Stopper : spc'[d] \in {"idle", "crashed"}
    BY <2>1, <2>2 DEF TerminationInv
  <2> QED BY <1>3, <2>1, <2>2, <2>3, <2>4 DEF TerminationInv
<1>8. CASE T!ServerCrashes \/ T!TimeUp \/ (\E h \in Hook : T!Register(h)) \/ UNCHANGED terminationVars
  <2>1. UNCHANGED <<composed, isClosed, spc, sigChan, loop, signalled, forceExit, sent>>
    BY <1>8 DEF T!ServerCrashes, T!TimeUp, T!Register, terminationVars
  <2> QED BY <1>2, <1>3, <2>1 DEF TerminationInv
<1> QED BY <1>4, <1>5, <1>6, <1>7, <1>8 DEF T!Next

\* h is one of s.
Has(s, h) == \E i \in 1..Len(s) : s[i] = h

\* A hook runs: the first of those left.
Runs == \E c \in Stopper : spc[c] = "hook"
Begun == IF Runs THEN 1 ELSE 0

\* A hook that has begun was to run before those that have not.
HooksTyped ==
  /\ HooksKnown /\ ran \in Seq(Hook) /\ left \in Seq(Hook)
  /\ composed \in {"root", "alone"} /\ server \in {"serving", "closed", "crashed"}
  /\ timedOut \in BOOLEAN
HooksOrdered ==
  /\ InOrder(ran) /\ InOrder(left)
  /\ \A i \in 1..Len(ran), j \in 1..Len(left) : j > Begun => Before(ran[i], left[j])
HooksPlaced ==
  /\ ~isClosed => ran = <<>> /\ left = <<>>
  /\ \A h \in Hook : Has(ran, h) \/ Has(left, h) => Has(hooks, h)
  /\ isClosed => \A h \in Hook : Has(hooks, h) => Has(ran, h) \/ Has(left, h)
  /\ Runs => left # <<>> /\ ran # <<>> /\ left[1] = ran[Len(ran)]
  /\ \A c \in Stopper : spc[c] = "done" => left = <<>>
ServerDown ==
  /\ composed = "root" => hooks = <<ServerHook>>
  /\ composed = "alone" => server # "serving"
  /\ Has(ran, ServerHook) => server # "serving"
HookInv == HooksTyped /\ HooksOrdered /\ HooksPlaced /\ ServerDown

\* Nobody has registered anything but the server.
LEMMA HookInit ==
  ASSUME T!TerminationParameters, T!Init
  PROVE  HookInv
<1>1. /\ composed \in {"root", "alone"} /\ isClosed = FALSE /\ left = <<>> /\ timedOut = FALSE
      /\ ran = <<>> /\ spc = [c \in Stopper |-> "idle"]
      /\ server = IF composed = "root" THEN "serving" ELSE "closed"
      /\ hooks = IF composed = "root" THEN <<ServerHook>> ELSE <<>>
  BY DEF T!Init
<1>2. ServerHook \in Hook
  BY DEF T!TerminationParameters
<1>3. HooksTyped
  <2>1. <<ServerHook>> \in Seq(Hook) /\ Len(<<ServerHook>>) = 1 /\ <<>> \in Seq(Hook) /\ Len(<<>>) = 0
    BY <1>2
  <2>2. hooks \in Seq(Hook) /\ Len(hooks) \in {0, 1}
    BY <1>1, <2>1
  <2>3. ASSUME NEW i \in 1..Len(hooks), NEW j \in 1..Len(hooks) PROVE i = j
    <3> DEFINE n == Len(hooks)
    <3>1. n \in {0, 1} /\ i \in 1..n /\ j \in 1..n
      BY <2>2
    <3> HIDE DEF n
    <3>2. i \in Int /\ j \in Int /\ i >= 1 /\ i <= 1 /\ j >= 1 /\ j <= 1
      BY <3>1
    <3> QED BY <3>2
  <2>4. HooksKnown
    BY <2>2, <2>3 DEF HooksKnown
  <2>5. server \in {"serving", "closed", "crashed"} /\ timedOut \in BOOLEAN
    BY <1>1
  <2> QED BY <1>1, <2>1, <2>4, <2>5 DEF HooksTyped
<1>4. ~Runs
  BY <1>1 DEF Runs
<1>5. HooksOrdered
  BY <1>1 DEF HooksOrdered, InOrder
<1>6. HooksPlaced
  BY <1>1, <1>4 DEF HooksPlaced, Has
<1>7. ServerDown
  BY <1>1 DEF ServerDown, Has
<1> QED BY <1>3, <1>5, <1>6, <1>7 DEF HookInv

\* Shutdown sorts once, and hooks go from the left ones to those that ran from the front.
LEMMA HookStep ==
  ASSUME T!TerminationParameters, TerminationInv, HookInv, [T!Next]_terminationVars
  PROVE  HookInv'
<1> USE DEF T!signalVars, T!managerVars, T!Goes
<1>0. HooksTyped /\ HooksOrdered /\ HooksPlaced /\ ServerDown
  BY DEF HookInv
<1>1. /\ spc \in [Stopper -> {"idle", "looking", "hook", "done", "timed out", "refused", "crashed"}]
      /\ isClosed \in BOOLEAN
  BY DEF TerminationInv
<1>2. ASSUME UNCHANGED <<hooks, left, ran, composed, timedOut, isClosed, spc>>,
             \/ server' = server
             \/ server' \in {"closed", "crashed"}
      PROVE  HookInv'
  <2>1. HooksTyped'
    BY <1>0, <1>2 DEF HooksTyped, HooksKnown
  <2>2. Runs' = Runs
    BY <1>2 DEF Runs
  <2>3. HooksOrdered'
    <3>1. \A g, k : Before(g, k)' = Before(g, k)
      BY <1>2 DEF Before, T!At
    <3>2. Begun' = Begun
      BY <2>2 DEF Begun
    <3> QED BY <1>0, <1>2, <3>1, <3>2 DEF HooksOrdered, InOrder
  <2>4. HooksPlaced'
    BY <1>0, <1>2, <2>2 DEF HooksPlaced, Has
  <2>5. ServerDown'
    BY <1>0, <1>2 DEF ServerDown, Has
  <2> QED BY <2>1, <2>3, <2>4, <2>5 DEF HookInv
<1>3. CASE T!Signal \/ T!Loop \/ T!ServerCrashes \/ UNCHANGED terminationVars
  <2>1. UNCHANGED <<hooks, left, ran, composed, timedOut, isClosed, spc>>
    BY <1>3 DEF T!Signal, T!Loop, T!FirstSignal, T!SecondSignal, T!DeadlineElapses,
                T!ServerCrashes, terminationVars
  <2>2. server' = server \/ server' \in {"closed", "crashed"}
    BY <1>3 DEF T!Signal, T!Loop, T!FirstSignal, T!SecondSignal, T!DeadlineElapses,
                T!ServerCrashes, terminationVars
  <2> QED BY <1>2, <2>1, <2>2
<1>4. ASSUME UNCHANGED <<hooks, left, ran, composed, isClosed, server>>,
             timedOut' \in BOOLEAN, Runs' = Runs,
             \A c \in Stopper : spc'[c] = "done" => left = <<>>
      PROVE  HookInv'
  <2>1. HooksTyped'
    BY <1>0, <1>4 DEF HooksTyped, HooksKnown
  <2>2. HooksOrdered'
    <3>1. \A g, k : Before(g, k)' = Before(g, k)
      BY <1>4 DEF Before, T!At
    <3>2. Begun' = Begun
      BY <1>4 DEF Begun
    <3> QED BY <1>0, <1>4, <3>1, <3>2 DEF HooksOrdered, InOrder
  <2>3. HooksPlaced'
    BY <1>0, <1>4 DEF HooksPlaced, Has
  <2>4. ServerDown'
    BY <1>0, <1>4 DEF ServerDown, Has
  <2> QED BY <2>1, <2>2, <2>3, <2>4 DEF HookInv
<1>5. ASSUME NEW c \in Stopper, NEW s, spc[c] # "hook", s # "hook", spc' = [spc EXCEPT ![c] = s]
      PROVE  Runs' = Runs
  <2>1. \A d \in Stopper : spc'[d] = IF d = c THEN s ELSE spc[d]
    BY <1>1, <1>5
  <2> QED BY <1>5, <2>1 DEF Runs
<1>6. CASE T!TimeUp
  <2>1. UNCHANGED <<hooks, left, ran, composed, isClosed, server, spc>> /\ timedOut' = TRUE
    BY <1>6 DEF T!TimeUp
  <2>2. Runs' = Runs
    BY <2>1 DEF Runs
  <2>3. \A c \in Stopper : spc'[c] = "done" => left = <<>>
    BY <1>0, <2>1 DEF HooksPlaced
  <2> QED BY <1>4, <2>1, <2>2, <2>3
<1>7. CASE T!StartSeesCrash
  <2>1. /\ UNCHANGED <<hooks, left, ran, composed, isClosed, server, timedOut>>
        /\ spc' = [spc EXCEPT ![Root] = "crashed"] /\ spc[Root] = "idle"
    BY <1>7 DEF T!StartSeesCrash
  <2>2. \A d \in Stopper : spc'[d] = IF d = Root THEN "crashed" ELSE spc[d]
    BY <1>1, <2>1
  <2>3. Runs' = Runs
    BY <2>1, <2>2 DEF Runs
  <2>4. \A d \in Stopper : spc'[d] = "done" => left = <<>>
    BY <1>0, <2>2 DEF HooksPlaced
  <2>5. timedOut' \in BOOLEAN
    BY <1>0, <2>1 DEF HooksTyped
  <2> QED BY <1>4, <2>1, <2>3, <2>4, <2>5
<1>8. ASSUME NEW c \in Stopper, T!Shutdown(c), isClosed PROVE HookInv'
  <2>1. /\ UNCHANGED <<hooks, left, ran, composed, isClosed, server, timedOut>>
        /\ spc' = [spc EXCEPT ![c] = "refused"] /\ spc[c] = "idle"
    BY <1>8 DEF T!Shutdown
  <2>2. Runs' = Runs
    BY <1>5, <2>1
  <2>3. \A d \in Stopper : spc'[d] = IF d = c THEN "refused" ELSE spc[d]
    BY <1>1, <2>1
  <2>4. \A d \in Stopper : spc'[d] = "done" => left = <<>>
    BY <1>0, <2>3 DEF HooksPlaced
  <2>5. timedOut' \in BOOLEAN
    BY <1>0, <2>1 DEF HooksTyped
  <2> QED BY <1>4, <2>1, <2>2, <2>4, <2>5
<1>9. ASSUME NEW c \in Stopper, T!Shutdown(c), ~isClosed PROVE HookInv'
  <2>1. /\ UNCHANGED <<hooks, ran, composed, server, timedOut>>
        /\ spc' = [spc EXCEPT ![c] = "looking"] /\ spc[c] = "idle"
        /\ isClosed' = TRUE /\ left' = T!Sorted /\ ran = <<>>
    BY <1>0, <1>9 DEF T!Shutdown, HooksPlaced
  <2>2. Runs' = Runs /\ ~Runs
    <3>1. ~Runs
      BY <1>9 DEF TerminationInv, Runs
    <3> QED BY <1>5, <2>1, <3>1
  <2>3. SortedTo(left', Len(hooks))
    BY <1>0, <2>1, SortedHooks DEF HooksTyped
  <2>4. HooksTyped'
    BY <1>0, <2>1, <2>3 DEF HooksTyped, HooksKnown, SortedTo
  <2>5. HooksOrdered'
    <3>1. \A g, k : Before(g, k)' = Before(g, k)
      BY <2>1 DEF Before, T!At
    <3>2. ran' = <<>> /\ InOrder(left')
      BY <2>1, <2>3 DEF SortedTo
    <3>3. InOrder(left)'
      BY <3>1, <3>2 DEF InOrder
    <3> QED BY <3>2, <3>3 DEF HooksOrdered, InOrder
  <2>6. HooksPlaced'
    <3>1. \A h \in Hook : Has(left', h) => Has(hooks, h)
      BY <2>3 DEF SortedTo, Has
    <3>2. \A h \in Hook : Has(hooks, h) => Has(left', h)
      BY <2>3 DEF SortedTo, Has
    <3>3. \A d \in Stopper : spc'[d] # "done"
      <4>1. \A d \in Stopper : spc'[d] = IF d = c THEN "looking" ELSE spc[d]
        BY <1>1, <2>1
      <4> QED BY <1>9, <4>1 DEF TerminationInv
    <3>4. \A h : ~Has(ran, h)
      BY <2>1 DEF Has
    <3> QED BY <2>1, <2>2, <3>1, <3>2, <3>3, <3>4 DEF HooksPlaced, Has
  <2>7. ServerDown'
    BY <1>0, <2>1 DEF ServerDown, Has
  <2> QED BY <2>4, <2>5, <2>6, <2>7 DEF HookInv
<1>10. ASSUME NEW h \in Hook, T!Register(h) PROVE HookInv'
  <2>1. /\ composed = "alone" /\ ~isClosed /\ h \notin T!ToSet(hooks) /\ hooks' = Append(hooks, h)
        /\ UNCHANGED <<composed, server, isClosed, left, spc, timedOut, ran>>
        /\ ran = <<>> /\ left = <<>>
    BY <1>0, <1>10 DEF T!Register, HooksPlaced
  <2>2. HooksKnown'
    <3>1. hooks \in Seq(Hook) /\ \A i \in 1..Len(hooks) : hooks[i] # h
      BY <1>0, <2>1 DEF HooksTyped, HooksKnown, T!ToSet
    <3>2. /\ hooks' \in Seq(Hook) /\ Len(hooks') = Len(hooks) + 1
          /\ hooks'[Len(hooks) + 1] = h
          /\ \A i \in 1..Len(hooks) : hooks'[i] = hooks[i]
      BY <2>1, <3>1
    <3>3. \A i \in 1..Len(hooks') : i \in 1..Len(hooks) \/ i = Len(hooks) + 1
      BY <3>1, <3>2
    <3>4. \A i, j \in 1..Len(hooks) : hooks[i] = hooks[j] => i = j
      BY <1>0 DEF HooksTyped, HooksKnown
    <3> QED BY <3>1, <3>2, <3>3, <3>4 DEF HooksKnown
  <2>3. ~Runs'
    BY <2>1 DEF TerminationInv, Runs
  <2>4. HooksTyped'
    BY <1>0, <2>1, <2>2 DEF HooksTyped
  <2>5. HooksOrdered'
    BY <2>1 DEF HooksOrdered, InOrder
  <2>6. HooksPlaced'
    <3>1. \A k : ~Has(<<>>, k)
      BY DEF Has
    <3>2. ran' = <<>> /\ left' = <<>> /\ ~isClosed'
      BY <2>1
    <3> QED BY <2>3, <3>1, <3>2 DEF HooksPlaced, Has
  <2>7. ServerDown'
    BY <1>0, <2>1 DEF ServerDown, Has
  <2> QED BY <2>4, <2>5, <2>6, <2>7 DEF HookInv
<1>11. ASSUME NEW c \in Stopper, spc[c] \in {"looking", "hook"}
       PROVE  isClosed /\ \A d \in Stopper : d # c => spc[d] \in {"idle", "refused"}
  BY <1>1, <1>11 DEF TerminationInv, OneShutdown
<1>12. ASSUME NEW c \in Stopper, T!RunHook(c) PROVE HookInv'
  <2> DEFINE n == Len(ran)
             h == left[1]
  <2>1. /\ spc[c] = "looking" /\ left # <<>> /\ spc' = [spc EXCEPT ![c] = "hook"]
        /\ ran' = Append(ran, h)
        /\ server' = IF h = ServerHook /\ server = "serving" THEN "closed" ELSE server
        /\ UNCHANGED <<composed, hooks, isClosed, left, timedOut>>
    BY <1>12 DEF T!RunHook
  <2>2. ~Runs
    BY <1>11, <2>1 DEF Runs
  <2>3. /\ isClosed /\ Runs'
        /\ \A d \in Stopper : spc'[d] # "done"
    <3>1. \A d \in Stopper : spc'[d] = IF d = c THEN "hook" ELSE spc[d]
      BY <1>1, <2>1
    <3> QED BY <1>11, <2>1, <3>1 DEF Runs
  <2>4. /\ ran \in Seq(Hook) /\ left \in Seq(Hook) /\ n \in Nat /\ Len(left) \in Nat
        /\ Len(left) >= 1 /\ h \in Hook
    BY <1>0, <2>1 DEF HooksTyped
  <2>5. /\ ran' \in Seq(Hook) /\ Len(ran') = n + 1 /\ ran'[n + 1] = h
        /\ \A i \in 1..n : ran'[i] = ran[i]
    BY <2>1, <2>4
  <2>6. \A i \in 1..Len(ran') : i \in 1..n \/ i = n + 1
    BY <2>4, <2>5
  <2>7. \A i \in 1..n, j \in 1..Len(left) : Before(ran[i], left[j])
    BY <1>0, <2>2 DEF HooksOrdered, Begun
  <2>8. \A i, j \in 1..n : i < j => Before(ran[i], ran[j])
    BY <1>0 DEF HooksOrdered, InOrder
  <2>9. \A i, j \in 1..Len(left) : i < j => Before(left[i], left[j])
    BY <1>0 DEF HooksOrdered, InOrder
  <2>10. \A g, k : Before(g, k)' = Before(g, k)
    BY <2>1 DEF Before, T!At
  <2>h. h = left[1] /\ 1 \in 1..Len(left)
    BY <2>4
  <2> HIDE DEF n, h
  <2>11. HooksOrdered'
    <3>1. ASSUME NEW i \in 1..Len(ran'), NEW j \in 1..Len(ran'), i < j
          PROVE  Before(ran'[i], ran'[j])
      <4>1. i \in 1..n
        BY <2>4, <2>5, <2>6, <3>1
      <4>2. CASE j \in 1..n
        BY <2>5, <2>8, <3>1, <4>1, <4>2
      <4>3. CASE j = n + 1
        <5>1. Before(ran[i], left[1])
          BY <2>7, <2>h, <4>1
        <5> QED BY <2>5, <2>h, <4>1, <4>3, <5>1
      <4> QED BY <2>6, <4>2, <4>3
    <3>2. ASSUME NEW i \in 1..Len(ran'), NEW j \in 1..Len(left), j > 1
          PROVE  Before(ran'[i], left[j])
      <4>1. CASE i \in 1..n
        BY <2>5, <2>7, <4>1
      <4>2. CASE i = n + 1
        <5>1. Before(left[1], left[j])
          BY <2>9, <2>h, <3>2
        <5> QED BY <2>5, <2>h, <4>2, <5>1
      <4> QED BY <2>6, <4>1, <4>2
    <3>3. InOrder(ran)'
      BY <2>10, <3>1 DEF InOrder
    <3>4. InOrder(left)'
      BY <2>1, <2>9, <2>10 DEF InOrder
    <3>5. Begun' = 1
      BY <2>3 DEF Begun
    <3>6. (\A i \in 1..Len(ran), j \in 1..Len(left) : j > Begun => Before(ran[i], left[j]))'
      BY <2>1, <2>10, <3>2, <3>5
    <3> QED BY <3>3, <3>4, <3>6 DEF HooksOrdered
  <2>12. \A x : Has(ran', x) <=> Has(ran, x) \/ x = h
    <3>1. \A i \in 1..n : i \in 1..Len(ran')
      BY <2>4, <2>5
    <3>2. n + 1 \in 1..Len(ran')
      BY <2>4, <2>5
    <3> QED BY <2>5, <2>6, <3>1, <3>2 DEF Has, n
  <2>13. HooksPlaced'
    <3>1. Has(left, h)
      BY <2>h DEF Has
    <3>2. /\ \A x \in Hook : Has(ran', x) \/ Has(left, x) => Has(hooks, x)
          /\ \A x \in Hook : Has(hooks, x) => Has(ran', x) \/ Has(left, x)
      BY <1>0, <2>3, <2>12, <3>1 DEF HooksPlaced
    <3>3. ran' # <<>> /\ left'[1] = ran'[Len(ran')]
      BY <2>1, <2>4, <2>5, <2>h
    <3> QED BY <2>1, <2>3, <3>2, <3>3 DEF HooksPlaced, Has
  <2>14. HooksTyped'
    BY <1>0, <2>1, <2>5 DEF HooksTyped, HooksKnown
  <2>15. ServerDown'
    <3>1. h = ServerHook => server' # "serving"
      BY <2>1
    <3>2. server # "serving" => server' # "serving"
      BY <2>1
    <3>3. Has(ran', ServerHook) => server' # "serving"
      BY <1>0, <2>12, <3>1, <3>2 DEF ServerDown
    <3> QED BY <1>0, <2>1, <3>2, <3>3 DEF ServerDown, Has
  <2> QED BY <2>11, <2>13, <2>14, <2>15 DEF HookInv
<1>13. ASSUME NEW c \in Stopper, T!HookReturns(c) PROVE HookInv'
  <2> DEFINE m == Len(left)
  <2>1. /\ spc[c] = "hook" /\ spc' = [spc EXCEPT ![c] = "looking"] /\ left' = Tail(left)
        /\ UNCHANGED <<composed, hooks, server, isClosed, ran, timedOut>>
    BY <1>13 DEF T!HookReturns
  <2>2. Runs /\ isClosed
    BY <1>11, <2>1 DEF Runs
  <2>3. ~Runs' /\ \A d \in Stopper : spc'[d] # "done"
    <3>1. \A d \in Stopper : spc'[d] = IF d = c THEN "looking" ELSE spc[d]
      BY <1>1, <2>1
    <3> QED BY <1>11, <2>1, <3>1 DEF Runs
  <2>4. /\ left \in Seq(Hook) /\ ran \in Seq(Hook) /\ m \in Nat /\ Len(ran) \in Nat
        /\ left # <<>> /\ ran # <<>> /\ left[1] = ran[Len(ran)]
    BY <1>0, <2>2 DEF HooksTyped, HooksPlaced
  <2>5. /\ left' \in Seq(Hook) /\ Len(left') = m - 1
        /\ \A i \in 1..(m - 1) : left'[i] = left[i + 1]
    BY <2>1, <2>4
  <2>6. \A g, k : Before(g, k)' = Before(g, k)
    BY <2>1 DEF Before, T!At
  <2>7. \A i \in 1..(m - 1) : i + 1 \in 1..m /\ i + 1 > 1
    BY <2>4
  <2>m. m = Len(left)
    OBVIOUS
  <2> HIDE DEF m
  <2>8. HooksOrdered'
    <3>1. InOrder(left)'
      <4> SUFFICES ASSUME NEW i \in 1..Len(left'), NEW j \in 1..Len(left'), i < j
                   PROVE  Before(left'[i], left'[j])
        BY <2>6 DEF InOrder
      <4>1. i \in 1..(m - 1) /\ j \in 1..(m - 1) /\ i + 1 < j + 1
        BY <2>4, <2>5
      <4>2. Before(left[i + 1], left[j + 1])
        BY <1>0, <2>7, <2>m, <4>1 DEF HooksOrdered, InOrder
      <4> QED BY <2>5, <4>1, <4>2
    <3>2. InOrder(ran)'
      BY <1>0, <2>1, <2>6 DEF HooksOrdered, InOrder
    <3>3. (\A i \in 1..Len(ran), j \in 1..Len(left) : j > Begun => Before(ran[i], left[j]))'
      <4> SUFFICES ASSUME NEW i \in 1..Len(ran), NEW j \in 1..Len(left')
                   PROVE  Before(ran[i], left'[j])
        BY <2>1, <2>6
      <4>1. j \in 1..(m - 1) /\ j + 1 \in 1..m /\ j + 1 > 1
        BY <2>4, <2>5, <2>7
      <4>2. Before(ran[i], left[j + 1])
        BY <1>0, <2>2, <2>m, <4>1 DEF HooksOrdered, Begun
      <4> QED BY <2>5, <4>1, <4>2
    <3> QED BY <3>1, <3>2, <3>3 DEF HooksOrdered
  <2>9. \A x : Has(left, x) => Has(left', x) \/ x = left[1]
    <3> SUFFICES ASSUME NEW x, NEW i \in 1..m, left[i] = x, i # 1 PROVE Has(left', x)
      BY <2>m DEF Has
    <3>1. i - 1 \in 1..(m - 1) /\ (i - 1) + 1 = i
      BY <2>4
    <3>2. left'[i - 1] = x
      BY <2>5, <3>1
    <3> QED BY <2>5, <3>1, <3>2 DEF Has
  <2>10. \A x : Has(left', x) => Has(left, x)
    BY <2>5, <2>7, <2>m DEF Has
  <2>11. HooksPlaced'
    <3>1. Has(ran, left[1])
      <4>1. Len(ran) \in 1..Len(ran)
        BY <2>4
      <4> QED BY <2>4, <4>1 DEF Has
    <3>2. /\ \A x \in Hook : Has(ran, x) \/ Has(left', x) => Has(hooks, x)
          /\ \A x \in Hook : Has(hooks, x) => Has(ran, x) \/ Has(left', x)
      BY <1>0, <2>2, <2>9, <2>10, <3>1 DEF HooksPlaced
    <3> QED BY <2>1, <2>2, <2>3, <3>2 DEF HooksPlaced, Has
  <2>12. HooksTyped'
    BY <1>0, <2>1, <2>5 DEF HooksTyped, HooksKnown
  <2>13. ServerDown'
    BY <1>0, <2>1 DEF ServerDown, Has
  <2> QED BY <2>8, <2>11, <2>12, <2>13 DEF HookInv
<1>14. ASSUME NEW c \in Stopper, T!ShutdownReturns(c) PROVE HookInv'
  <2>1. /\ UNCHANGED <<hooks, left, ran, composed, isClosed, server, timedOut>>
        /\ spc[c] = "looking"
        /\ \/ left = <<>> /\ spc' = [spc EXCEPT ![c] = "done"]
           \/ spc' = [spc EXCEPT ![c] = "timed out"]
    BY <1>14 DEF T!ShutdownReturns
  <2>2. Runs' = Runs
    BY <1>5, <2>1
  <2>3. \A d \in Stopper : spc'[d] = "done" => left = <<>>
    <3>1. \A d \in Stopper : d # c => spc'[d] = spc[d]
      BY <1>1, <2>1
    <3>2. left = <<>> \/ spc'[c] = "timed out"
      BY <1>1, <2>1
    <3> QED BY <1>0, <3>1, <3>2 DEF HooksPlaced
  <2>4. timedOut' \in BOOLEAN
    BY <1>0, <2>1 DEF HooksTyped
  <2> QED BY <1>4, <2>1, <2>2, <2>3, <2>4
<1> QED BY <1>3, <1>6, <1>7, <1>8, <1>9, <1>10, <1>12, <1>13, <1>14 DEF T!Next

\* What that says of who is done and of who timed out.
LEMMA TerminationImplies ==
  ASSUME T!TerminationParameters, TerminationInv, HookInv
  PROVE  T!TerminationOrderly
<1>0. HooksTyped /\ HooksOrdered /\ HooksPlaced /\ ServerDown
  BY DEF HookInv
<1>1. \A i, j \in 1..Len(ran) : i < j =>
        \/ Priority[ran[i]] > Priority[ran[j]]
        \/ Priority[ran[i]] = Priority[ran[j]] /\ T!At(ran[i]) < T!At(ran[j])
  BY <1>0 DEF HooksOrdered, InOrder, Before
<1>2. \A h : (h \in T!ToSet(ran) <=> Has(ran, h)) /\ (h \in T!ToSet(hooks) <=> Has(hooks, h))
  BY <1>0 DEF T!ToSet, Has, HooksTyped, HooksKnown
<1>3. /\ \A h : Has(ran, h) => h \in Hook
      /\ \A h : Has(hooks, h) => h \in Hook
  BY <1>0 DEF Has, HooksTyped, HooksKnown
<1>4. ASSUME NEW c \in Stopper, spc[c] = "done"
      PROVE  T!ToSet(ran) = T!ToSet(hooks) /\ server # "serving"
  <2>1. left = <<>> /\ isClosed
    BY <1>0, <1>4 DEF HooksPlaced, TerminationInv
  <2>2. \A h : ~Has(left, h)
    BY <2>1 DEF Has
  <2>3. \A h : Has(ran, h) <=> Has(hooks, h)
    BY <1>0, <1>3, <2>1, <2>2 DEF HooksPlaced
  <2>4. T!ToSet(ran) = T!ToSet(hooks)
    BY <1>2, <2>3
  <2>5. composed = "root" => Has(hooks, ServerHook)
    BY <1>0 DEF ServerDown, Has
  <2>6. server # "serving"
    BY <1>0, <2>3, <2>5 DEF ServerDown, HooksTyped
  <2> QED BY <2>4, <2>6
<1>5. ASSUME NEW c \in Stopper, spc[c] = "timed out",
             NEW h \in T!ToSet(hooks) \ T!ToSet(ran), NEW g \in T!ToSet(ran)
      PROVE  Priority[g] >= Priority[h]
  <2>1. isClosed
    BY <1>5 DEF TerminationInv
  <2>2. ~Runs
    BY <1>5 DEF TerminationInv, OneShutdown, Runs
  <2>3. Has(ran, g) /\ Has(left, h) /\ g \in Hook /\ h \in Hook
    BY <1>0, <1>2, <1>3, <2>1 DEF HooksPlaced
  <2>4. PICK i \in 1..Len(ran) : ran[i] = g
    BY <2>3 DEF Has
  <2>5. PICK j \in 1..Len(left) : left[j] = h
    BY <2>3 DEF Has
  <2>6. j > 0
    OBVIOUS
  <2>7. Before(g, h)
    BY <1>0, <2>2, <2>4, <2>5, <2>6 DEF HooksOrdered, Begun
  <2>8. Priority[g] \in Int /\ Priority[h] \in Int
    BY <2>3 DEF T!TerminationParameters
  <2> QED BY <2>7, <2>8 DEF Before
<1>6. OneShutdown /\ ForcedTwice
  <2>1. OneShutdown /\ (forceExit => signalled) /\ (forceExit = TRUE => sent >= 2)
    BY DEF TerminationInv, Signals, Flags
  <2> QED BY <2>1, Zenon DEF ForcedTwice
<1> QED BY <1>1, <1>4, <1>5, <1>6 DEF T!TerminationOrderly, OneShutdown, ForcedTwice

\* The types of the signals: the channel holds two.
SignalsTyped ==
  /\ sigChan \in 0..2 /\ sent \in 0..MaxSignals /\ loop \in {"first", "second", "ended"}

LEMMA SignalsTypedStep ==
  ASSUME T!TerminationParameters, SignalsTyped, [T!Next]_terminationVars
  PROVE  SignalsTyped'
<1> USE DEF SignalsTyped, T!signalVars, T!managerVars
<1>1. CASE T!Signal
  BY <1>1 DEF T!Signal, T!TerminationParameters
<1>2. CASE T!Loop
  BY <1>2 DEF T!Loop, T!FirstSignal, T!SecondSignal, T!DeadlineElapses
<1>3. CASE \/ T!ServerCrashes \/ T!TimeUp \/ T!StartSeesCrash
           \/ \E h \in Hook : T!Register(h)
           \/ UNCHANGED terminationVars
  <2>1. UNCHANGED <<sigChan, sent, loop>>
    BY <1>3 DEF T!ServerCrashes, T!TimeUp, T!StartSeesCrash, T!Register, terminationVars
  <2> QED BY <2>1
<1>4. ASSUME NEW c \in Stopper,
             T!Shutdown(c) \/ T!RunHook(c) \/ T!HookReturns(c) \/ T!ShutdownReturns(c)
      PROVE  SignalsTyped'
  <2>1. UNCHANGED <<sigChan, sent, loop>>
    BY <1>4 DEF T!Shutdown, T!RunHook, T!HookReturns, T!ShutdownReturns
  <2> QED BY <2>1
<1> QED BY <1>1, <1>2, <1>3, <1>4 DEF T!Next

LEMMA TerminationTyped ==
  ASSUME TerminationInv, HookInv, SignalsTyped
  PROVE  T!TypeOK
<1>1. HooksTyped
  BY DEF HookInv
<1>2. signalled \in BOOLEAN /\ forceExit \in BOOLEAN /\ isClosed \in BOOLEAN
  BY DEF TerminationInv, Signals, Flags
<1>3. T!ToSet(hooks) \cup T!ToSet(left) \cup T!ToSet(ran) \subseteq Hook
  BY <1>1 DEF T!ToSet, HooksTyped, HooksKnown
<1> QED BY <1>1, <1>2, <1>3 DEF T!TypeOK, TerminationInv, HooksTyped, SignalsTyped

\* The calls and signals, the hooks, and the types.
TerminationInvs == TerminationInv /\ HookInv /\ SignalsTyped
LEMMA TerminationInit ==
  ASSUME T!TerminationParameters, T!Init
  PROVE  TerminationInvs
<1>1. /\ sigChan = 0 /\ loop = "first" /\ sent = 0
      /\ forceExit = FALSE /\ signalled = FALSE /\ isClosed = FALSE /\ spc = [c \in Stopper |-> "idle"]
  BY DEF T!Init
<1>2. Numbers
  BY <1>1 DEF Numbers, Taken
<1>3. Flags
  BY <1>1 DEF Flags
<1>4. TerminationInv
  BY <1>1, <1>2, <1>3 DEF TerminationInv, OneShutdown, Signals
<1>5. SignalsTyped
  BY <1>1 DEF SignalsTyped, T!TerminationParameters
<1> QED BY <1>4, <1>5, HookInit DEF TerminationInvs

\* Shutdown, Register, Start and the signal loop: hooks begin in the order of their
\* priorities, for one winner, and a forced exit takes two signals.
THEOREM TerminationOrderlyHolds ==
  ASSUME T!TerminationParameters
  PROVE  T!Spec => [](T!TypeOK /\ T!TerminationOrderly)
<1>1. T!Init => TerminationInvs
  BY TerminationInit
<1>2. TerminationInvs /\ [T!Next]_(T!vars) => TerminationInvs'
  BY TerminationStep, HookStep, SignalsTypedStep
     DEF TerminationInvs, T!vars, T!signalVars, T!managerVars, terminationVars
<1>3. TerminationInvs => T!TypeOK /\ T!TerminationOrderly
  BY TerminationTyped, TerminationImplies DEF TerminationInvs
<1> QED BY <1>1, <1>2, <1>3, PTL DEF T!Spec

-----------------------------------------------------------------------------
(* The suite. *)

\* A step of the suite is a step of a component, or leaves it alone.
LEMMA SuiteSteps ==
  ASSUME [SuiteNext]_suiteVars
  PROVE  /\ [Next]_vars /\ [Q!Next]_queueVars /\ [P!Next]_poolVars /\ [C!Next]_stageVars
         /\ [L!Next]_loaderVars /\ [T!TrackerNext]_trackerVars /\ [W!Next]_groupVars
         /\ [T!Next]_terminationVars
<1> USE DEF SuiteNext, Rests, suiteVars
<1> HIDE DEF vars, queueVars, poolVars, stageVars, terminationVars, loaderVars, trackerVars,
             groupVars
<1>1. [Next]_vars /\ [Q!Next]_queueVars
  OBVIOUS
<1>2. [P!Next]_poolVars /\ [C!Next]_stageVars
  OBVIOUS
<1>3. [L!Next]_loaderVars /\ [T!TrackerNext]_trackerVars
  OBVIOUS
<1>4. [W!Next]_groupVars /\ [T!Next]_terminationVars
  OBVIOUS
<1> QED BY <1>1, <1>2, <1>3, <1>4

\* Nobody sleeps beside what it waits for.
THEOREM SuiteForgetsNobody == SuiteSpec => []NobodyForgotten
<1> DEFINE Inv == IInv /\ NoForgottenWaiter /\ QueueInv /\ LoaderInv
<1>1. SuiteInit => Inv
  <2>1. Init => NoForgottenWaiter
    BY DEF Init, NoForgottenWaiter
  <2> QED BY <2>1, InitIInv, QueueInit, LoaderInit, Parameters DEF SuiteInit, Parameters
<1>2. Inv /\ [SuiteNext]_suiteVars => Inv'
  BY SuiteSteps, NextIInv, NobodyForgottenStep, QueueStep, LoaderStep, Parameters DEF Parameters
<1>3. Inv => NobodyForgotten
  BY DEF QueueInv, LoaderInv, NobodyForgotten
<1> HIDE DEF Inv
<1> QED BY <1>1, <1>2, <1>3, PTL DEF SuiteSpec, SuiteOnly

\* The queue conserves its items and their order.
THEOREM SuiteConservesItems == SuiteSpec => []FifoConserved
<1>1. SuiteInit => QueueInv
  BY QueueInit, Parameters DEF SuiteInit, Parameters
<1>2. QueueInv /\ [SuiteNext]_suiteVars => QueueInv'
  BY SuiteSteps, QueueStep, Parameters DEF Parameters
<1>3. QueueInv => FifoConserved
  BY QueueImplies DEF FifoConserved
<1> QED BY <1>1, <1>2, <1>3, PTL DEF SuiteSpec, SuiteOnly

\* The pool, the stages, the loader and the groups lose, duplicate and hide nothing.
THEOREM SuiteWorksSoundly == SuiteSpec => []WorkSound
<1> DEFINE Inv == PoolInv /\ StagesInv /\ LoaderInv /\ TaskInv
<1>1. SuiteInit => Inv
  BY PoolInit, StagesInit, LoaderInit, TaskInit, Parameters DEF SuiteInit, Parameters
<1>2. Inv /\ [SuiteNext]_suiteVars => Inv'
  BY SuiteSteps, PoolStep, StagesStep, LoaderStep, TaskStep, Parameters DEF Parameters
<1>3. Inv => WorkSound
  BY PoolImplies, StagesImplies, LoaderImplies, TaskImplies, Parameters DEF Parameters, WorkSound
<1> HIDE DEF Inv
<1> QED BY <1>1, <1>2, <1>3, PTL DEF SuiteSpec, SuiteOnly

\* Each resource has one owner that closes it.
THEOREM SuiteOwnsResources == SuiteSpec => []ResourcesOwned
<1>1. SuiteInit => TrackerInv
  BY TrackerInit, Parameters DEF SuiteInit, Parameters
<1>2. TrackerInv /\ [SuiteNext]_suiteVars => TrackerInv'
  BY SuiteSteps, TrackerStep, Parameters DEF Parameters
<1>3. TrackerInv => ResourcesOwned
  BY TrackerImplies, Parameters DEF ResourcesOwned, Parameters
<1> QED BY <1>1, <1>2, <1>3, PTL DEF SuiteSpec, SuiteOnly

\* Nobody's hooks run out of order, or twice.
THEOREM SuiteTerminatesOrderly == SuiteSpec => []TerminationOrderly
<1>1. SuiteInit => TerminationInvs
  BY TerminationInit, Parameters DEF SuiteInit, Parameters
<1>2. TerminationInvs /\ [SuiteNext]_suiteVars => TerminationInvs'
  BY SuiteSteps, TerminationStep, HookStep, SignalsTypedStep, Parameters
     DEF TerminationInvs, Parameters
<1>3. TerminationInvs => TerminationOrderly
  BY TerminationImplies, Parameters DEF TerminationInvs, TerminationOrderly, Parameters
<1> QED BY <1>1, <1>2, <1>3, PTL DEF SuiteSpec, SuiteOnly

\* Every variable of the components keeps its type.
THEOREM SuiteKeepsTypes == SuiteSpec => []SuiteTypeOK
<1> DEFINE Inv == /\ IInv /\ QueueInv /\ PoolInv /\ StagesInv /\ StagesFlags
                  /\ LoaderInv /\ TrackerInv /\ TaskInv /\ TerminationInvs
<1>1. SuiteInit => Inv
  <2>1. C!Init => StagesFlags
    BY DEF C!Init, StagesFlags
  <2> QED BY <2>1, InitIInv, QueueInit, PoolInit, StagesInit, LoaderInit, TrackerInit, TaskInit,
             TerminationInit, Parameters DEF SuiteInit, Parameters
<1>2. Inv /\ [SuiteNext]_suiteVars => Inv'
  <2> SUFFICES ASSUME Inv, [SuiteNext]_suiteVars PROVE Inv'
    OBVIOUS
  <2>1. IInv' /\ QueueInv' /\ PoolInv'
    BY SuiteSteps, NextIInv, QueueStep, PoolStep, Parameters DEF Parameters
  <2>2. StagesInv' /\ StagesFlags' /\ LoaderInv'
    BY SuiteSteps, StagesStep, StagesFlagsStep, LoaderStep, Parameters DEF Parameters
  <2>3. TrackerInv' /\ TaskInv'
    BY SuiteSteps, TrackerStep, TaskStep, Parameters DEF Parameters
  <2>4. TerminationInvs'
    BY SuiteSteps, TerminationStep, HookStep, SignalsTypedStep, Parameters
       DEF TerminationInvs, Parameters
  <2> QED BY <2>1, <2>2, <2>3, <2>4
<1>3. Inv => SuiteTypeOK
  <2> SUFFICES ASSUME Inv PROVE SuiteTypeOK
    OBVIOUS
  <2>1. TypeOK /\ Q!TypeOK /\ P!TypeOK
    BY PoolImplies DEF IInv, QueueInv
  <2>2. C!TypeOK /\ T!TypeOK
    BY StagesTypes, TerminationTyped DEF TerminationInvs
  <2>3. L!TypeOK /\ T!TrackerTypeOK /\ W!TypeOK
    BY DEF LoaderInv, TrackerInv, TaskInv
  <2> QED BY <2>1, <2>2, <2>3 DEF SuiteTypeOK
<1> HIDE DEF Inv
<1> QED BY <1>1, <1>2, <1>3, PTL DEF SuiteSpec, SuiteOnly

=============================================================================
