--------------------------- MODULE MessagingProofs ---------------------------
(***************************************************************************)
(* Theorems about the consumers, the retries, the inbox and the pipeline   *)
(* from outbox to idempotent consumer, and about their suite, for every    *)
(* value of the constants.                                                 *)
(***************************************************************************)
EXTENDS MCMessaging, FiniteSetTheorems, SequenceTheorems, WellFoundedInduction, TLAPS

-----------------------------------------------------------------------------
(* The graceful consumer. *)

\* An accepted task is queued, runs or has run, and no other is.
Somewhere(t) ==
  \/ t \in ended
  \/ \E i \in 1..Len(msgQueue) : msgQueue[i] = t
  \/ \E w \in Worker : running[w] = t
Accounted == \A t \in Task : tpc[t] = "accepted" <=> Somewhere(t)

\* Enqueue holds the mutex in its select, and nobody can once the channel is closed.
Locked ==
  /\ \A t \in Task : tpc[t] = "select" => mu = t
  /\ closed = TRUE => mu = "free"
  /\ spc \in {"waiting", "nil", "timeout"} => closed = TRUE

\* Workers leave when the channel is closed and empty, with nothing in hand.
Left ==
  /\ returned # {} => closed = TRUE /\ msgQueue = <<>>
  /\ \A w \in returned : running[w] = NoTask
  /\ spc = "nil" => returned = Worker

GracefulInv == K!GracefulTypeOK /\ Accounted /\ Locked /\ Left

LEMMA GracefulStep ==
  ASSUME K!ConsumerParameters, GracefulInv, [K!GracefulNext]_gracefulVars
  PROVE  GracefulInv'
<1>1. K!GracefulTypeOK /\ Accounted /\ Locked /\ Left
  BY DEF GracefulInv
<1>2. SUFFICES K!GracefulTypeOK' /\ Accounted' /\ Locked' /\ Left'
  BY DEF GracefulInv
<1>3. NoTask \notin Task /\ "free" \notin Task /\ Worker # {} /\ Slots \in Nat
  BY DEF K!ConsumerParameters
<1> USE DEF K!GracefulTypeOK, K!EnqueueGoes
<1>4. ASSUME NEW t \in Task, K!EnqueueLocks(t)
      PROVE  K!GracefulTypeOK' /\ Accounted' /\ Locked' /\ Left'
  <2>1. /\ tpc[t] = "new" /\ mu = "free"
        /\ \/ closed /\ tpc' = [tpc EXCEPT ![t] = "refused"] /\ mu' = mu
           \/ ~closed /\ tpc' = [tpc EXCEPT ![t] = "select"] /\ mu' = t
        /\ msgQueue' = msgQueue /\ running' = running /\ returned' = returned /\ ended' = ended
        /\ spc' = spc
    BY <1>4 DEF K!EnqueueLocks
  <2>2. closed' = closed /\ done' = done
    BY <1>4 DEF K!EnqueueLocks
  <2>3. tpc' \in [Task -> {"new", "select", "accepted", "refused"}]
        /\ \A s \in Task : s # t => tpc'[s] = tpc[s]
        /\ tpc'[t] # "accepted" /\ (tpc'[t] = "select" => mu' = t /\ ~closed)
    BY <1>1, <2>1
  <2>4. K!GracefulTypeOK'
    BY <1>1, <2>1, <2>2, <2>3
  <2>5. Accounted'
    BY <1>1, <2>1, <2>3 DEF Accounted, Somewhere
  <2>6. Locked'
    BY <1>1, <1>3, <2>1, <2>2, <2>3 DEF Locked
  <2>7. Left'
    BY <1>1, <2>1, <2>2 DEF Left
  <2> QED BY <2>4, <2>5, <2>6, <2>7
<1>5. ASSUME NEW t \in Task, K!EnqueueSends(t)
      PROVE  K!GracefulTypeOK' /\ Accounted' /\ Locked' /\ Left'
  <2>1. /\ tpc[t] = "select" /\ Len(msgQueue) < Slots /\ msgQueue' = Append(msgQueue, t)
        /\ tpc' = [tpc EXCEPT ![t] = "accepted"] /\ mu' = "free"
        /\ running' = running /\ returned' = returned /\ ended' = ended /\ spc' = spc
    BY <1>5 DEF K!EnqueueSends
  <2>2. closed' = closed /\ done' = done
    BY <1>5 DEF K!EnqueueSends
  <2>3. tpc' \in [Task -> {"new", "select", "accepted", "refused"}]
        /\ \A s \in Task : tpc'[s] = IF s = t THEN "accepted" ELSE tpc[s]
    BY <1>1, <2>1
  <2>4. /\ msgQueue' \in Seq(Task) /\ Len(msgQueue') = Len(msgQueue) + 1
        /\ msgQueue'[Len(msgQueue) + 1] = t
        /\ \A i \in 1..Len(msgQueue) : msgQueue'[i] = msgQueue[i]
        /\ Len(msgQueue) \in Nat
    BY <1>1, <2>1, AppendProperties, LenProperties
  <2>5. K!GracefulTypeOK'
    BY <1>1, <1>3, <2>1, <2>2, <2>3, <2>4
  <2>6. \A s \in Task : (\E i \in 1..Len(msgQueue') : msgQueue'[i] = s)
                          <=> s = t \/ \E i \in 1..Len(msgQueue) : msgQueue[i] = s
    <3> SUFFICES ASSUME NEW s \in Task
                 PROVE  (\E i \in 1..Len(msgQueue') : msgQueue'[i] = s)
                          <=> s = t \/ \E i \in 1..Len(msgQueue) : msgQueue[i] = s
      OBVIOUS
    <3>1. \A i \in 1..Len(msgQueue') : i = Len(msgQueue) + 1 \/ i \in 1..Len(msgQueue)
      BY <2>4
    <3>2. \A i \in 1..Len(msgQueue) : i \in 1..Len(msgQueue')
      BY <2>4
    <3>3. Len(msgQueue) + 1 \in 1..Len(msgQueue')
      BY <2>4
    <3> QED BY <2>4, <3>1, <3>2, <3>3
  <2>7. Accounted'
    BY <1>1, <2>1, <2>3, <2>6 DEF Accounted, Somewhere
  <2>8. closed # TRUE
    BY <1>1, <1>3, <2>1 DEF Locked
  <2>9. Locked'
    BY <1>1, <1>3, <2>1, <2>2, <2>3 DEF Locked
  <2>10. Left'
    BY <1>1, <2>1, <2>2, <2>8 DEF Left
  <2> QED BY <2>5, <2>7, <2>9, <2>10
<1>6. ASSUME NEW t \in Task, K!EnqueueGivesUp(t)
      PROVE  K!GracefulTypeOK' /\ Accounted' /\ Locked' /\ Left'
  <2>1. /\ tpc[t] = "select" /\ msgQueue' = msgQueue
        /\ tpc' = [tpc EXCEPT ![t] = "refused"] /\ mu' = "free"
        /\ running' = running /\ returned' = returned /\ ended' = ended /\ spc' = spc
    BY <1>6 DEF K!EnqueueGivesUp
  <2>2. closed' = closed /\ done' = done
    BY <1>6 DEF K!EnqueueGivesUp
  <2>3. tpc' \in [Task -> {"new", "select", "accepted", "refused"}]
        /\ \A s \in Task : tpc'[s] = IF s = t THEN "refused" ELSE tpc[s]
    BY <1>1, <2>1
  <2>4. K!GracefulTypeOK'
    BY <1>1, <2>1, <2>2, <2>3
  <2>5. Accounted'
    BY <1>1, <2>1, <2>3 DEF Accounted, Somewhere
  <2>6. Locked'
    BY <1>1, <1>3, <2>1, <2>2, <2>3 DEF Locked
  <2>7. Left'
    BY <1>1, <2>1, <2>2 DEF Left
  <2> QED BY <2>4, <2>5, <2>6, <2>7
<1>7. ASSUME NEW w \in Worker, K!Receive(w)
      PROVE  K!GracefulTypeOK' /\ Accounted' /\ Locked' /\ Left'
  <2>1. /\ w \notin returned /\ running[w] = NoTask /\ msgQueue # <<>>
        /\ running' = [running EXCEPT ![w] = Head(msgQueue)] /\ msgQueue' = Tail(msgQueue)
        /\ mu' = mu /\ tpc' = tpc /\ returned' = returned /\ ended' = ended /\ spc' = spc
    BY <1>7 DEF K!Receive
  <2>2. closed' = closed /\ done' = done
    BY <1>7 DEF K!Receive
  <2>3. /\ msgQueue' \in Seq(Task) /\ Len(msgQueue') = Len(msgQueue) - 1
        /\ \A i \in 1..Len(msgQueue') : msgQueue'[i] = msgQueue[i + 1]
        /\ Head(msgQueue) \in Task /\ Head(msgQueue) = msgQueue[1]
        /\ Len(msgQueue) \in Nat /\ Len(msgQueue) > 0
    BY <1>1, <2>1, HeadTailProperties, EmptySeq, LenProperties
  <2>4. /\ running' \in [Worker -> Task \cup {NoTask}]
        /\ \A v \in Worker : running'[v] = IF v = w THEN Head(msgQueue) ELSE running[v]
    BY <1>1, <2>1, <2>3
  <2>5. K!GracefulTypeOK'
    BY <1>1, <1>3, <2>1, <2>2, <2>3, <2>4
  <2>6. \A s \in Task : (\E i \in 1..Len(msgQueue) : msgQueue[i] = s)
                          <=> s = Head(msgQueue) \/ \E i \in 1..Len(msgQueue') : msgQueue'[i] = s
    <3> SUFFICES ASSUME NEW s \in Task
                 PROVE  (\E i \in 1..Len(msgQueue) : msgQueue[i] = s)
                          <=> s = Head(msgQueue) \/ \E i \in 1..Len(msgQueue') : msgQueue'[i] = s
      OBVIOUS
    <3>1. \A i \in 1..Len(msgQueue) : i = 1 \/ i - 1 \in 1..Len(msgQueue')
      BY <2>3
    <3>2. \A i \in 1..Len(msgQueue') : i + 1 \in 1..Len(msgQueue)
      BY <2>3
    <3>3. \A i \in 1..Len(msgQueue) : i = 1 \/ msgQueue'[i - 1] = msgQueue[i]
      BY <2>3, <3>1
    <3>4. 1 \in 1..Len(msgQueue)
      BY <2>3
    <3> QED BY <2>3, <3>1, <3>2, <3>3, <3>4
  <2>7. \A s \in Task : (\E v \in Worker : running'[v] = s)
                          <=> s = Head(msgQueue) \/ \E v \in Worker : running[v] = s
    BY <1>3, <2>1, <2>4
  <2>8. Accounted'
    BY <1>1, <2>1, <2>6, <2>7 DEF Accounted, Somewhere
  <2>9. Locked'
    BY <1>1, <2>1, <2>2 DEF Locked
  <2>10. Left'
    BY <1>1, <2>1, <2>2, <2>4 DEF Left
  <2> QED BY <2>5, <2>8, <2>9, <2>10
<1>8. ASSUME NEW w \in Worker, K!TaskReturns(w)
      PROVE  K!GracefulTypeOK' /\ Accounted' /\ Locked' /\ Left'
  <2>1. /\ running[w] # NoTask /\ ended' = ended \cup {running[w]}
        /\ running' = [running EXCEPT ![w] = NoTask] /\ msgQueue' = msgQueue
        /\ mu' = mu /\ tpc' = tpc /\ returned' = returned /\ spc' = spc
    BY <1>8 DEF K!TaskReturns
  <2>2. closed' = closed /\ done' = done
    BY <1>8 DEF K!TaskReturns
  <2>3. /\ running' \in [Worker -> Task \cup {NoTask}] /\ running[w] \in Task
        /\ \A v \in Worker : running'[v] = IF v = w THEN NoTask ELSE running[v]
    BY <1>1, <2>1
  <2>4. K!GracefulTypeOK'
    BY <1>1, <2>1, <2>2, <2>3
  <2>5. Accounted'
    BY <1>1, <1>3, <2>1, <2>3 DEF Accounted, Somewhere
  <2>6. Locked'
    BY <1>1, <2>1, <2>2 DEF Locked
  <2>7. Left'
    BY <1>1, <2>1, <2>2, <2>3 DEF Left
  <2> QED BY <2>4, <2>5, <2>6, <2>7
<1>9. ASSUME NEW w \in Worker, K!WorkerReturns(w)
      PROVE  K!GracefulTypeOK' /\ Accounted' /\ Locked' /\ Left'
  <2>1. /\ running[w] = NoTask /\ msgQueue = <<>> /\ returned' = returned \cup {w}
        /\ mu' = mu /\ msgQueue' = msgQueue /\ tpc' = tpc /\ running' = running
        /\ spc' = spc /\ ended' = ended
    BY <1>9 DEF K!WorkerReturns, K!RangeEnds
  <2>2. closed' = closed /\ done' = done
    BY <1>9 DEF K!WorkerReturns
  <2>3. closed = TRUE
    BY <1>1, <1>9 DEF K!WorkerReturns, K!RangeEnds
  <2>4. K!GracefulTypeOK'
    BY <1>1, <2>1, <2>2
  <2>5. Accounted'
    BY <1>1, <2>1 DEF Accounted, Somewhere
  <2>6. Locked'
    BY <1>1, <2>1, <2>2 DEF Locked
  <2>7. Left'
    BY <1>1, <2>1, <2>2, <2>3 DEF Left
  <2> QED BY <2>4, <2>5, <2>6, <2>7
<1>10. ASSUME K!ShutdownCall \/ K!Shutdown \/ K!ContextEnds
       PROVE  K!GracefulTypeOK' /\ Accounted' /\ Locked' /\ Left'
  <2>1. /\ mu' = mu /\ msgQueue' = msgQueue /\ tpc' = tpc /\ running' = running
        /\ returned' = returned /\ ended' = ended
    BY <1>10 DEF K!ShutdownCall, K!Shutdown, K!ShutdownCloses, K!ShutdownDrained,
                 K!ShutdownTimesOut, K!ContextEnds
  <2>2. \/ spc = "no" /\ spc' = "locking" /\ closed' = closed
        \/ spc = "locking" /\ mu = "free" /\ spc' = "waiting" /\ closed' = TRUE
        \/ spc = "waiting" /\ spc' = "nil" /\ returned = Worker /\ closed' = closed
        \/ spc = "waiting" /\ spc' = "timeout" /\ closed' = closed
        \/ spc' = spc /\ closed' = closed
    BY <1>10 DEF K!ShutdownCall, K!Shutdown, K!ShutdownCloses, K!ShutdownDrained,
                 K!ShutdownTimesOut, K!ContextEnds
  <2>3. done' \in {done, TRUE}
    BY <1>10 DEF K!ShutdownCall, K!Shutdown, K!ShutdownCloses, K!ShutdownDrained,
                 K!ShutdownTimesOut, K!ContextEnds
  <2>4. K!GracefulTypeOK'
    BY <1>1, <2>1, <2>2, <2>3
  <2>5. Accounted'
    BY <1>1, <2>1 DEF Accounted, Somewhere
  <2>6. Locked'
    BY <1>1, <2>1, <2>2 DEF Locked
  <2>7. Left'
    BY <1>1, <2>1, <2>2 DEF Left
  <2> QED BY <2>4, <2>5, <2>6, <2>7
<1>11. CASE UNCHANGED gracefulVars
  BY <1>1, <1>11 DEF gracefulVars, Accounted, Somewhere, Locked, Left
<1> QED BY <1>4, <1>5, <1>6, <1>7, <1>8, <1>9, <1>10, <1>11
        DEF K!GracefulNext, K!Enqueue, K!WorkerStep

LEMMA GracefulStarts ==
  ASSUME K!ConsumerParameters, K!GracefulInit
  PROVE  GracefulInv
<1> USE DEF K!GracefulInit, K!ConsumerParameters
<1>1. K!GracefulTypeOK
  <2>1. closed = FALSE /\ done = FALSE /\ mu = "free" /\ spc = "no"
    OBVIOUS
  <2>2. msgQueue \in Seq(Task) /\ Len(msgQueue) <= Slots
    <3>1. msgQueue = <<>> /\ Slots \in Nat
      OBVIOUS
    <3> QED BY <3>1
  <2>3. /\ tpc \in [Task -> {"new", "select", "accepted", "refused"}]
        /\ running \in [Worker -> Task \cup {NoTask}]
        /\ returned \subseteq Worker /\ ended \subseteq Task
    OBVIOUS
  <2> QED BY <2>1, <2>2, <2>3 DEF K!GracefulTypeOK
<1>2. Accounted
  BY DEF Accounted, Somewhere
<1>3. Locked
  <2>1. closed = FALSE /\ spc = "no" /\ \A t \in Task : tpc[t] = "new"
    OBVIOUS
  <2> QED BY <2>1 DEF Locked
<1>4. Left
  <2>1. returned = {} /\ spc = "no"
    OBVIOUS
  <2> QED BY <2>1 DEF Left
<1> QED BY <1>1, <1>2, <1>3, <1>4 DEF GracefulInv

LEMMA GracefulMeans ==
  ASSUME K!ConsumerParameters, GracefulInv
  PROVE  K!DrainComplete
<1>1. K!GracefulTypeOK /\ Accounted /\ Locked /\ Left /\ Worker # {} /\ NoTask \notin Task
      /\ "free" \notin Task
  BY DEF GracefulInv, K!ConsumerParameters
<1>2. returned = Worker => msgQueue = <<>> /\ \A t \in Task : tpc[t] # "select"
  BY <1>1 DEF Locked, Left
<1>3. ASSUME spc = "nil" PROVE ended = {t \in Task : tpc[t] = "accepted"}
  <2>1. msgQueue = <<>> /\ \A w \in Worker : running[w] = NoTask
    BY <1>1, <1>3 DEF Left
  <2>2. \A t \in Task : tpc[t] = "accepted" <=> t \in ended
    BY <1>1, <2>1 DEF Accounted, Somewhere
  <2> QED BY <1>1, <2>2 DEF K!GracefulTypeOK
<1> QED BY <1>2, <1>3 DEF K!DrainComplete

\* Enqueue, workers and Shutdown: nil means that everything accepted has run.
THEOREM DrainHolds ==
  ASSUME K!ConsumerParameters
  PROVE  K!GracefulSpec => []K!DrainComplete
<1>1. K!GracefulInit => GracefulInv
  BY GracefulStarts
<1>2. GracefulInv /\ [K!GracefulNext]_(K!gracefulVars) => GracefulInv'
  BY GracefulStep DEF K!gracefulVars, gracefulVars
<1>3. GracefulInv => K!DrainComplete
  BY GracefulMeans
<1> QED BY <1>1, <1>2, <1>3, PTL DEF K!GracefulSpec

-----------------------------------------------------------------------------
(* The router. *)

LEMMA InOrderMeans ==
  ASSUME NEW line, NEW k, NEW first, NEW last
  PROVE  K!InOrder(line, k, first, last) <=>
           /\ \A i \in 1..Len(line) : line[i][1] = k => line[i][2] \in first + 1 .. last
           /\ \A n \in first + 1 .. last : \E i \in 1..Len(line) : line[i][1] = k /\ line[i][2] = n
           /\ \A i, j \in 1..Len(line) :
                line[i][1] = k /\ line[j][1] = k /\ i < j => line[i][2] < line[j][2]
  BY DEF K!InOrder

\* A message that joins the line of its partition is the next one of its key.
LEMMA JoinsInOrder ==
  ASSUME NEW line \in Seq(K!Messages), NEW m \in K!Messages, NEW k \in Key, MaxMessages \in Nat,
         NEW first \in Nat, NEW last \in Nat, first <= last,
         K!InOrder(line, k, first, last), m[1] = k => m[2] = last + 1
  PROVE  K!InOrder(Append(line, m), k, first, IF m[1] = k THEN last + 1 ELSE last)
<1> DEFINE joined == Append(line, m)
           top == IF m[1] = k THEN last + 1 ELSE last
<1>1. /\ Len(line) \in Nat /\ Len(joined) = Len(line) + 1 /\ joined[Len(line) + 1] = m
      /\ \A i \in 1..Len(line) : joined[i] = line[i]
  BY AppendProperties, LenProperties
<1>2. /\ \A i \in 1..Len(line) : line[i][1] = k => line[i][2] \in first + 1 .. last
      /\ \A n \in first + 1 .. last : \E i \in 1..Len(line) : line[i][1] = k /\ line[i][2] = n
      /\ \A i, j \in 1..Len(line) :
           line[i][1] = k /\ line[j][1] = k /\ i < j => line[i][2] < line[j][2]
  BY InOrderMeans
<1> HIDE DEF joined
<1>3. \A i \in 1..Len(joined) : i \in 1..Len(line) \/ i = Len(line) + 1
  BY <1>1
<1>4. \A i \in 1..Len(line) : i \in 1..Len(joined) /\ i < Len(line) + 1
  BY <1>1
<1>5. top \in Nat /\ last <= top /\ (m[1] = k => top = last + 1) /\ (m[1] # k => top = last)
  OBVIOUS
<1> HIDE DEF top
<1>6. \A i \in 1..Len(joined) : joined[i][1] = k => joined[i][2] \in first + 1 .. top
  BY <1>1, <1>2, <1>3, <1>5
<1>7. ASSUME NEW n \in first + 1 .. top
      PROVE  \E i \in 1..Len(joined) : joined[i][1] = k /\ joined[i][2] = n
  <2>1. CASE n = last + 1
    <3>1. m[1] = k
      BY <1>5, <2>1
    <3>2. Len(line) + 1 \in 1..Len(joined)
      BY <1>1
    <3> QED BY <1>1, <2>1, <3>1, <3>2
  <2>2. CASE n \in first + 1 .. last
    BY <1>1, <1>2, <1>4, <2>2
  <2> QED BY <1>5, <2>1, <2>2
<1>8. ASSUME NEW i \in 1..Len(joined), NEW j \in 1..Len(joined),
             joined[i][1] = k, joined[j][1] = k, i < j
      PROVE  joined[i][2] < joined[j][2]
  <2>1. i \in 1..Len(line) /\ joined[i] = line[i]
    BY <1>1, <1>8
  <2>2. line[i][2] \in first + 1 .. last
    BY <1>2, <1>8, <2>1
  <2>3. CASE j = Len(line) + 1
    <3>1. joined[j][2] = last + 1
      BY <1>1, <1>8, <2>3
    <3> QED BY <2>1, <2>2, <3>1
  <2>4. CASE j \in 1..Len(line)
    BY <1>1, <1>2, <1>8, <2>1, <2>4
  <2> QED BY <1>3, <2>3, <2>4
<1>9. K!InOrder(joined, k, first, top)
  BY <1>6, <1>7, <1>8, InOrderMeans
<1> QED BY <1>9 DEF joined, top

\* The first in line of a key is its next one to be handled.
LEMMA LeavesInOrder ==
  ASSUME NEW line \in Seq(K!Messages), line # <<>>, NEW k \in Key, MaxMessages \in Nat,
         NEW first \in Nat, NEW last \in Nat, first <= last,
         K!InOrder(line, k, first, last)
  PROVE  LET m == Head(line) IN
           /\ m[1] = k => m[2] = first + 1 /\ first + 1 <= last
           /\ K!InOrder(Tail(line), k, IF m[1] = k THEN first + 1 ELSE first, last)
<1> DEFINE m == Head(line)
           rest == Tail(line)
           base == IF m[1] = k THEN first + 1 ELSE first
<1>1. /\ Len(line) \in Nat /\ Len(line) > 0 /\ Len(rest) = Len(line) - 1 /\ line[1] = m
      /\ \A i \in 1..Len(rest) : rest[i] = line[i + 1]
  BY HeadTailProperties, LenProperties, EmptySeq
<1>2. /\ \A i \in 1..Len(line) : line[i][1] = k => line[i][2] \in first + 1 .. last
      /\ \A n \in first + 1 .. last : \E i \in 1..Len(line) : line[i][1] = k /\ line[i][2] = n
      /\ \A i, j \in 1..Len(line) :
           line[i][1] = k /\ line[j][1] = k /\ i < j => line[i][2] < line[j][2]
  BY InOrderMeans
<1> HIDE DEF m, rest
<1>3. 1 \in 1..Len(line) /\ \A i \in 1..Len(line) : i = 1 \/ 1 < i
  BY <1>1
<1>4. ASSUME m[1] = k PROVE m[2] = first + 1 /\ first + 1 <= last
  <2>1. m[2] \in first + 1 .. last
    BY <1>1, <1>2, <1>3, <1>4
  <2>2. PICK i \in 1..Len(line) : line[i][1] = k /\ line[i][2] = first + 1
    BY <1>2, <2>1
  <2>3. CASE i = 1
    BY <1>1, <2>1, <2>2, <2>3
  <2>4. CASE 1 < i
    <3>1. line[1][2] < line[i][2]
      BY <1>1, <1>2, <1>3, <1>4, <2>2, <2>4
    <3> QED BY <1>1, <2>1, <2>2, <3>1
  <2> QED BY <1>3, <2>3, <2>4
<1>5. \A i \in 1..Len(rest) : i + 1 \in 1..Len(line) /\ 1 < i + 1
  BY <1>1
<1>6. \A i \in 1..Len(line) : i # 1 => i - 1 \in 1..Len(rest) /\ rest[i - 1] = line[i]
  <2> SUFFICES ASSUME NEW i \in 1..Len(line), i # 1
               PROVE  i - 1 \in 1..Len(rest) /\ rest[i - 1] = line[i]
    OBVIOUS
  <2>1. i - 1 \in 1..Len(rest) /\ (i - 1) + 1 = i
    BY <1>1
  <2> QED BY <1>1, <2>1
<1>7. base \in Nat /\ (m[1] = k => base = first + 1) /\ (m[1] # k => base = first)
  OBVIOUS
<1> HIDE DEF base
<1>8. ASSUME NEW i \in 1..Len(rest), rest[i][1] = k PROVE rest[i][2] \in base + 1 .. last
  <2>1. line[i + 1][1] = k /\ i + 1 \in 1..Len(line) /\ rest[i] = line[i + 1] /\ 1 < i + 1
    BY <1>1, <1>5, <1>8
  <2>2. line[i + 1][2] \in first + 1 .. last
    BY <1>2, <2>1
  <2>3. ASSUME m[1] = k PROVE first + 1 < line[i + 1][2]
    <3>1. line[1][1] = k /\ line[1][2] = first + 1
      BY <1>1, <1>4, <2>3
    <3>2. line[1][2] < line[i + 1][2]
      BY <1>2, <1>3, <2>1, <3>1
    <3> QED BY <3>1, <3>2
  <2> QED BY <1>7, <2>1, <2>2, <2>3
<1>9. ASSUME NEW n \in base + 1 .. last
      PROVE  \E i \in 1..Len(rest) : rest[i][1] = k /\ rest[i][2] = n
  <2>1. n \in first + 1 .. last /\ (m[1] = k => n # first + 1)
    BY <1>7
  <2>2. PICK i \in 1..Len(line) : line[i][1] = k /\ line[i][2] = n
    BY <1>2, <2>1
  <2>3. i # 1
    BY <1>1, <1>4, <2>1, <2>2
  <2> QED BY <1>6, <2>2, <2>3
<1>10. ASSUME NEW i \in 1..Len(rest), NEW j \in 1..Len(rest), rest[i][1] = k, rest[j][1] = k, i < j
       PROVE  rest[i][2] < rest[j][2]
  <2>1. /\ rest[i] = line[i + 1] /\ rest[j] = line[j + 1] /\ i + 1 < j + 1
        /\ i + 1 \in 1..Len(line) /\ j + 1 \in 1..Len(line)
    <3>1. rest[i] = line[i + 1] /\ rest[j] = line[j + 1]
      BY <1>1
    <3>2. i + 1 \in 1..Len(line) /\ j + 1 \in 1..Len(line)
      BY <1>5
    <3>3. i + 1 < j + 1
      BY <1>10
    <3> QED BY <3>1, <3>2, <3>3
  <2> QED BY <1>2, <1>10, <2>1
<1>11. K!InOrder(rest, k, base, last)
  BY <1>8, <1>9, <1>10, InOrderMeans
<1> QED BY <1>4, <1>11 DEF m, rest, base
\* What was handled of a key is its first messages, and what is in line the next ones;
\* a message is in line at the partition of its key.
Handling ==
  \A k \in Key : (\A i \in 1..Len(log[k]) : log[k][i] = i) /\ Len(log[k]) <= routed[k]
Ordered == \A k \in Key : K!InOrder(K!Line(HashKey[k]), k, Len(log[k]), routed[k])
Placed ==
  \A p \in Partition : \A i \in 1..Len(K!Line(p)) : HashKey[K!Line(p)[i][1]] = p
OneInHand == \A p \in Partition : Len(hand[p]) <= 1
Drained ==
  \A p \in Partition :
    worker[p] = "returned" /\ rcancelled = FALSE => stop # "no" /\ queue[p] = <<>>

RouterInv == K!RouterTypeOK /\ Handling /\ Ordered /\ Placed /\ OneInHand /\ Drained

\* Handing a message from the channel to the worker leaves the line as it is.
LEMMA LineTaken ==
  ASSUME NEW S, NEW q \in Seq(S), q # <<>>
  PROVE  <<Head(q)>> \o Tail(q) = <<>> \o q
<1>1. /\ Head(q) \in S /\ Head(q) = q[1] /\ Tail(q) \in Seq(S) /\ Len(Tail(q)) = Len(q) - 1
      /\ Len(q) \in Nat /\ Len(q) > 0
      /\ \A i \in 1..Len(Tail(q)) : Tail(q)[i] = q[i + 1]
  BY HeadTailProperties, LenProperties, EmptySeq
<1> DEFINE h == <<Head(q)>>
           t == Tail(q)
<1>2. h \in Seq(S) /\ Len(h) = 1 /\ h[1] = q[1]
  BY <1>1
<1> HIDE DEF h, t
<1>3. t \in Seq(S) /\ Len(t) = Len(q) - 1 /\ \A i \in 1..Len(t) : t[i] = q[i + 1]
  BY <1>1 DEF t
<1>4. /\ h \o t \in Seq(S) /\ Len(h \o t) = Len(q)
      /\ \A i \in 1..Len(q) : (h \o t)[i] = IF i <= 1 THEN h[i] ELSE t[i - 1]
  <2>1. /\ h \o t \in Seq(S) /\ Len(h \o t) = Len(h) + Len(t)
        /\ \A i \in 1..Len(h) + Len(t) : (h \o t)[i] = IF i <= Len(h) THEN h[i] ELSE t[i - Len(h)]
    <3>1. h \in Seq(S) /\ t \in Seq(S)
      BY <1>2, <1>3
    <3> QED BY ONLY <3>1, ConcatProperties
  <2>2. Len(h) + Len(t) = Len(q)
    BY <1>1, <1>2, <1>3
  <2> QED BY <1>2, <2>1, <2>2
<1>5. ASSUME NEW i \in 1..Len(q) PROVE (h \o t)[i] = q[i]
  <2>1. CASE i = 1
    BY <1>2, <1>4, <2>1
  <2>2. CASE i # 1
    <3>1. i - 1 \in 1..Len(t) /\ (i - 1) + 1 = i /\ ~(i <= 1)
      BY <1>1, <1>3, <2>2
    <3> QED BY <1>3, <1>4, <3>1
  <2> QED BY <2>1, <2>2
<1>6. h \o t = q
  BY <1>1, <1>4, <1>5, SeqEqual
<1>7. <<>> \o q = q
  BY ConcatEmptySeq
<1> QED BY <1>6, <1>7 DEF h, t

\* The message in hand is the first in line.
LEMMA LineHandled ==
  ASSUME NEW S, NEW h \in Seq(S), NEW q \in Seq(S), h # <<>>, Len(h) <= 1
  PROVE  /\ h \o q \in Seq(S) /\ h \o q # <<>>
         /\ Head(h \o q) = Head(h) /\ Tail(h \o q) = <<>> \o q
<1> DEFINE l == h \o q
<1>1. Len(h) = 1 /\ Len(q) \in Nat
  <2>1. Len(h) \in Nat \ {0}
    BY EmptySeq
  <2>2. Len(q) \in Nat
    BY LenProperties
  <2>3. Len(h) <= 1
    OBVIOUS
  <2> QED BY ONLY <2>1, <2>2, <2>3
<1>2. /\ l \in Seq(S) /\ Len(l) = 1 + Len(q)
      /\ \A i \in 1..1 + Len(q) : l[i] = IF i <= 1 THEN h[i] ELSE q[i - 1]
  <2>1. /\ l \in Seq(S) /\ Len(l) = Len(h) + Len(q)
        /\ \A i \in 1..Len(h) + Len(q) : l[i] = IF i <= Len(h) THEN h[i] ELSE q[i - Len(h)]
    BY ConcatProperties
  <2> QED BY <1>1, <2>1
<1> HIDE DEF l
<1>3. l # <<>> /\ Head(l) = l[1] /\ l[1] = h[1] /\ Head(h) = h[1]
  BY <1>1, <1>2
<1>4. /\ Tail(l) \in Seq(S) /\ Len(Tail(l)) = Len(q)
      /\ \A i \in 1..Len(q) : Tail(l)[i] = l[i + 1]
  BY <1>1, <1>2, <1>3, HeadTailProperties
<1>5. ASSUME NEW i \in 1..Len(q) PROVE Tail(l)[i] = q[i]
  <2>1. i + 1 \in 1..1 + Len(q) /\ ~(i + 1 <= 1) /\ (i + 1) - 1 = i
    BY <1>1
  <2> QED BY <1>2, <1>4, <2>1
<1>6. Tail(l) = q
  BY <1>4, <1>5, SeqEqual
<1>7. <<>> \o q = q
  BY ConcatEmptySeq
<1> QED BY <1>2, <1>3, <1>6, <1>7 DEF l

\* A message sent to the channel is the last in line.
LEMMA LineJoined ==
  ASSUME NEW S, NEW h \in Seq(S), NEW q \in Seq(S), NEW last \in S
  PROVE  h \o Append(q, last) = Append(h \o q, last)
<1> DEFINE one == <<last>>
<1>1. one \in Seq(S)
  OBVIOUS
<1>2. Append(q, last) = q \o one
  BY AppendIsConcat
<1>3. h \o q \in Seq(S)
  BY ConcatProperties
<1>4. Append(h \o q, last) = (h \o q) \o one
  BY <1>3, AppendIsConcat
<1> HIDE DEF one
<1>5. (h \o q) \o one = h \o (q \o one)
  BY <1>1, ConcatAssociative
<1> QED BY <1>2, <1>4, <1>5

LEMMA RouteStep ==
  ASSUME K!ConsumerParameters, RouterInv, NEW k \in Key, K!Route(k)
  PROVE  RouterInv'
<1> DEFINE p == HashKey[k]
           m == <<k, routed[k] + 1>>
<1>1. K!RouterTypeOK /\ Handling /\ Ordered /\ Placed /\ OneInHand /\ Drained
  BY DEF RouterInv
<1>2. p \in Partition /\ MaxMessages \in Nat /\ \A j \in Key : HashKey[j] \in Partition
  BY DEF K!ConsumerParameters
<1>3. /\ stop = "no" /\ routed[k] < MaxMessages
      /\ routed' = [routed EXCEPT ![k] = @ + 1]
      /\ queue' = [queue EXCEPT ![p] = Append(@, m)]
      /\ hand' = hand /\ worker' = worker /\ stop' = stop /\ log' = log
  BY DEF K!Route
<1>4. rcancelled' = rcancelled
  BY DEF K!Route
<1>5. routed[k] \in Nat /\ routed[k] + 1 \in 1..MaxMessages /\ routed \in [Key -> 0..MaxMessages]
  BY <1>1, <1>2, <1>3 DEF K!RouterTypeOK
<1>6. m \in K!Messages /\ m[1] = k /\ m[2] = routed[k] + 1
  BY <1>5 DEF K!Messages
<1> HIDE DEF p, m
<1>7. \A q \in Partition : queue[q] \in Seq(K!Messages) /\ hand[q] \in Seq(K!Messages)
  BY <1>1 DEF K!RouterTypeOK
<1>8. /\ queue' \in [Partition -> Seq(K!Messages)]
      /\ \A q \in Partition : queue'[q] = IF q = p THEN Append(queue[p], m) ELSE queue[q]
  <2>1. Append(queue[p], m) \in Seq(K!Messages)
    BY <1>2, <1>6, <1>7, AppendProperties
  <2>2. queue \in [Partition -> Seq(K!Messages)]
    BY <1>1 DEF K!RouterTypeOK
  <2> QED BY <1>2, <1>3, <2>1, <2>2
<1>9. \A j \in Key : routed'[j] = IF j = k THEN routed[k] + 1 ELSE routed[j]
  BY <1>3, <1>5
<1>10. K!RouterTypeOK'
  <2>1. routed' \in [Key -> 0..MaxMessages]
    BY <1>2, <1>3, <1>5
  <2> QED BY <1>1, <1>3, <1>4, <1>8, <2>1 DEF K!RouterTypeOK
<1>11. \A q \in Partition : K!Line(q) \in Seq(K!Messages)
  BY <1>7, ConcatProperties DEF K!Line
<1>12. \A q \in Partition : K!Line(q)' = IF q = p THEN Append(K!Line(q), m) ELSE K!Line(q)
  <2> SUFFICES ASSUME NEW q \in Partition
               PROVE  K!Line(q)' = IF q = p THEN Append(K!Line(q), m) ELSE K!Line(q)
    OBVIOUS
  <2>1. CASE q = p
    <3>1. K!Line(q)' = hand[q] \o Append(queue[q], m)
      BY <1>3, <1>8, <2>1 DEF K!Line
    <3>2. hand[q] \o Append(queue[q], m) = Append(hand[q] \o queue[q], m)
      <4> DEFINE h == hand[q]
                 u == queue[q]
      <4>1. h \in Seq(K!Messages) /\ u \in Seq(K!Messages) /\ m \in K!Messages
        BY <1>6, <1>7
      <4> HIDE DEF h, u
      <4>2. h \o Append(u, m) = Append(h \o u, m)
        BY ONLY <4>1, LineJoined
      <4> QED BY <4>2 DEF h, u
    <3> QED BY <2>1, <3>1, <3>2 DEF K!Line
  <2>2. CASE q # p
    BY <1>3, <1>8, <2>2 DEF K!Line
  <2> QED BY <2>1, <2>2
<1>13. \A j \in Key : Len(log[j]) \in Nat /\ Len(log[j]) <= routed[j] /\ routed[j] \in Nat
  <2>1. \A j \in Key : log[j] \in Seq(1..MaxMessages) /\ routed[j] \in 0..MaxMessages
    BY <1>1 DEF K!RouterTypeOK
  <2> QED BY <1>1, <1>2, <2>1, LenProperties DEF Handling
<1>14. Ordered'
  <2> SUFFICES ASSUME NEW j \in Key
               PROVE  K!InOrder(K!Line(HashKey[j]), j, Len(log[j]), routed[j])'
    BY DEF Ordered
  <2> DEFINE line == K!Line(HashKey[j])
  <2>1. K!InOrder(line, j, Len(log[j]), routed[j]) /\ line \in Seq(K!Messages)
    BY <1>1, <1>2, <1>11 DEF Ordered
  <2>2. m[1] = j => m[2] = routed[j] + 1
    BY <1>6
  <2>3. line' = IF HashKey[j] = p THEN Append(line, m) ELSE line
    BY <1>2, <1>12
  <2> HIDE DEF line
  <2>4. K!InOrder(Append(line, m), j, Len(log[j]), IF m[1] = j THEN routed[j] + 1 ELSE routed[j])
    BY <1>2, <1>6, <1>13, <2>1, <2>2, JoinsInOrder
  <2>5. routed'[j] = IF m[1] = j THEN routed[j] + 1 ELSE routed[j]
    BY <1>6, <1>9
  <2>6. log'[j] = log[j]
    BY <1>3
  <2>7. CASE HashKey[j] = p
    <3>1. K!InOrder(line', j, Len(log'[j]), routed'[j])
      BY <2>3, <2>4, <2>5, <2>6, <2>7
    <3> QED BY <3>1 DEF line, K!InOrder
  <2>8. CASE HashKey[j] # p
    <3>1. m[1] # j
      BY <1>6, <2>8 DEF p
    <3>2. K!InOrder(line', j, Len(log'[j]), routed'[j])
      BY <2>1, <2>3, <2>5, <2>6, <2>8, <3>1
    <3> QED BY <3>2 DEF line, K!InOrder
  <2> QED BY <2>7, <2>8
<1>15. Placed'
  <2> SUFFICES ASSUME NEW q \in Partition, NEW i \in 1..Len(K!Line(q)')
               PROVE  HashKey[K!Line(q)'[i][1]] = q
    BY DEF Placed
  <2>1. CASE q = p
    <3>1. /\ Len(K!Line(q)) \in Nat /\ Len(K!Line(q)') = Len(K!Line(q)) + 1
          /\ K!Line(q)'[Len(K!Line(q)) + 1] = m
          /\ \A n \in 1..Len(K!Line(q)) : K!Line(q)'[n] = K!Line(q)[n]
      BY <1>6, <1>11, <1>12, <2>1, AppendProperties, LenProperties
    <3>2. CASE i = Len(K!Line(q)) + 1
      BY <1>6, <2>1, <3>1, <3>2 DEF p
    <3>3. CASE i \in 1..Len(K!Line(q))
      BY <1>1, <3>1, <3>3 DEF Placed
    <3>4. i \in 1..Len(K!Line(q)) \/ i = Len(K!Line(q)) + 1
      BY <3>1
    <3> QED BY <3>2, <3>3, <3>4
  <2>2. CASE q # p
    BY <1>1, <1>12, <2>2 DEF Placed
  <2> QED BY <2>1, <2>2
<1>16. Handling'
  BY <1>1, <1>3, <1>9, <1>13 DEF Handling
<1>17. OneInHand'
  BY <1>1, <1>3 DEF OneInHand
<1>18. Drained'
  BY <1>1, <1>3, <1>4 DEF Drained
<1> QED BY <1>10, <1>14, <1>15, <1>16, <1>17, <1>18 DEF RouterInv

\* Where the lines, the counts and the logs stay as they are, so does their order.
LEMMA LinesKept ==
  ASSUME K!RouterTypeOK, Ordered, Placed, \A k \in Key : HashKey[k] \in Partition,
         routed' = routed, log' = log,
         \A q \in Partition : K!Line(q)' = K!Line(q)
  PROVE  Ordered' /\ Placed'
<1>1. ASSUME NEW k \in Key
      PROVE  K!InOrder(K!Line(HashKey[k]), k, Len(log[k]), routed[k])'
  <2>1. K!Line(HashKey[k])' = K!Line(HashKey[k]) /\ log'[k] = log[k] /\ routed'[k] = routed[k]
    OBVIOUS
  <2>2. K!InOrder(K!Line(HashKey[k]), k, Len(log[k]), routed[k])
    BY DEF Ordered
  <2> QED BY <2>1, <2>2 DEF K!InOrder
<1>2. Ordered'
  BY <1>1 DEF Ordered
<1>3. Placed'
  BY DEF Placed
<1> QED BY <1>2, <1>3

\* The worker receives: the line does not change.
LEMMA TakesStep ==
  ASSUME K!ConsumerParameters, RouterInv, NEW p \in Partition, K!Takes(p)
  PROVE  RouterInv'
<1> DEFINE m == Head(queue[p])
<1>1. K!RouterTypeOK /\ Handling /\ Ordered /\ Placed /\ OneInHand /\ Drained
  BY DEF RouterInv
<1>2. /\ worker[p] = "running" /\ hand[p] = <<>> /\ queue[p] # <<>>
      /\ hand' = [hand EXCEPT ![p] = <<m>>]
      /\ queue' = [queue EXCEPT ![p] = Tail(queue[p])]
      /\ worker' = worker /\ stop' = stop /\ routed' = routed /\ log' = log
  BY DEF K!Takes, K!TakeOldest
<1>3. rcancelled' = rcancelled
  BY DEF K!Takes
<1>4. /\ queue \in [Partition -> Seq(K!Messages)] /\ hand \in [Partition -> Seq(K!Messages)]
      /\ \A q \in Partition : queue[q] \in Seq(K!Messages)
  BY <1>1 DEF K!RouterTypeOK
<1>5. m \in K!Messages /\ Tail(queue[p]) \in Seq(K!Messages)
  <2>1. queue[p] \in Seq(K!Messages) /\ queue[p] # <<>>
    BY <1>2, <1>4
  <2> QED BY ONLY <2>1, HeadTailProperties
<1>6. <<m>> \o Tail(queue[p]) = <<>> \o queue[p]
  <2>1. queue[p] \in Seq(K!Messages) /\ queue[p] # <<>>
    BY <1>2, <1>4
  <2> QED BY ONLY <2>1, LineTaken
<1> DEFINE one == <<m>>
<1>7. one \in Seq(K!Messages) /\ Len(one) = 1
  BY <1>5
<1> HIDE DEF one, m
<1>8. /\ \A q \in Partition : hand'[q] = IF q = p THEN one ELSE hand[q]
      /\ \A q \in Partition : queue'[q] = IF q = p THEN Tail(queue[p]) ELSE queue[q]
      /\ queue' \in [Partition -> Seq(K!Messages)] /\ hand' \in [Partition -> Seq(K!Messages)]
  BY <1>2, <1>4, <1>5, <1>7 DEF one
<1>9. \A q \in Partition : K!Line(q)' = K!Line(q)
  <2> SUFFICES ASSUME NEW q \in Partition PROVE K!Line(q)' = K!Line(q)
    OBVIOUS
  <2>1. CASE q = p
    BY <1>2, <1>6, <1>8, <2>1 DEF K!Line, one
  <2>2. CASE q # p
    BY <1>8, <2>2 DEF K!Line
  <2> QED BY <2>1, <2>2
<1>10. K!RouterTypeOK'
  BY <1>1, <1>2, <1>3, <1>8 DEF K!RouterTypeOK
<1>11. OneInHand'
  <2> SUFFICES ASSUME NEW q \in Partition PROVE Len(hand'[q]) <= 1
    BY DEF OneInHand
  <2>1. CASE q = p
    <3>1. Len(hand'[q]) = 1
      BY <1>7, <1>8, <2>1
    <3> QED BY <3>1
  <2>2. CASE q # p
    <3>1. hand'[q] = hand[q] /\ Len(hand[q]) <= 1
      BY <1>1, <1>8, <2>2 DEF OneInHand
    <3> QED BY <3>1
  <2> QED BY <2>1, <2>2
<1>12. Drained'
  BY <1>1, <1>2, <1>3, <1>8 DEF Drained
<1>13. Handling'
  BY <1>1, <1>2 DEF Handling
<1>14. \A k \in Key : HashKey[k] \in Partition
  BY DEF K!ConsumerParameters
<1>15. Ordered' /\ Placed'
  BY <1>1, <1>2, <1>9, <1>14, LinesKept
<1> QED BY <1>10, <1>11, <1>12, <1>13, <1>15 DEF RouterInv

\* The handler returns: the first in line is the next one of its key to be logged.
LEMMA HandledStep ==
  ASSUME K!ConsumerParameters, RouterInv, NEW p \in Partition, K!Handled(p)
  PROVE  RouterInv'
<1> DEFINE m == Head(hand[p])
           line == K!Line(p)
<1>1. K!RouterTypeOK /\ Handling /\ Ordered /\ Placed /\ OneInHand /\ Drained
  BY DEF RouterInv
<1>2. /\ hand[p] # <<>> /\ hand' = [hand EXCEPT ![p] = <<>>]
      /\ log' = [log EXCEPT ![m[1]] = Append(log[m[1]], m[2])]
      /\ queue' = queue /\ worker' = worker /\ stop' = stop /\ routed' = routed
  BY DEF K!Handled
<1>3. rcancelled' = rcancelled
  BY DEF K!Handled
<1>4. /\ queue \in [Partition -> Seq(K!Messages)] /\ hand \in [Partition -> Seq(K!Messages)]
      /\ hand[p] \in Seq(K!Messages) /\ queue[p] \in Seq(K!Messages) /\ Len(hand[p]) <= 1
      /\ log \in [Key -> Seq(1..MaxMessages)] /\ routed \in [Key -> 0..MaxMessages]
  BY <1>1 DEF K!RouterTypeOK, OneInHand
<1>5. /\ hand[p] \o queue[p] \in Seq(K!Messages) /\ hand[p] \o queue[p] # <<>>
      /\ Head(hand[p] \o queue[p]) = m /\ Tail(hand[p] \o queue[p]) = <<>> \o queue[p]
  <2>1. hand[p] \in Seq(K!Messages) /\ queue[p] \in Seq(K!Messages) /\ hand[p] # <<>>
        /\ Len(hand[p]) <= 1
    BY <1>2, <1>4
  <2> QED BY ONLY <2>1, LineHandled DEF m
<1>6. /\ line \in Seq(K!Messages) /\ line # <<>> /\ Head(line) = m
      /\ Tail(line) = <<>> \o queue[p]
  BY <1>5 DEF K!Line
<1>7. /\ m \in K!Messages /\ Len(line) \in Nat \ {0} /\ Len(Tail(line)) = Len(line) - 1
      /\ \A i \in 1..Len(Tail(line)) : Tail(line)[i] = line[i + 1]
  <2>1. line \in Seq(K!Messages) /\ line # <<>> /\ Head(line) = m
    BY <1>6
  <2> QED BY ONLY <2>1, HeadTailProperties, EmptySeq
<1> HIDE DEF m
<1>8. m[1] \in Key /\ m[2] \in 1..MaxMessages
  BY <1>7 DEF K!Messages
<1>9. \A q \in Partition : K!Line(q)' = IF q = p THEN Tail(K!Line(p)) ELSE K!Line(q)
  <2> SUFFICES ASSUME NEW q \in Partition
               PROVE  K!Line(q)' = IF q = p THEN Tail(K!Line(p)) ELSE K!Line(q)
    OBVIOUS
  <2>1. CASE q = p
    BY <1>2, <1>4, <1>6, <2>1 DEF K!Line
  <2>2. CASE q # p
    BY <1>2, <1>4, <2>2 DEF K!Line
  <2> QED BY <2>1, <2>2
<1>10. HashKey[m[1]] = p
  <2>1. 1 \in 1..Len(line) /\ line[1] = m
    BY <1>6, <1>7
  <2> QED BY <1>1, <2>1 DEF Placed
<1>11. MaxMessages \in Nat /\ \A j \in Key : HashKey[j] \in Partition
  BY DEF K!ConsumerParameters
<1>12. \A j \in Key : /\ log[j] \in Seq(1..MaxMessages) /\ routed[j] \in Nat
                      /\ Len(log[j]) \in Nat /\ Len(log[j]) <= routed[j]
  <2>1. \A j \in Key : log[j] \in Seq(1..MaxMessages) /\ routed[j] \in Nat
    BY <1>4, <1>11
  <2>2. \A j \in Key : Len(log[j]) \in Nat
    BY <2>1, LenProperties
  <2> QED BY <1>1, <2>1, <2>2 DEF Handling
<1>13. \A j \in Key : log'[j] = IF j = m[1] THEN Append(log[j], m[2]) ELSE log[j]
  BY <1>2, <1>4, <1>8
<1>14. \A j \in Key : /\ log'[j] \in Seq(1..MaxMessages)
                      /\ Len(log'[j]) = IF m[1] = j THEN Len(log[j]) + 1 ELSE Len(log[j])
                      /\ \A i \in 1..Len(log[j]) : log'[j][i] = log[j][i]
                      /\ m[1] = j => log'[j][Len(log[j]) + 1] = m[2]
  <2> SUFFICES ASSUME NEW j \in Key
               PROVE  /\ log'[j] \in Seq(1..MaxMessages)
                      /\ Len(log'[j]) = IF m[1] = j THEN Len(log[j]) + 1 ELSE Len(log[j])
                      /\ \A i \in 1..Len(log[j]) : log'[j][i] = log[j][i]
                      /\ m[1] = j => log'[j][Len(log[j]) + 1] = m[2]
    OBVIOUS
  <2>1. CASE m[1] = j
    <3>1. log'[j] = Append(log[j], m[2])
      BY <1>13, <2>1
    <3>2. log[j] \in Seq(1..MaxMessages) /\ m[2] \in 1..MaxMessages
      BY <1>8, <1>12
    <3>3. /\ Append(log[j], m[2]) \in Seq(1..MaxMessages)
          /\ Len(Append(log[j], m[2])) = Len(log[j]) + 1
          /\ \A i \in 1..Len(log[j]) : Append(log[j], m[2])[i] = log[j][i]
          /\ Append(log[j], m[2])[Len(log[j]) + 1] = m[2]
      BY ONLY <3>2, AppendProperties
    <3> QED BY <2>1, <3>1, <3>3
  <2>2. CASE m[1] # j
    BY <1>12, <1>13, <2>2
  <2> QED BY <2>1, <2>2
<1>15. K!RouterTypeOK'
  <2>1. log' \in [Key -> Seq(1..MaxMessages)]
    <3>1. DOMAIN log' = Key /\ log' = [j \in Key |-> log'[j]]
      BY <1>2, <1>4
    <3> QED BY <1>14, <3>1
  <2>2. hand' \in [Partition -> Seq(K!Messages)]
    <3>1. <<>> \in Seq(K!Messages)
      BY EmptySeq
    <3> QED BY <1>2, <1>4, <3>1
  <2> QED BY <1>1, <1>2, <1>3, <2>1, <2>2 DEF K!RouterTypeOK
<1>16. ASSUME NEW j \in Key, HashKey[j] = p
       PROVE  /\ m[1] = j => m[2] = Len(log[j]) + 1 /\ Len(log[j]) + 1 <= routed[j]
              /\ K!InOrder(Tail(line), j, Len(log'[j]), routed[j])
  <2>1. /\ K!InOrder(line, j, Len(log[j]), routed[j]) /\ line \in Seq(K!Messages) /\ line # <<>>
        /\ Head(line) = m
    BY <1>1, <1>6, <1>16 DEF Ordered
  <2> HIDE DEF line
  <2>2. /\ m[1] = j => m[2] = Len(log[j]) + 1 /\ Len(log[j]) + 1 <= routed[j]
        /\ K!InOrder(Tail(line), j, IF m[1] = j THEN Len(log[j]) + 1 ELSE Len(log[j]), routed[j])
    BY <1>11, <1>12, <2>1, LeavesInOrder
  <2> QED BY <1>14, <2>2
<1>17. Handling'
  <2> SUFFICES ASSUME NEW j \in Key
               PROVE  (\A i \in 1..Len(log'[j]) : log'[j][i] = i) /\ Len(log'[j]) <= routed[j]
    BY <1>2 DEF Handling
  <2>1. \A i \in 1..Len(log[j]) : log[j][i] = i
    BY <1>1 DEF Handling
  <2>2. CASE m[1] = j
    <3>1. m[2] = Len(log[j]) + 1 /\ Len(log[j]) + 1 <= routed[j]
      BY <1>10, <1>16, <2>2
    <3>2. /\ Len(log'[j]) = Len(log[j]) + 1 /\ log'[j][Len(log[j]) + 1] = Len(log[j]) + 1
          /\ \A i \in 1..Len(log[j]) : log'[j][i] = i
      BY <1>14, <2>1, <2>2, <3>1
    <3>3. \A i \in 1..Len(log[j]) + 1 : i \in 1..Len(log[j]) \/ i = Len(log[j]) + 1
      BY <1>12
    <3> QED BY <3>1, <3>2, <3>3
  <2>3. CASE m[1] # j
    BY <1>12, <1>13, <2>1, <2>3
  <2> QED BY <2>2, <2>3
<1>18. Ordered'
  <2> SUFFICES ASSUME NEW j \in Key
               PROVE  K!InOrder(K!Line(HashKey[j]), j, Len(log[j]), routed[j])'
    BY DEF Ordered
  <2>1. HashKey[j] \in Partition /\ routed'[j] = routed[j]
    BY <1>2, <1>11
  <2>2. CASE HashKey[j] = p
    <3>1. K!Line(HashKey[j])' = Tail(line)
      BY <1>9, <2>1, <2>2
    <3>2. K!InOrder(Tail(line), j, Len(log'[j]), routed'[j])
      BY <1>16, <2>1, <2>2
    <3> HIDE DEF line
    <3>3. K!InOrder(K!Line(HashKey[j])', j, Len(log'[j]), routed'[j])
      BY <3>1, <3>2
    <3> QED BY <3>3 DEF K!InOrder
  <2>3. CASE HashKey[j] # p
    <3>1. m[1] # j /\ K!Line(HashKey[j])' = K!Line(HashKey[j])
      BY <1>9, <1>10, <2>1, <2>3
    <3>2. log'[j] = log[j]
      BY <1>13, <3>1
    <3>3. K!InOrder(K!Line(HashKey[j]), j, Len(log[j]), routed[j])
      BY <1>1 DEF Ordered
    <3> QED BY <2>1, <3>1, <3>2, <3>3 DEF K!InOrder
  <2> QED BY <2>2, <2>3
<1>19. Placed'
  <2> SUFFICES ASSUME NEW q \in Partition, NEW i \in 1..Len(K!Line(q)')
               PROVE  HashKey[K!Line(q)'[i][1]] = q
    BY DEF Placed
  <2>1. CASE q = p
    <3>1. K!Line(q)' = Tail(line)
      BY <1>9, <2>1
    <3>2. i + 1 \in 1..Len(line) /\ Tail(line)[i] = line[i + 1]
      BY <1>7, <3>1
    <3> QED BY <1>1, <2>1, <3>1, <3>2 DEF Placed
  <2>2. CASE q # p
    BY <1>1, <1>9, <2>2 DEF Placed
  <2> QED BY <2>1, <2>2
<1>20. OneInHand'
  BY <1>1, <1>2, <1>4, EmptySeq DEF OneInHand
<1>21. Drained'
  BY <1>1, <1>2, <1>3 DEF Drained
<1> QED BY <1>15, <1>17, <1>18, <1>19, <1>20, <1>21 DEF RouterInv

LEMMA RouterStep ==
  ASSUME K!ConsumerParameters, RouterInv, [K!RouterNext]_routerVars
  PROVE  RouterInv'
<1>1. /\ K!RouterTypeOK /\ Handling /\ Ordered /\ Placed /\ OneInHand /\ Drained
      /\ \A k \in Key : HashKey[k] \in Partition
  BY DEF RouterInv, K!ConsumerParameters
<1>2. ASSUME queue' = queue, hand' = hand, routed' = routed, log' = log
      PROVE  Ordered' /\ Placed' /\ Handling' /\ OneInHand'
  <2>1. \A q \in Partition : K!Line(q)' = K!Line(q)
    BY <1>2 DEF K!Line
  <2>2. Ordered' /\ Placed'
    BY <1>1, <1>2, <2>1, LinesKept
  <2> QED BY <1>1, <1>2, <2>2 DEF Handling, OneInHand
<1>3. CASE \E k \in Key : K!Route(k)
  BY <1>3, RouteStep
<1>4. CASE \E p \in Partition : K!Takes(p) \/ K!Handled(p)
  BY <1>4, TakesStep, HandledStep
<1>5. ASSUME NEW p \in Partition, K!PartitionReturns(p) PROVE RouterInv'
  <2>1. /\ queue' = queue /\ hand' = hand /\ routed' = routed /\ log' = log /\ stop' = stop
        /\ worker' = [worker EXCEPT ![p] = "returned"]
    BY <1>5 DEF K!PartitionReturns
  <2>2. rcancelled' = rcancelled /\ (rcancelled = FALSE => stop # "no" /\ queue[p] = <<>>)
    BY <1>5 DEF K!PartitionReturns, K!Ends
  <2>3. worker' \in [Partition -> {"running", "returned"}]
        /\ \A q \in Partition : q # p => worker'[q] = worker[q]
    BY <1>1, <2>1 DEF K!RouterTypeOK
  <2>4. K!RouterTypeOK'
    BY <1>1, <2>1, <2>2, <2>3 DEF K!RouterTypeOK
  <2>5. Drained'
    BY <1>1, <2>1, <2>2, <2>3 DEF Drained
  <2> QED BY <1>2, <2>1, <2>4, <2>5 DEF RouterInv
<1>6. CASE K!StopCalled
  <2>1. /\ queue' = queue /\ hand' = hand /\ routed' = routed /\ log' = log /\ stop' = "waiting"
        /\ worker' = worker
    BY <1>6 DEF K!StopCalled
  <2>2. rcancelled' = rcancelled
    BY <1>6 DEF K!StopCalled
  <2>3. K!RouterTypeOK' /\ Drained'
    BY <1>1, <2>1, <2>2 DEF K!RouterTypeOK, Drained
  <2> QED BY <1>2, <2>1, <2>3 DEF RouterInv
<1>7. CASE K!StopReturns \/ K!RouterCancelled
  <2>1. /\ queue' = queue /\ hand' = hand /\ routed' = routed /\ log' = log
        /\ worker' = worker /\ stop' \in {stop, "returned"}
    BY <1>7 DEF K!StopReturns, K!RouterCancelled
  <2>2. rcancelled' = TRUE
    BY <1>7 DEF K!StopReturns, K!RouterCancelled
  <2>3. K!RouterTypeOK' /\ Drained'
    BY <1>1, <2>1, <2>2 DEF K!RouterTypeOK, Drained
  <2> QED BY <1>2, <2>1, <2>3 DEF RouterInv
<1>8. CASE UNCHANGED routerVars
  <2>1. queue' = queue /\ hand' = hand /\ routed' = routed /\ log' = log /\ stop' = stop
        /\ worker' = worker
    BY <1>8 DEF routerVars
  <2>2. rcancelled' = rcancelled
    BY <1>8 DEF routerVars
  <2>3. K!RouterTypeOK' /\ Drained'
    BY <1>1, <2>1, <2>2 DEF K!RouterTypeOK, Drained
  <2> QED BY <1>2, <2>1, <2>3 DEF RouterInv
<1> QED BY <1>3, <1>4, <1>5, <1>6, <1>7, <1>8 DEF K!RouterNext

\* At the start nothing is in line.
LEMMA RouterStarts ==
  ASSUME K!ConsumerParameters, K!RouterInit
  PROVE  RouterInv
<1> DEFINE none == <<>>
<1>1. none \in Seq(K!Messages) /\ none \in Seq(1..MaxMessages) /\ Len(none) = 0
  BY EmptySeq
<1>2. none \o none = none
  BY <1>1, ConcatEmptySeq
<1> HIDE DEF none
<1>3. /\ queue = [p \in Partition |-> none] /\ hand = [p \in Partition |-> none]
      /\ worker = [p \in Partition |-> "running"] /\ stop = "no"
      /\ routed = [k \in Key |-> 0] /\ log = [k \in Key |-> none]
      /\ MaxMessages \in Nat /\ HashKey \in [Key -> Partition]
  BY DEF K!RouterInit, K!ConsumerParameters, none
<1>4. rcancelled = FALSE
  BY DEF K!RouterInit
<1>5. \A p \in Partition : K!Line(p) = none
  BY <1>2, <1>3 DEF K!Line
<1>6. K!RouterTypeOK
  <2>1. /\ queue \in [Partition -> Seq(K!Messages)] /\ hand \in [Partition -> Seq(K!Messages)]
        /\ log \in [Key -> Seq(1..MaxMessages)]
    BY <1>1, <1>3
  <2>2. /\ worker \in [Partition -> {"running", "returned"}]
        /\ stop \in {"no", "waiting", "returned"} /\ routed \in [Key -> 0..MaxMessages]
    BY <1>3
  <2> QED BY <1>4, <2>1, <2>2 DEF K!RouterTypeOK
<1>7. Handling /\ OneInHand /\ Placed /\ Drained
  <2>1. \A k \in Key : log[k] = none /\ routed[k] = 0
    BY <1>3
  <2>2. Handling
    BY <1>1, <2>1 DEF Handling
  <2>3. OneInHand /\ Drained
    BY <1>1, <1>3 DEF OneInHand, Drained
  <2>4. Placed
    BY <1>1, <1>5 DEF Placed
  <2> QED BY <2>2, <2>3, <2>4
<1>8. Ordered
  <2> SUFFICES ASSUME NEW k \in Key
               PROVE  K!InOrder(K!Line(HashKey[k]), k, Len(log[k]), routed[k])
    BY DEF Ordered
  <2>1. K!Line(HashKey[k]) = none /\ Len(log[k]) = 0 /\ routed[k] = 0
    BY <1>1, <1>3, <1>5
  <2>2. K!InOrder(none, k, 0, 0)
    BY <1>1 DEF K!InOrder
  <2> QED BY <2>1, <2>2
<1> QED BY <1>6, <1>7, <1>8 DEF RouterInv

LEMMA RouterMeans ==
  ASSUME RouterInv
  PROVE  K!PerKeyFifo /\ K!StopDrains
  BY DEF RouterInv, Handling, Ordered, Drained, K!PerKeyFifo, K!StopDrains

\* For every number of keys, partitions and messages, however keys hash and whenever
\* the context is cancelled: what was handled of a key, then what its worker has in
\* hand, then what is queued, is what was routed, in order; and a worker that returned
\* without a cancellation left nothing queued.
THEOREM RouterKeepsOrder ==
  ASSUME K!ConsumerParameters
  PROVE  K!RouterSpec => [](K!PerKeyFifo /\ K!StopDrains)
<1>1. RouterInv => K!PerKeyFifo /\ K!StopDrains
  BY RouterMeans
<1>2. RouterInv /\ [K!RouterNext]_(K!routerVars) => RouterInv'
  BY RouterStep DEF K!routerVars, routerVars
<1>3. K!RouterInit => RouterInv
  BY RouterStarts
<1> QED BY <1>1, <1>2, <1>3, PTL DEF K!RouterSpec
-----------------------------------------------------------------------------
(* Requests that are tried again. *)

Owners == {"locked", "executed", "died"}

CallTyped ==
  /\ stage \in [Client -> {"idle", "check", "send", "awaits", "backoff", "succeeded", "failed"}]
  /\ attempt \in [Client -> 0..MaxTries] /\ givenUp \subseteq Client
  /\ request \in [D!Attempt -> {"none", "sent", "locked", "executed", "answered", "conflict",
                                 "died"}]
  /\ keyLocked \in BOOLEAN /\ cache \in D!Attempt \cup {D!NoRequest}
  /\ response \in [Client -> D!Attempt \cup {D!NoRequest}]
  /\ late \in [Client -> {0, 1}] /\ executed \in {0, 1}

\* The key is locked by one request, until its response is kept.
KeyOwned ==
  /\ \A q \in D!Attempt : request[q] \in Owners => keyLocked = TRUE
  /\ \A q, r \in D!Attempt : request[q] \in Owners /\ request[r] \in Owners => q = r
  /\ keyLocked = TRUE => \E q \in D!Attempt : request[q] \in Owners
  /\ keyLocked = TRUE => cache = D!NoRequest

\* The operation has run when a response is kept, and has not when the key is free.
Ran ==
  /\ cache # D!NoRequest => executed = 1
  /\ keyLocked = FALSE /\ cache = D!NoRequest => executed = 0
  /\ \A q \in D!Attempt : /\ request[q] = "locked" => executed = 0
                          /\ request[q] = "executed" => executed = 1
                          /\ request[q] = "answered" => cache # D!NoRequest

Answered ==
  \A c \in Client : stage[c] = "succeeded" => response[c] = cache /\ cache # D!NoRequest

\* No request was sent for an attempt that has not begun.
Sending == {"idle", "check", "send"}
Unsent ==
  \A c \in Client :
    /\ stage[c] = "idle" <=> attempt[c] = 0
    /\ stage[c] = "backoff" => attempt[c] < MaxTries
    /\ \A n \in 1..MaxTries :
         (IF stage[c] \in Sending THEN n >= attempt[c] ELSE n > attempt[c])
           => request[<<c, n>>] = "none"

\* A client whose context is done checks it before another attempt.
Overdue == \A c \in Client : late[c] = 1 => c \in givenUp /\ stage[c] \notin {"idle", "send"}

RetryInv == CallTyped /\ KeyOwned /\ Ran /\ Answered /\ Unsent /\ Overdue

\* A client goes on without sending or receiving.
LEMMA LoopGoes ==
  ASSUME D!RetryParameters, RetryInv, NEW c \in Client,
         D!Call(c) \/ D!Cancel(c) \/ D!Check(c) \/ D!Fail(c) \/ D!FailForGood(c)
           \/ D!Elapse(c) \/ D!AbortBackoff(c)
  PROVE  RetryInv'
<1>1. CallTyped /\ KeyOwned /\ Ran /\ Answered /\ Unsent /\ Overdue /\ MaxTries \in Nat \ {0}
      /\ Cancellable \subseteq Client
  BY DEF RetryInv, D!RetryParameters
<1>2. /\ request' = request /\ cache' = cache /\ executed' = executed /\ response' = response
      /\ late' = late
  BY DEF D!Call, D!Cancel, D!Check, D!Fail, D!FailForGood, D!Elapse, D!AbortBackoff, D!storeVars
<1>3. keyLocked' = keyLocked
  BY DEF D!Call, D!Cancel, D!Check, D!Fail, D!FailForGood, D!Elapse, D!AbortBackoff, D!storeVars
<1>4. givenUp \subseteq givenUp' /\ givenUp' \subseteq Client
  BY <1>1 DEF D!Call, D!Cancel, D!Check, D!Fail, D!FailForGood, D!Elapse, D!AbortBackoff,
              CallTyped
<1>5. \E s \in {"idle", "check", "send", "awaits", "backoff", "succeeded", "failed"} :
        /\ stage' = [stage EXCEPT ![c] = s]
        /\ s = stage[c] \/ s \in {"check", "send", "backoff", "failed"}
        /\ \/ s = stage[c] /\ attempt' = attempt
           \/ stage[c] = "idle" /\ s = "check" /\ attempt' = [attempt EXCEPT ![c] = 1]
           \/ stage[c] = "backoff" /\ s = "check"
              /\ attempt' = [attempt EXCEPT ![c] = attempt[c] + 1]
           \/ stage[c] = "check" /\ s = "send" /\ c \notin givenUp /\ attempt' = attempt
           \/ stage[c] = "awaits" /\ s = "backoff" /\ attempt[c] < MaxTries /\ attempt' = attempt
           \/ stage[c] # "idle" /\ s = "failed" /\ attempt' = attempt
  <2>1. stage \in [Client -> {"idle", "check", "send", "awaits", "backoff", "succeeded", "failed"}]
        /\ attempt[c] \in Nat
    BY <1>1 DEF CallTyped
  <2>2. CASE D!Call(c)
    BY <2>1, <2>2 DEF D!Call, D!Goes
  <2>3. CASE D!Cancel(c)
    <3>1. stage' = [stage EXCEPT ![c] = stage[c]] /\ attempt' = attempt
      BY <2>1, <2>3 DEF D!Cancel
    <3> QED BY <2>1, <3>1
  <2>4. CASE D!Check(c)
    BY <2>1, <2>4 DEF D!Check, D!Goes
  <2>5. CASE D!Fail(c)
    <3>1. CASE attempt[c] >= MaxTries
      BY <2>1, <2>5, <3>1 DEF D!Fail, D!Goes
    <3>2. CASE attempt[c] < MaxTries
      BY <1>1, <2>1, <2>5, <3>2 DEF D!Fail, D!Goes
    <3> QED BY <1>1, <2>1, <3>1, <3>2
  <2>6. CASE D!FailForGood(c) \/ D!AbortBackoff(c)
    BY <2>1, <2>6 DEF D!FailForGood, D!AbortBackoff, D!Goes
  <2>7. CASE D!Elapse(c)
    BY <2>1, <2>7 DEF D!Elapse, D!Goes
  <2> QED BY <2>2, <2>3, <2>4, <2>5, <2>6, <2>7
<1>6. PICK s \in {"idle", "check", "send", "awaits", "backoff", "succeeded", "failed"} :
        /\ stage' = [stage EXCEPT ![c] = s]
        /\ s = stage[c] \/ s \in {"check", "send", "backoff", "failed"}
        /\ \/ s = stage[c] /\ attempt' = attempt
           \/ stage[c] = "idle" /\ s = "check" /\ attempt' = [attempt EXCEPT ![c] = 1]
           \/ stage[c] = "backoff" /\ s = "check"
              /\ attempt' = [attempt EXCEPT ![c] = attempt[c] + 1]
           \/ stage[c] = "check" /\ s = "send" /\ c \notin givenUp /\ attempt' = attempt
           \/ stage[c] = "awaits" /\ s = "backoff" /\ attempt[c] < MaxTries /\ attempt' = attempt
           \/ stage[c] # "idle" /\ s = "failed" /\ attempt' = attempt
  BY <1>5
<1>7. /\ stage' \in [Client -> {"idle", "check", "send", "awaits", "backoff", "succeeded", "failed"}]
      /\ stage'[c] = s /\ \A d \in Client : d # c => stage'[d] = stage[d]
      /\ \A d \in Client : d # c => attempt'[d] = attempt[d]
  BY <1>1, <1>6 DEF CallTyped
<1>8. attempt[c] \in 0..MaxTries /\ (stage[c] = "backoff" => attempt[c] < MaxTries)
  BY <1>1 DEF CallTyped, Unsent
<1>9. attempt' \in [Client -> 0..MaxTries]
  BY <1>1, <1>6, <1>8 DEF CallTyped
<1>10. CallTyped'
  BY <1>1, <1>2, <1>3, <1>4, <1>7, <1>9 DEF CallTyped
<1>11. KeyOwned' /\ Ran'
  BY <1>1, <1>2, <1>3 DEF KeyOwned, Ran
<1>12. Answered'
  BY <1>1, <1>2, <1>6, <1>7 DEF Answered
<1>13. Overdue'
  <2> SUFFICES ASSUME NEW d \in Client, late[d] = 1
               PROVE  d \in givenUp' /\ stage'[d] \notin {"idle", "send"}
    BY <1>2 DEF Overdue
  <2>1. d \in givenUp /\ stage[d] \notin {"idle", "send"}
    BY <1>1 DEF Overdue
  <2>2. CASE d = c
    BY <1>4, <1>6, <1>7, <2>1, <2>2
  <2>3. CASE d # c
    BY <1>4, <1>7, <2>1, <2>3
  <2> QED BY <2>2, <2>3
<1>14. Unsent'
  <2> SUFFICES ASSUME NEW d \in Client
               PROVE  /\ stage'[d] = "idle" <=> attempt'[d] = 0
                      /\ stage'[d] = "backoff" => attempt'[d] < MaxTries
                      /\ \A n \in 1..MaxTries :
                           (IF stage'[d] \in Sending THEN n >= attempt'[d] ELSE n > attempt'[d])
                             => request[<<d, n>>] = "none"
    BY <1>2 DEF Unsent
  <2>1. /\ stage[d] = "idle" <=> attempt[d] = 0
        /\ stage[d] = "backoff" => attempt[d] < MaxTries
        /\ \A n \in 1..MaxTries :
             (IF stage[d] \in Sending THEN n >= attempt[d] ELSE n > attempt[d])
               => request[<<d, n>>] = "none"
    BY <1>1 DEF Unsent
  <2>2. CASE d # c
    BY <1>7, <2>1, <2>2
  <2>3. CASE d = c
    <3>0. attempt \in [Client -> 0..MaxTries] /\ attempt[c] \in Nat
      BY <1>1, <1>8 DEF CallTyped
    <3>1. CASE s = stage[c] /\ attempt' = attempt
      BY <1>7, <2>1, <2>3, <3>1
    <3>2. CASE stage[c] = "idle" /\ s = "check" /\ attempt' = [attempt EXCEPT ![c] = 1]
      <4>1. attempt'[d] = 1 /\ stage'[d] = "check" /\ stage[d] = "idle"
        BY <1>7, <2>3, <3>0, <3>2
      <4>2. \A n \in 1..MaxTries : request[<<d, n>>] = "none"
        BY <1>1, <2>1, <2>3, <3>0, <4>1 DEF Sending
      <4> QED BY <4>1, <4>2
    <3>3. CASE stage[c] = "backoff" /\ s = "check" /\ attempt' = [attempt EXCEPT ![c] = attempt[c] + 1]
      <4>1. attempt'[d] = attempt[d] + 1 /\ stage'[d] = "check" /\ stage[d] = "backoff"
        BY <1>7, <2>3, <3>0, <3>3
      <4>2. \A n \in 1..MaxTries : n > attempt[d] => request[<<d, n>>] = "none"
        BY <2>1, <4>1 DEF Sending
      <4> QED BY <2>3, <3>0, <4>1, <4>2
    <3>4. CASE stage[c] = "check" /\ s = "send" /\ attempt' = attempt
      BY <1>7, <2>1, <2>3, <3>4 DEF Sending
    <3>5. CASE stage[c] # "idle" /\ s \in {"backoff", "failed"} /\ attempt' = attempt
               /\ (s = "backoff" => attempt[c] < MaxTries)
      <4>1. /\ attempt'[d] = attempt[d] /\ stage'[d] \notin Sending /\ stage[d] # "idle"
            /\ stage'[d] = "backoff" => attempt[d] < MaxTries
        BY <1>7, <2>3, <3>5 DEF Sending
      <4>2. \A n \in 1..MaxTries : n > attempt[d] => request[<<d, n>>] = "none"
        BY <2>1, <2>3, <3>0
      <4>3. \A n \in 1..MaxTries : n > attempt'[d] => request[<<d, n>>] = "none"
        BY <4>1, <4>2
      <4>4. stage'[d] # "idle" /\ attempt'[d] # 0
        BY <2>1, <2>3, <3>5, <4>1 DEF Sending
      <4>5. stage'[d] = "backoff" => attempt'[d] < MaxTries
        BY <4>1
      <4> QED BY <4>1, <4>3, <4>4, <4>5
    <3> QED BY <1>6, <3>1, <3>2, <3>3, <3>4, <3>5
  <2> QED BY <2>2, <2>3
<1> QED BY <1>10, <1>11, <1>12, <1>13, <1>14 DEF RetryInv
\* fn sends a request: one was not sent for this attempt before.
LEMMA SendStep ==
  ASSUME D!RetryParameters, RetryInv, NEW c \in Client, D!Send(c)
  PROVE  RetryInv'
<1> DEFINE sent == <<c, attempt[c]>>
<1>1. CallTyped /\ KeyOwned /\ Ran /\ Answered /\ Unsent /\ Overdue /\ MaxTries \in Nat \ {0}
  BY DEF RetryInv, D!RetryParameters
<1>2. /\ stage[c] = "send" /\ stage' = [stage EXCEPT ![c] = "awaits"]
      /\ request' = [request EXCEPT ![sent] = "sent"]
      /\ late' = IF c \in givenUp THEN [late EXCEPT ![c] = late[c] + 1] ELSE late
      /\ attempt' = attempt /\ givenUp' = givenUp /\ cache' = cache /\ executed' = executed
      /\ response' = response
  BY DEF D!Send, D!Goes
<1>3. keyLocked' = keyLocked
  BY DEF D!Send
<1>4. attempt[c] \in 1..MaxTries /\ stage[c] \in Sending /\ stage[c] # "idle"
  BY <1>1, <1>2 DEF CallTyped, Unsent, Sending
<1>5. sent \in D!Attempt /\ request[sent] = "none"
  <2>1. sent \in D!Attempt
    BY <1>4 DEF D!Attempt
  <2>2. request[<<c, attempt[c]>>] = "none"
    BY <1>1, <1>4 DEF Unsent
  <2> QED BY <2>1, <2>2
<1> HIDE DEF sent
<1>6. /\ request \in [D!Attempt -> {"none", "sent", "locked", "executed", "answered", "conflict",
                                     "died"}]
      /\ stage \in [Client -> {"idle", "check", "send", "awaits", "backoff", "succeeded", "failed"}]
      /\ late \in [Client -> {0, 1}]
  BY <1>1 DEF CallTyped
<1>7. /\ request'[sent] = "sent" /\ \A q \in D!Attempt : q # sent => request'[q] = request[q]
      /\ stage'[c] = "awaits" /\ \A d \in Client : d # c => stage'[d] = stage[d]
  BY <1>2, <1>5, <1>6
<1>8. late[c] = 0
  BY <1>1, <1>2, <1>6 DEF Overdue
<1>9. late' \in [Client -> {0, 1}] /\ (late'[c] = 1 => c \in givenUp)
      /\ \A d \in Client : d # c => late'[d] = late[d]
  BY <1>2, <1>6, <1>8
<1>10. CallTyped'
  <2>1. request' \in [D!Attempt -> {"none", "sent", "locked", "executed", "answered", "conflict",
                                     "died"}]
    BY <1>2, <1>6
  <2>2. stage' \in [Client -> {"idle", "check", "send", "awaits", "backoff", "succeeded", "failed"}]
    BY <1>2, <1>6
  <2> QED BY <1>1, <1>2, <1>3, <1>9, <2>1, <2>2 DEF CallTyped
<1>11. \A q \in D!Attempt : request'[q] # "sent" => request'[q] = request[q]
  BY <1>7
<1>12. \A q \in D!Attempt : request[q] \in Owners => request'[q] = request[q]
  BY <1>5, <1>7 DEF Owners
<1>13. KeyOwned'
  BY <1>1, <1>2, <1>3, <1>11, <1>12 DEF KeyOwned, Owners
<1>14. Ran'
  BY <1>1, <1>2, <1>3, <1>11 DEF Ran
<1>15. Answered'
  BY <1>1, <1>2, <1>7 DEF Answered
<1>16. Overdue'
  BY <1>1, <1>2, <1>7, <1>9 DEF Overdue
<1>17. Unsent'
  <2> SUFFICES ASSUME NEW d \in Client
               PROVE  /\ stage'[d] = "idle" <=> attempt'[d] = 0
                      /\ stage'[d] = "backoff" => attempt'[d] < MaxTries
                      /\ \A n \in 1..MaxTries :
                           (IF stage'[d] \in Sending THEN n >= attempt'[d] ELSE n > attempt'[d])
                             => request'[<<d, n>>] = "none"
    BY DEF Unsent
  <2>1. /\ stage[d] = "idle" <=> attempt[d] = 0
        /\ stage[d] = "backoff" => attempt[d] < MaxTries
        /\ \A n \in 1..MaxTries :
             (IF stage[d] \in Sending THEN n >= attempt[d] ELSE n > attempt[d])
               => request[<<d, n>>] = "none"
    BY <1>1 DEF Unsent
  <2>2. \A n \in 1..MaxTries : <<d, n>> \in D!Attempt
    BY DEF D!Attempt
  <2>3. CASE d # c
    <3>1. \A n \in 1..MaxTries : <<d, n>> # sent
      BY <2>3 DEF sent
    <3>2. stage'[d] = stage[d] /\ attempt'[d] = attempt[d]
      BY <1>2, <1>7, <2>3
    <3>3. \A n \in 1..MaxTries : request'[<<d, n>>] = request[<<d, n>>]
      BY <1>7, <2>2, <3>1
    <3> QED BY <2>1, <3>2, <3>3
  <2>4. CASE d = c
    <3>1. stage'[d] = "awaits" /\ attempt'[d] = attempt[d] /\ stage'[d] \notin Sending
      BY <1>2, <1>7, <2>4 DEF Sending
    <3>2. ASSUME NEW n \in 1..MaxTries, n > attempt[d] PROVE request'[<<d, n>>] = "none"
      <4>1. <<d, n>> # sent
        BY <1>4, <2>4, <3>2 DEF sent
      <4>2. request'[<<d, n>>] = request[<<d, n>>]
        BY <1>7, <2>2, <4>1
      <4>3. stage[d] \in Sending /\ n >= attempt[d]
        BY <1>4, <2>4, <3>2
      <4> QED BY <2>1, <4>2, <4>3
    <3>3. stage[d] # "idle"
      BY <1>2, <2>4
    <3> QED BY <2>1, <3>1, <3>2, <3>3
  <2> QED BY <2>3, <2>4
<1> QED BY <1>10, <1>13, <1>14, <1>15, <1>16, <1>17 DEF RetryInv

\* The client returns with the response that is kept.
LEMMA SucceedStep ==
  ASSUME D!RetryParameters, RetryInv, NEW c \in Client, D!Succeed(c)
  PROVE  RetryInv'
<1>1. CallTyped /\ KeyOwned /\ Ran /\ Answered /\ Unsent /\ Overdue /\ MaxTries \in Nat \ {0}
  BY DEF RetryInv, D!RetryParameters
<1>2. /\ stage[c] = "awaits" /\ request[<<c, attempt[c]>>] = "answered"
      /\ stage' = [stage EXCEPT ![c] = "succeeded"]
      /\ response' = [response EXCEPT ![c] = cache]
      /\ attempt' = attempt /\ givenUp' = givenUp /\ cache' = cache /\ executed' = executed
      /\ request' = request /\ late' = late
  BY DEF D!Succeed, D!Goes
<1>3. keyLocked' = keyLocked
  BY DEF D!Succeed
<1>4. /\ stage \in [Client -> {"idle", "check", "send", "awaits", "backoff", "succeeded", "failed"}]
      /\ response \in [Client -> D!Attempt \cup {D!NoRequest}]
      /\ cache \in D!Attempt \cup {D!NoRequest}
  BY <1>1 DEF CallTyped
<1>5. stage'[c] = "succeeded" /\ \A d \in Client : d # c => stage'[d] = stage[d]
  BY <1>2, <1>4
<1>6. cache # D!NoRequest
  <2>1. attempt[c] \in 1..MaxTries
    BY <1>1, <1>2 DEF CallTyped, Unsent
  <2>2. <<c, attempt[c]>> \in D!Attempt
    BY <2>1 DEF D!Attempt
  <2> QED BY <1>1, <1>2, <2>2 DEF Ran
<1>7. CallTyped'
  <2>1. /\ response' \in [Client -> D!Attempt \cup {D!NoRequest}]
        /\ stage' \in [Client -> {"idle", "check", "send", "awaits", "backoff", "succeeded", "failed"}]
    BY <1>2, <1>4
  <2> QED BY <1>1, <1>2, <1>3, <2>1 DEF CallTyped
<1>8. KeyOwned' /\ Ran'
  BY <1>1, <1>2, <1>3 DEF KeyOwned, Ran
<1>9. Answered'
  BY <1>1, <1>2, <1>4, <1>5, <1>6 DEF Answered
<1>10. Overdue'
  BY <1>1, <1>2, <1>5 DEF Overdue
<1>11. Unsent'
  BY <1>1, <1>2, <1>5 DEF Unsent, Sending
<1> QED BY <1>7, <1>8, <1>9, <1>10, <1>11 DEF RetryInv

\* The server takes the key, runs the operation, and keeps the response, or dies.
LEMMA ServerStep ==
  ASSUME D!RetryParameters, RetryInv, NEW q \in D!Attempt,
         D!LockKey(q) \/ D!Execute(q) \/ D!Die(q) \/ D!SaveResponse(q)
  PROVE  RetryInv'
<1>1. CallTyped /\ KeyOwned /\ Ran /\ Answered /\ Unsent /\ Overdue /\ MaxTries \in Nat \ {0}
  BY DEF RetryInv, D!RetryParameters
<1>2. /\ stage' = stage /\ attempt' = attempt /\ givenUp' = givenUp /\ late' = late
      /\ response' = response
  BY DEF D!LockKey, D!Execute, D!Die, D!SaveResponse, D!loopVars
<1>3. /\ request \in [D!Attempt -> {"none", "sent", "locked", "executed", "answered", "conflict",
                                     "died"}]
      /\ executed \in {0, 1} /\ cache \in D!Attempt \cup {D!NoRequest}
  BY <1>1 DEF CallTyped
<1>4. keyLocked = TRUE \/ keyLocked = FALSE
  BY <1>1 DEF CallTyped
<1>5. request[q] # "none"
  BY DEF D!LockKey, D!Execute, D!Die, D!SaveResponse
<1>6. q # D!NoRequest
  BY DEF D!Attempt, D!NoRequest
<1>7. \E s \in {"locked", "executed", "answered", "conflict", "died"} :
        /\ request' = [request EXCEPT ![q] = s]
        /\ \/ /\ request[q] = "sent" /\ s \in {"answered", "conflict"}
              /\ s = "answered" => cache # D!NoRequest
              /\ keyLocked' = keyLocked /\ cache' = cache /\ executed' = executed
           \/ /\ request[q] = "sent" /\ s = "locked" /\ keyLocked = FALSE /\ cache = D!NoRequest
              /\ keyLocked' = TRUE /\ cache' = cache /\ executed' = executed
           \/ /\ request[q] = "locked" /\ s = "executed" /\ executed' = executed + 1
              /\ keyLocked' = keyLocked /\ cache' = cache
           \/ /\ request[q] \in {"locked", "executed"} /\ s = "died"
              /\ keyLocked' = keyLocked /\ cache' = cache /\ executed' = executed
           \/ /\ request[q] = "executed" /\ s = "answered"
              /\ keyLocked' = FALSE /\ cache' = q /\ executed' = executed
  <2>1. CASE D!LockKey(q)
    BY <1>4, <2>1 DEF D!LockKey, D!Becomes, D!InFlight
  <2>2. CASE D!Execute(q)
    BY <2>2 DEF D!Execute, D!Becomes
  <2>3. CASE D!Die(q)
    BY <2>3 DEF D!Die, D!Becomes
  <2>4. CASE D!SaveResponse(q)
    BY <2>4 DEF D!SaveResponse, D!Becomes
  <2> QED BY <2>1, <2>2, <2>3, <2>4
<1>8. PICK s \in {"locked", "executed", "answered", "conflict", "died"} :
        /\ request' = [request EXCEPT ![q] = s]
        /\ \/ /\ request[q] = "sent" /\ s \in {"answered", "conflict"}
              /\ s = "answered" => cache # D!NoRequest
              /\ keyLocked' = keyLocked /\ cache' = cache /\ executed' = executed
           \/ /\ request[q] = "sent" /\ s = "locked" /\ keyLocked = FALSE /\ cache = D!NoRequest
              /\ keyLocked' = TRUE /\ cache' = cache /\ executed' = executed
           \/ /\ request[q] = "locked" /\ s = "executed" /\ executed' = executed + 1
              /\ keyLocked' = keyLocked /\ cache' = cache
           \/ /\ request[q] \in {"locked", "executed"} /\ s = "died"
              /\ keyLocked' = keyLocked /\ cache' = cache /\ executed' = executed
           \/ /\ request[q] = "executed" /\ s = "answered"
              /\ keyLocked' = FALSE /\ cache' = q /\ executed' = executed
  BY <1>7
<1>9. /\ request'[q] = s /\ \A r \in D!Attempt : r # q => request'[r] = request[r]
      /\ request' \in [D!Attempt -> {"none", "sent", "locked", "executed", "answered", "conflict",
                                      "died"}]
  BY <1>3, <1>8
<1>10. /\ request[q] \in Owners => keyLocked = TRUE /\ cache = D!NoRequest
       /\ request[q] \in Owners => \A r \in D!Attempt : r # q => request[r] \notin Owners
       /\ keyLocked = FALSE => \A r \in D!Attempt : request[r] \notin Owners
       /\ request[q] = "locked" => executed = 0
       /\ request[q] = "executed" => executed = 1
       /\ keyLocked = FALSE /\ cache = D!NoRequest => executed = 0
       /\ cache # D!NoRequest => executed = 1 /\ keyLocked = FALSE
  BY <1>1, <1>4 DEF KeyOwned, Ran
<1>11. CallTyped'
  <2>1. executed' \in {0, 1}
    BY <1>3, <1>8, <1>10
  <2>2. cache' \in D!Attempt \cup {D!NoRequest}
    BY <1>3, <1>8
  <2>3. keyLocked' \in BOOLEAN
    BY <1>4, <1>8
  <2> QED BY <1>1, <1>2, <1>9, <2>1, <2>2, <2>3 DEF CallTyped
<1>12. KeyOwned'
  <2>1. CASE request[q] = "sent" /\ s \in {"answered", "conflict"}
             /\ keyLocked' = keyLocked /\ cache' = cache
    <3>1. \A r \in D!Attempt : request'[r] \in Owners <=> request[r] \in Owners
      BY <1>9, <2>1 DEF Owners
    <3> QED BY <1>1, <2>1, <3>1 DEF KeyOwned
  <2>2. CASE s = "locked" /\ keyLocked = FALSE /\ cache = D!NoRequest
             /\ keyLocked' = TRUE /\ cache' = cache
    <3>1. \A r \in D!Attempt : request'[r] \in Owners <=> r = q
      BY <1>9, <1>10, <2>2 DEF Owners
    <3> QED BY <2>2, <3>1 DEF KeyOwned
  <2>3. CASE request[q] \in {"locked", "executed"} /\ s \in {"executed", "died"}
             /\ keyLocked' = keyLocked /\ cache' = cache
    <3>1. \A r \in D!Attempt : request'[r] \in Owners <=> request[r] \in Owners
      BY <1>9, <2>3 DEF Owners
    <3> QED BY <1>1, <2>3, <3>1 DEF KeyOwned
  <2>4. CASE request[q] = "executed" /\ s = "answered" /\ keyLocked' = FALSE
    <3>1. \A r \in D!Attempt : request'[r] \notin Owners
      BY <1>9, <1>10, <2>4 DEF Owners
    <3> QED BY <2>4, <3>1 DEF KeyOwned
  <2> QED BY <1>8, <2>1, <2>2, <2>3, <2>4
<1>13. Ran'
  <2>1. CASE request[q] = "sent" /\ s \in {"answered", "conflict"}
             /\ keyLocked' = keyLocked /\ cache' = cache /\ executed' = executed
             /\ (s = "answered" => cache # D!NoRequest)
    BY <1>1, <1>9, <2>1 DEF Ran
  <2>2. CASE s = "locked" /\ keyLocked = FALSE /\ cache = D!NoRequest
             /\ keyLocked' = TRUE /\ cache' = cache /\ executed' = executed
    BY <1>1, <1>9, <1>10, <2>2 DEF Ran
  <2>3. CASE request[q] = "locked" /\ s = "executed" /\ executed' = executed + 1
             /\ keyLocked' = keyLocked /\ cache' = cache
    <3>1. executed' = 1 /\ keyLocked' = TRUE /\ cache' = D!NoRequest
      BY <1>10, <2>3 DEF Owners
    <3>2. \A r \in D!Attempt : r # q => request'[r] # "locked"
      BY <1>9, <1>10, <2>3 DEF Owners
    <3>3. \A r \in D!Attempt : request'[r] = "answered" => cache' # D!NoRequest
      BY <1>1, <1>9, <2>3 DEF Ran
    <3> QED BY <1>9, <2>3, <3>1, <3>2, <3>3 DEF Ran
  <2>4. CASE s = "died" /\ keyLocked' = keyLocked /\ cache' = cache /\ executed' = executed
    BY <1>1, <1>9, <2>4 DEF Ran
  <2>5. CASE request[q] = "executed" /\ s = "answered" /\ keyLocked' = FALSE /\ cache' = q
             /\ executed' = executed
    <3>1. executed' = 1 /\ cache' # D!NoRequest
      BY <1>6, <1>10, <2>5
    <3>2. \A r \in D!Attempt : request'[r] # "locked"
      BY <1>9, <1>10, <2>5 DEF Owners
    <3> QED BY <3>1, <3>2 DEF Ran
  <2> QED BY <1>8, <2>1, <2>2, <2>3, <2>4, <2>5
<1>14. Answered'
  <2>1. CASE cache' = cache
    BY <1>1, <1>2, <2>1 DEF Answered
  <2>2. CASE request[q] = "executed"
    <3>1. cache = D!NoRequest
      BY <1>10, <2>2 DEF Owners
    <3> QED BY <1>1, <1>2, <3>1 DEF Answered
  <2> QED BY <1>8, <2>1, <2>2
<1>15. Unsent'
  <2>1. \A d \in Client, n \in 1..MaxTries :
          request[<<d, n>>] = "none" => request'[<<d, n>>] = "none"
    <3> SUFFICES ASSUME NEW d \in Client, NEW n \in 1..MaxTries, request[<<d, n>>] = "none"
                 PROVE  request'[<<d, n>>] = "none"
      OBVIOUS
    <3>1. <<d, n>> \in D!Attempt
      BY DEF D!Attempt
    <3> QED BY <1>5, <1>9, <3>1
  <2> QED BY <1>1, <1>2, <2>1 DEF Unsent
<1>16. Overdue'
  BY <1>1, <1>2 DEF Overdue
<1> QED BY <1>11, <1>12, <1>13, <1>14, <1>15, <1>16 DEF RetryInv

LEMMA RetryStep ==
  ASSUME D!RetryParameters, RetryInv, [D!CallNext]_callVars
  PROVE  RetryInv'
<1>1. CASE D!CallNext
  BY <1>1, LoopGoes, SendStep, SucceedStep, ServerStep DEF D!CallNext, D!Loop
<1>2. CASE UNCHANGED callVars
  <2>1. /\ stage' = stage /\ attempt' = attempt /\ givenUp' = givenUp /\ late' = late
        /\ request' = request /\ cache' = cache /\ executed' = executed /\ response' = response
    BY <1>2 DEF callVars
  <2>2. keyLocked' = keyLocked
    BY <1>2 DEF callVars
  <2>3. CallTyped' /\ KeyOwned' /\ Ran'
    BY <2>1, <2>2 DEF RetryInv, CallTyped, KeyOwned, Ran
  <2>4. Answered' /\ Unsent' /\ Overdue'
    BY <2>1 DEF RetryInv, Answered, Unsent, Overdue
  <2> QED BY <2>3, <2>4 DEF RetryInv
<1> QED BY <1>1, <1>2

LEMMA RetryStarts ==
  ASSUME D!RetryParameters, D!Init
  PROVE  RetryInv
<1>1. /\ stage = [c \in Client |-> "idle"] /\ attempt = [c \in Client |-> 0]
      /\ givenUp = {} /\ late = [c \in Client |-> 0]
      /\ request = [q \in D!Attempt |-> "none"] /\ cache = D!NoRequest
      /\ executed = 0 /\ response = [c \in Client |-> D!NoRequest] /\ MaxTries \in Nat \ {0}
  BY DEF D!Init, D!RetryParameters
<1>2. keyLocked = FALSE
  BY DEF D!Init
<1>3. CallTyped
  <2>1. /\ stage \in [Client -> {"idle", "check", "send", "awaits", "backoff", "succeeded",
                                  "failed"}]
        /\ attempt \in [Client -> 0..MaxTries] /\ givenUp \subseteq Client
        /\ late \in [Client -> {0, 1}] /\ executed \in {0, 1}
    BY <1>1
  <2>2. request \in [D!Attempt -> {"none", "sent", "locked", "executed", "answered", "conflict",
                                   "died"}]
    BY <1>1
  <2>3. cache \in D!Attempt \cup {D!NoRequest} /\ response \in [Client -> D!Attempt \cup {D!NoRequest}]
    BY <1>1
  <2>4. keyLocked \in BOOLEAN
    BY <1>2
  <2> QED BY <2>1, <2>2, <2>3, <2>4 DEF CallTyped
<1>4. KeyOwned /\ Ran
  BY <1>1, <1>2 DEF KeyOwned, Ran, Owners
<1>5. Answered /\ Overdue
  BY <1>1 DEF Answered, Overdue
<1>6. \A c \in Client, n \in 1..MaxTries : <<c, n>> \in D!Attempt
  BY DEF D!Attempt
<1>7. Unsent
  BY <1>1, <1>6 DEF Unsent
<1> QED BY <1>3, <1>4, <1>5, <1>7 DEF RetryInv

LEMMA RetryMeans ==
  ASSUME RetryInv
  PROVE  D!RetriedOnce
<1>1. CallTyped /\ KeyOwned /\ Ran /\ Answered
  BY DEF RetryInv
<1> DEFINE owners == {q \in D!Attempt : request[q] \in {"locked", "executed", "died"}}
<1>2. D!Cardinality(owners) = IF keyLocked THEN 1 ELSE 0
  <2>1. \A S : D!Cardinality(S) = Cardinality(S)
    BY DEF D!Cardinality, Cardinality
  <2>2. CASE keyLocked = TRUE
    <3>1. PICK q \in D!Attempt : request[q] \in Owners
      BY <1>1, <2>2 DEF KeyOwned
    <3>2. owners = {q}
      BY <1>1, <3>1 DEF KeyOwned, Owners
    <3>3. Cardinality({q}) = 1
      BY FS_Singleton
    <3> QED BY <2>1, <2>2, <3>2, <3>3
  <2>3. CASE keyLocked = FALSE
    <3>1. owners = {}
      BY <1>1, <2>3 DEF KeyOwned, Owners
    <3>2. Cardinality({}) = 0
      BY FS_EmptySet
    <3> QED BY <2>1, <2>3, <3>1, <3>2
  <2> QED BY <1>1, <2>2, <2>3 DEF CallTyped
<1>3. executed <= 1 /\ \A c \in Client : late[c] <= 1
  BY <1>1 DEF CallTyped
<1>4. \A c \in Client : stage[c] = "succeeded" => executed = 1 /\ response[c] = cache
  BY <1>1 DEF Answered, Ran
<1> QED BY <1>2, <1>3, <1>4 DEF D!RetriedOnce
-----------------------------------------------------------------------------
(* The inbox. *)

Busy == {"handling", "succeeded", "failed"}

\* A worker that is not done has one event, which is marked as being processed; before
\* the handler has succeeded it has not for any other delivery either.
InboxWork ==
  \A w \in InboxWorker :
    /\ wpc[w] \in Busy => \E e \in InboxEvent : job[w] = {e} /\ record[e] = "PROCESSING"
    /\ wpc[w] \in {"handling", "failed"} => \A e \in job[w] : iruns[e] = 0
InboxAlone ==
  \A w, v \in InboxWorker :
    wpc[w] \in Busy /\ wpc[v] \in Busy /\ job[w] = job[v] => w = v
InboxFree == \A e \in InboxEvent : record[e] \in {"none", "FAILED"} => iruns[e] = 0

InboxInv == K!InboxTypeOK /\ InboxWork /\ InboxAlone /\ InboxFree

\* A step of the inbox is a step of ExactlyOnce, or none.
InboxHandles ==
  \/ iruns' = iruns
  \/ \E e \in InboxEvent : iruns[e] = 0 /\ iruns' = [iruns EXCEPT ![e] = 1]

LEMMA InboxStep ==
  ASSUME InboxInv, [K!InboxNext]_inboxVars
  PROVE  InboxInv' /\ InboxHandles
<1>1. K!InboxTypeOK /\ InboxWork /\ InboxAlone /\ InboxFree
  BY DEF InboxInv
<1>2. /\ record \in [InboxEvent -> {"none", "PROCESSING", "COMPLETED", "FAILED"}]
      /\ wpc \in [InboxWorker -> {"idle", "handling", "succeeded", "failed", "dead"}]
      /\ job \in [InboxWorker -> SUBSET InboxEvent] /\ iruns \in [InboxEvent -> Nat]
  BY <1>1 DEF K!InboxTypeOK
<1>3. ASSUME NEW w \in InboxWorker, NEW e \in InboxEvent, K!TryStartProcessing(w, e)
      PROVE  InboxInv' /\ InboxHandles
  <2>1. /\ wpc[w] = "idle" /\ record[e] \in {"none", "FAILED"}
        /\ record' = [record EXCEPT ![e] = "PROCESSING"]
        /\ wpc' = [wpc EXCEPT ![w] = "handling"] /\ job' = [job EXCEPT ![w] = {e}]
        /\ iruns' = iruns
    BY <1>2, <1>3 DEF K!TryStartProcessing, K!Refuses
  <2>2. /\ wpc'[w] = "handling" /\ job'[w] = {e} /\ record'[e] = "PROCESSING"
        /\ \A v \in InboxWorker : v # w => wpc'[v] = wpc[v] /\ job'[v] = job[v]
        /\ \A f \in InboxEvent : f # e => record'[f] = record[f]
    BY <1>2, <2>1
  <2>3. iruns[e] = 0
    BY <1>1, <2>1 DEF InboxFree
  <2>4. \A v \in InboxWorker : wpc[v] \in Busy => job[v] # {e}
    BY <1>1, <2>1 DEF InboxWork
  <2>5. K!InboxTypeOK'
    BY <1>2, <2>1 DEF K!InboxTypeOK
  <2>6. InboxWork'
    <3> SUFFICES ASSUME NEW v \in InboxWorker
                 PROVE  /\ wpc'[v] \in Busy => \E f \in InboxEvent : job'[v] = {f} /\ record'[f] = "PROCESSING"
                        /\ wpc'[v] \in {"handling", "failed"} => \A f \in job'[v] : iruns[f] = 0
      BY <2>1 DEF InboxWork
    <3>1. CASE v = w
      BY <2>2, <2>3, <3>1
    <3>2. CASE v # w
      BY <1>1, <2>2, <3>2 DEF InboxWork
    <3> QED BY <3>1, <3>2
  <2>7. InboxAlone'
    BY <1>1, <2>2, <2>4 DEF InboxAlone
  <2>8. InboxFree'
    BY <1>1, <2>1, <2>2 DEF InboxFree
  <2> QED BY <2>1, <2>5, <2>6, <2>7, <2>8 DEF InboxInv, InboxHandles
<1>4. ASSUME NEW w \in InboxWorker, K!HandlerSucceeds(w)
      PROVE  InboxInv' /\ InboxHandles
  <2>1. PICK e \in InboxEvent : job[w] = {e} /\ record[e] = "PROCESSING" /\ iruns[e] = 0
    BY <1>1, <1>4 DEF InboxWork, Busy, K!HandlerSucceeds
  <2>2. /\ wpc[w] = "handling" /\ wpc' = [wpc EXCEPT ![w] = "succeeded"]
        /\ record' = record /\ job' = job /\ iruns' = [iruns EXCEPT ![e] = 1]
    BY <1>2, <1>4, <2>1 DEF K!HandlerSucceeds
  <2>3. /\ wpc'[w] = "succeeded" /\ \A v \in InboxWorker : v # w => wpc'[v] = wpc[v]
        /\ \A f \in InboxEvent : f # e => iruns'[f] = iruns[f]
    BY <1>2, <2>2
  <2>4. K!InboxTypeOK'
    BY <1>2, <2>2 DEF K!InboxTypeOK
  <2>5. \A v \in InboxWorker : v # w /\ wpc[v] \in Busy => e \notin job[v]
    <3> SUFFICES ASSUME NEW v \in InboxWorker, v # w, wpc[v] \in Busy PROVE e \notin job[v]
      OBVIOUS
    <3>1. PICK f \in InboxEvent : job[v] = {f}
      BY <1>1 DEF InboxWork
    <3>2. wpc[w] \in Busy
      BY <2>2 DEF Busy
    <3>3. job[v] # job[w]
      BY <1>1, <3>2 DEF InboxAlone
    <3> QED BY <2>1, <3>1, <3>3
  <2>6. InboxWork'
    <3> SUFFICES ASSUME NEW v \in InboxWorker
                 PROVE  /\ wpc'[v] \in Busy => \E f \in InboxEvent : job[v] = {f} /\ record[f] = "PROCESSING"
                        /\ wpc'[v] \in {"handling", "failed"} => \A f \in job[v] : iruns'[f] = 0
      BY <2>2 DEF InboxWork
    <3>1. CASE v = w
      BY <2>1, <2>3, <3>1
    <3>2. CASE v # w
      <4>1. wpc'[v] \in {"handling", "failed"} => e \notin job[v]
        BY <2>3, <2>5, <3>2 DEF Busy
      <4> QED BY <1>1, <1>2, <2>3, <3>2, <4>1 DEF InboxWork
    <3> QED BY <3>1, <3>2
  <2>7. InboxAlone'
    BY <1>1, <2>2, <2>3 DEF InboxAlone, Busy
  <2>8. InboxFree'
    BY <1>1, <2>1, <2>2, <2>3 DEF InboxFree
  <2> QED BY <2>1, <2>2, <2>4, <2>6, <2>7, <2>8 DEF InboxInv, InboxHandles
<1>5. ASSUME NEW w \in InboxWorker, K!HandlerFails(w) \/ K!Crash(w)
      PROVE  InboxInv' /\ InboxHandles
  <2>1. /\ record' = record /\ job' = job /\ iruns' = iruns
        /\ \/ wpc[w] = "handling" /\ wpc' = [wpc EXCEPT ![w] = "failed"]
           \/ wpc' = [wpc EXCEPT ![w] = "dead"]
    BY <1>5 DEF K!HandlerFails, K!Crash
  <2>2. /\ \A v \in InboxWorker : wpc'[v] \in Busy => wpc[v] \in Busy
        /\ \A v \in InboxWorker : wpc'[v] \in {"handling", "failed"} => wpc[v] \in {"handling", "failed"}
    BY <1>2, <2>1 DEF Busy
  <2>3. K!InboxTypeOK'
    BY <1>2, <2>1 DEF K!InboxTypeOK
  <2>4. InboxWork' /\ InboxAlone' /\ InboxFree'
    BY <1>1, <2>1, <2>2 DEF InboxWork, InboxAlone, InboxFree
  <2> QED BY <2>1, <2>3, <2>4 DEF InboxInv, InboxHandles
<1>6. ASSUME NEW w \in InboxWorker, K!MarkCompleted(w) \/ K!MarkFailed(w)
      PROVE  InboxInv' /\ InboxHandles
  <2>1. wpc[w] \in {"succeeded", "failed"}
    BY <1>6 DEF K!MarkCompleted, K!MarkFailed
  <2>2. PICK e \in InboxEvent : job[w] = {e} /\ record[e] = "PROCESSING"
    BY <1>1, <2>1 DEF InboxWork, Busy
  <2>3. /\ wpc' = [wpc EXCEPT ![w] = "idle"] /\ job' = [job EXCEPT ![w] = {}] /\ iruns' = iruns
        /\ \/ record' = [record EXCEPT ![e] = "COMPLETED"]
           \/ record' = [record EXCEPT ![e] = "FAILED"] /\ wpc[w] = "failed"
    BY <1>6, <2>2 DEF K!MarkCompleted, K!MarkFailed
  <2>4. /\ wpc'[w] = "idle" /\ \A v \in InboxWorker : v # w => wpc'[v] = wpc[v] /\ job'[v] = job[v]
        /\ \A f \in InboxEvent : f # e => record'[f] = record[f]
        /\ record'[e] = "COMPLETED" \/ iruns[e] = 0
    BY <1>1, <1>2, <2>2, <2>3 DEF InboxWork
  <2>5. K!InboxTypeOK'
    BY <1>2, <2>3 DEF K!InboxTypeOK
  <2>6. \A v \in InboxWorker : v # w /\ wpc[v] \in Busy => job[v] # {e}
    BY <1>1, <2>1, <2>2 DEF InboxAlone, Busy
  <2>7. InboxWork'
    <3> SUFFICES ASSUME NEW v \in InboxWorker
                 PROVE  /\ wpc'[v] \in Busy => \E f \in InboxEvent : job'[v] = {f} /\ record'[f] = "PROCESSING"
                        /\ wpc'[v] \in {"handling", "failed"} => \A f \in job'[v] : iruns[f] = 0
      BY <2>3 DEF InboxWork
    <3>1. CASE v = w
      BY <2>4, <3>1 DEF Busy
    <3>2. CASE v # w
      BY <1>1, <2>4, <2>6, <3>2 DEF InboxWork
    <3> QED BY <3>1, <3>2
  <2>8. InboxAlone'
    BY <1>1, <2>4 DEF InboxAlone, Busy
  <2>9. InboxFree'
    BY <1>1, <2>3, <2>4 DEF InboxFree
  <2> QED BY <2>3, <2>5, <2>7, <2>8, <2>9 DEF InboxInv, InboxHandles
<1>7. CASE UNCHANGED inboxVars
  <2>1. record' = record /\ wpc' = wpc /\ job' = job /\ iruns' = iruns
    BY <1>7 DEF inboxVars
  <2> QED BY <1>1, <2>1 DEF InboxInv, K!InboxTypeOK, InboxWork, InboxAlone, InboxFree, InboxHandles
<1> QED BY <1>3, <1>4, <1>5, <1>6, <1>7 DEF K!InboxNext

LEMMA InboxStarts ==
  ASSUME K!InboxInit
  PROVE  InboxInv /\ K!E!Init
<1>1. /\ record = [e \in InboxEvent |-> "none"] /\ wpc = [w \in InboxWorker |-> "idle"]
      /\ job = [w \in InboxWorker |-> {}] /\ iruns = [e \in InboxEvent |-> 0]
  BY DEF K!InboxInit
<1>2. K!InboxTypeOK
  BY <1>1 DEF K!InboxTypeOK
<1>3. InboxWork /\ InboxAlone /\ InboxFree
  BY <1>1 DEF InboxWork, InboxAlone, InboxFree, Busy
<1>4. K!E!Init
  BY <1>1 DEF K!E!Init
<1> QED BY <1>2, <1>3, <1>4 DEF InboxInv

LEMMA InboxRefines ==
  ASSUME InboxHandles
  PROVE  [K!E!Next]_(K!E!vars)
<1>1. CASE iruns' = iruns
  BY <1>1 DEF K!E!vars
<1>2. ASSUME NEW e \in InboxEvent, iruns[e] = 0, iruns' = [iruns EXCEPT ![e] = 1]
      PROVE  K!E!Next
  BY <1>2 DEF K!E!Next, K!E!Handle
<1> QED BY <1>1, <1>2 DEF InboxHandles

\* However deliveries of an event overlap and workers die between the handler and the
\* mark, for every number of both: the inbox handles each event at most once.
THEOREM InboxHandlesOnce == K!InboxSpec => K!InboxExactlyOnce
<1>1. K!InboxInit => InboxInv /\ K!E!Init
  BY InboxStarts
<1>2. InboxInv /\ [K!InboxNext]_(K!inboxVars) => InboxInv' /\ [K!E!Next]_(K!E!vars)
  BY InboxStep, InboxRefines DEF K!inboxVars, inboxVars
<1> QED BY <1>1, <1>2, PTL DEF K!InboxSpec, K!InboxExactlyOnce, K!E!Spec
-----------------------------------------------------------------------------
(* From the outbox to the idempotent consumer. *)

\* Only what was saved is in a batch, published or about to be marked.
Offered ==
  /\ topic \subseteq Saved
  /\ \A p \in Publisher : batch[p] \subseteq Saved /\ event[p] \subseteq Saved
OutboxInv == TypeOK /\ Offered

SavesOne == Saved' = Saved \/ \E e \in Event : e \notin Saved /\ Saved' = Saved \cup {e}

LEMMA OutboxStep ==
  ASSUME MaxFaults \in Nat, OutboxInv, Next
  PROVE  OutboxInv' /\ SavesOne /\ topic \subseteq topic'
<1>1. /\ status \in [Event -> {"absent", "PENDING", "PUBLISHED"}] /\ topic \subseteq Event
      /\ at \in [Publisher -> {"idle", "publish", "mark", "stopped"}]
      /\ batch \in [Publisher -> SUBSET Event] /\ event \in [Publisher -> SUBSET Event]
      /\ cancelled \subseteq Poller /\ faults \in 0..MaxFaults
      /\ topic \subseteq Saved /\ \A p \in Publisher : batch[p] \subseteq Saved /\ event[p] \subseteq Saved
  BY DEF OutboxInv, TypeOK, Offered
<1>2. ASSUME Fault \/ faults' = faults PROVE faults' \in 0..MaxFaults
  BY <1>1, <1>2 DEF Fault
<1>3. ASSUME status' = status PROVE Saved' = Saved
  BY <1>3 DEF Saved
<1>4. ASSUME NEW e \in Event, SaveTx(e)
      PROVE  OutboxInv' /\ SavesOne /\ topic \subseteq topic'
  <2>1. /\ status[e] = "absent" /\ status' = [status EXCEPT ![e] = "PENDING"]
        /\ topic' = topic /\ at' = at /\ batch' = batch /\ event' = event
        /\ cancelled' = cancelled /\ faults' = faults
    BY <1>4 DEF SaveTx
  <2>2. e \notin Saved /\ Saved' = Saved \cup {e}
    BY <1>1, <2>1 DEF Saved
  <2>3. TypeOK'
    BY <1>1, <2>1 DEF TypeOK
  <2>4. Offered'
    BY <1>1, <2>1, <2>2 DEF Offered
  <2> QED BY <2>1, <2>2, <2>3, <2>4 DEF OutboxInv, SavesOne
<1>5. ASSUME NEW p \in Publisher, Flush(p)
      PROVE  OutboxInv' /\ SavesOne /\ topic \subseteq topic'
  <2>1. PICK B \in PendingBatches : batch' = [batch EXCEPT ![p] = B]
    BY <1>5 DEF Flush
  <2>2. B \subseteq Pending
    BY <2>1 DEF PendingBatches, kSubset
  <2>3. B \subseteq Saved /\ B \subseteq Event
    BY <2>2 DEF Pending, Saved
  <2>4. /\ at' = [at EXCEPT ![p] = "publish"] /\ status' = status /\ topic' = topic
        /\ event' = event /\ cancelled' = cancelled /\ faults' = faults
    BY <1>5 DEF Flush, Goto
  <2>5. TypeOK'
    BY <1>1, <2>1, <2>3, <2>4 DEF TypeOK
  <2>6. Offered'
    BY <1>1, <1>3, <2>1, <2>3, <2>4 DEF Offered
  <2> QED BY <1>3, <2>4, <2>5, <2>6 DEF OutboxInv, SavesOne
<1>6. ASSUME NEW p \in Publisher, NEW e \in Event, Publish(p, e)
      PROVE  OutboxInv' /\ SavesOne /\ topic \subseteq topic'
  <2>1. /\ e \in batch[p] /\ topic' = topic \cup {e} /\ event' = [event EXCEPT ![p] = {e}]
        /\ at' = [at EXCEPT ![p] = "mark"] /\ status' = status /\ batch' = batch
        /\ cancelled' = cancelled /\ faults' = faults
    BY <1>6 DEF Publish, Goto
  <2>2. e \in Saved
    BY <1>1, <2>1
  <2>3. TypeOK'
    BY <1>1, <2>1 DEF TypeOK
  <2>4. Offered'
    BY <1>1, <1>3, <2>1, <2>2 DEF Offered
  <2> QED BY <1>3, <2>1, <2>3, <2>4 DEF OutboxInv, SavesOne
<1>7. ASSUME NEW p \in Publisher, NEW e \in Event, PublishFails(p, e)
      PROVE  OutboxInv' /\ SavesOne /\ topic \subseteq topic'
  <2>1. /\ batch' = [batch EXCEPT ![p] = AfterError(p, e)] /\ status' = status /\ topic' = topic
        /\ at' = at /\ event' = event /\ cancelled' = cancelled
    BY <1>7 DEF PublishFails
  <2>2. faults' \in 0..MaxFaults
    BY <1>2, <1>7 DEF PublishFails
  <2>3. AfterError(p, e) \subseteq batch[p]
    BY DEF AfterError
  <2>4. TypeOK'
    BY <1>1, <2>1, <2>2, <2>3 DEF TypeOK
  <2>5. Offered'
    BY <1>1, <1>3, <2>1, <2>3 DEF Offered
  <2> QED BY <1>3, <2>1, <2>4, <2>5 DEF OutboxInv, SavesOne
<1>8. ASSUME NEW p \in Publisher, MarkPublished(p)
      PROVE  OutboxInv' /\ SavesOne /\ topic \subseteq topic'
  <2>1. PICK e \in event[p] : status' = [status EXCEPT ![e] = "PUBLISHED"]
    BY <1>8 DEF MarkPublished, Marked
  <2>2. /\ batch' = [batch EXCEPT ![p] = batch[p] \ event[p]] /\ event' = [event EXCEPT ![p] = {}]
        /\ at' = [at EXCEPT ![p] = "publish"] /\ topic' = topic /\ cancelled' = cancelled
        /\ faults' = faults
    BY <1>8 DEF MarkPublished, Goto
  <2>3. Saved' = Saved
    BY <1>1, <2>1 DEF Saved
  <2>4. TypeOK'
    BY <1>1, <2>1, <2>2 DEF TypeOK
  <2>5. Offered'
    BY <1>1, <2>2, <2>3 DEF Offered
  <2> QED BY <2>2, <2>3, <2>4, <2>5 DEF OutboxInv, SavesOne
<1>9. ASSUME NEW p \in Publisher, Crash(p)
      PROVE  OutboxInv' /\ SavesOne /\ topic \subseteq topic'
  <2>1. /\ batch' = [batch EXCEPT ![p] = {}] /\ event' = [event EXCEPT ![p] = {}]
        /\ status' = status /\ topic' = topic /\ cancelled' = cancelled \ {p}
        /\ at' = [at EXCEPT ![p] = IF p \in Relay THEN "idle" ELSE "stopped"]
    BY <1>9 DEF Crash, Goto
  <2>2. faults' \in 0..MaxFaults
    BY <1>2, <1>9 DEF Crash
  <2>3. TypeOK'
    BY <1>1, <2>1, <2>2 DEF TypeOK
  <2>4. Offered'
    BY <1>1, <1>3, <2>1 DEF Offered
  <2> QED BY <1>3, <2>1, <2>3, <2>4 DEF OutboxInv, SavesOne
<1>10. ASSUME NEW p \in Publisher, FlushReturns(p) \/ Start(p) \/ Stop(p) \/ GoroutineReturns(p)
       PROVE  OutboxInv' /\ SavesOne /\ topic \subseteq topic'
  <2>1. /\ batch' = batch /\ event' = event /\ status' = status /\ topic' = topic
        /\ cancelled' \subseteq Poller
        /\ at' = at \/ at' = [at EXCEPT ![p] = "idle"] \/ at' = [at EXCEPT ![p] = "stopped"]
    BY <1>1, <1>10 DEF FlushReturns, Start, Stop, GoroutineReturns, Goto
  <2>2. faults' \in 0..MaxFaults
    BY <1>2, <1>10 DEF FlushReturns, Start, Stop, GoroutineReturns
  <2>3. TypeOK'
    BY <1>1, <2>1, <2>2 DEF TypeOK
  <2>4. Offered'
    BY <1>1, <1>3, <2>1 DEF Offered
  <2> QED BY <1>3, <2>1, <2>3, <2>4 DEF OutboxInv, SavesOne
<1> QED BY <1>4, <1>5, <1>6, <1>7, <1>8, <1>9, <1>10 DEF Next

\* A consumer has a message that was published, which no handler has handled when
\* its own has not; what was handled is processed or about to be marked.
Delivered ==
  \A c \in Consumer : cpc[c] \in {"handling", "marking"} => \E e \in topic : msg[c] = {e}
Handles ==
  /\ \A c \in Consumer : cpc[c] = "handling" => \A e \in msg[c] : runs[e] = 0
  /\ \A e \in Event :
       runs[e] # 0 => e \in processed \/ \E c \in Consumer : cpc[c] = "marking" /\ e \in msg[c]

\* For any number of consumers,
PipelineTyped == PipelineTypeOK /\ Offered /\ Delivered
\* and for one.
PipelineInv == PipelineTyped /\ Handles
OneConsumer == \A c, d \in Consumer : c = d

PipelineHandles ==
  \/ Saved' = Saved /\ runs' = runs
  \/ \E e \in Event : e \notin Saved /\ Saved' = Saved \cup {e} /\ runs' = runs
  \/ \E e \in Saved : runs[e] = 0 /\ runs' = [runs EXCEPT ![e] = 1] /\ Saved' = Saved

LEMMA PipelineStep ==
  ASSUME PipelineParameters, PipelineTyped, [PipelineNext]_pipelineVars
  PROVE  /\ PipelineTyped'
         /\ OneConsumer /\ Handles => Handles' /\ PipelineHandles
<1>1. /\ TypeOK /\ processed \subseteq Event
      /\ cpc \in [Consumer -> {"idle", "handling", "marking"}]
      /\ msg \in [Consumer -> SUBSET Event] /\ runs \in [Event -> 0..MaxRuns]
      /\ failed \in 0..MaxFailures /\ Offered /\ Delivered
      /\ topic \subseteq Event /\ topic \subseteq Saved
  BY DEF PipelineTyped, PipelineTypeOK, Offered
<1>2. MaxFaults \in Nat /\ MaxRuns \in Nat /\ MaxFailures \in Nat
  BY DEF PipelineParameters
<1>3. CASE Next /\ UNCHANGED consumerVars
  <2>1. OutboxInv' /\ SavesOne /\ topic \subseteq topic'
    BY <1>1, <1>2, <1>3, OutboxStep DEF OutboxInv
  <2>2. processed' = processed /\ cpc' = cpc /\ msg' = msg /\ runs' = runs /\ failed' = failed
    BY <1>3 DEF consumerVars
  <2>3. PipelineTypeOK'
    BY <1>1, <2>1, <2>2 DEF OutboxInv, PipelineTypeOK, TypeOK
  <2>4. Delivered'
    BY <1>1, <2>1, <2>2 DEF Delivered
  <2>5. Handles => Handles'
    BY <2>2 DEF Handles
  <2>6. PipelineHandles
    BY <2>1, <2>2 DEF SavesOne, PipelineHandles
  <2> QED BY <2>1, <2>3, <2>4, <2>5, <2>6 DEF PipelineTyped, OutboxInv
<1>4. ASSUME UNCHANGED outboxVars
      PROVE  TypeOK' /\ Offered' /\ topic' = topic /\ Saved' = Saved
  <2>1. /\ status' = status /\ topic' = topic /\ at' = at /\ batch' = batch /\ event' = event
        /\ cancelled' = cancelled /\ faults' = faults
    BY <1>4 DEF outboxVars
  <2> QED BY <1>1, <2>1 DEF TypeOK, Offered, Saved
<1>5. ASSUME NEW c \in Consumer, NEW e \in Event, Receive(c, e), UNCHANGED outboxVars
      PROVE  PipelineTyped' /\ (OneConsumer /\ Handles => Handles' /\ PipelineHandles)
  <2>1. /\ cpc[c] = "idle" /\ e \in topic /\ e \notin processed
        /\ cpc' = [cpc EXCEPT ![c] = "handling"] /\ msg' = [msg EXCEPT ![c] = {e}]
        /\ processed' = processed /\ runs' = runs /\ failed' = failed
    BY <1>5 DEF Receive, Seen
  <2>2. /\ cpc'[c] = "handling" /\ msg'[c] = {e}
        /\ \A d \in Consumer : d # c => cpc'[d] = cpc[d] /\ msg'[d] = msg[d]
    BY <1>1, <2>1
  <2>3. PipelineTypeOK'
    BY <1>1, <1>4, <1>5, <2>1 DEF PipelineTypeOK
  <2>4. Delivered'
    BY <1>1, <1>4, <1>5, <2>1, <2>2 DEF Delivered
  <2>5. ASSUME OneConsumer, Handles PROVE Handles'
    <3>1. \A d \in Consumer : d = c
      BY <2>5 DEF OneConsumer
    <3>2. \A f \in Event : runs[f] # 0 => f \in processed
      BY <2>1, <2>5, <3>1 DEF Handles
    <3> QED BY <2>1, <2>2, <3>1, <3>2 DEF Handles
  <2>6. PipelineHandles
    BY <1>4, <1>5, <2>1 DEF PipelineHandles
  <2> QED BY <1>4, <1>5, <2>3, <2>4, <2>5, <2>6 DEF PipelineTyped
<1>6. ASSUME NEW c \in Consumer, HandlerSucceeds(c), UNCHANGED outboxVars
      PROVE  PipelineTyped' /\ (OneConsumer /\ Handles => Handles' /\ PipelineHandles)
  <2>1. cpc[c] = "handling" /\ cpc' = [cpc EXCEPT ![c] = "marking"]
        /\ processed' = processed /\ msg' = msg /\ failed' = failed
    BY <1>6 DEF HandlerSucceeds
  <2>2. PICK e \in topic : msg[c] = {e}
    BY <1>1, <2>1 DEF Delivered
  <2>3. /\ e \in Event /\ e \in Saved /\ runs[e] \in Nat /\ runs[e] < MaxRuns
        /\ runs' = [runs EXCEPT ![e] = runs[e] + 1]
    BY <1>1, <1>2, <1>6, <2>2 DEF HandlerSucceeds
  <2>4. /\ cpc'[c] = "marking" /\ \A d \in Consumer : d # c => cpc'[d] = cpc[d]
        /\ \A f \in Event : f # e => runs'[f] = runs[f]
    BY <1>1, <2>1, <2>3
  <2>5. PipelineTypeOK'
    <3>1. runs' \in [Event -> 0..MaxRuns]
      BY <1>1, <1>2, <2>3
    <3>2. cpc' \in [Consumer -> {"idle", "handling", "marking"}]
      BY <1>1, <2>1
    <3> QED BY <1>1, <1>4, <1>6, <2>1, <3>1, <3>2 DEF PipelineTypeOK
  <2>6. Delivered'
    BY <1>1, <1>4, <1>6, <2>1, <2>4 DEF Delivered
  <2>7. ASSUME OneConsumer, Handles PROVE Handles' /\ PipelineHandles
    <3>1. \A d \in Consumer : d = c
      BY <2>7 DEF OneConsumer
    <3>2. runs[e] = 0
      BY <2>1, <2>2, <2>7 DEF Handles
    <3>3. Handles'
      <4>1. \A d \in Consumer : cpc'[d] = "marking"
        BY <2>4, <3>1
      <4>2. \A f \in Event : runs'[f] # 0 => f \in processed' \/ f \in msg'[c]
        <5> SUFFICES ASSUME NEW f \in Event, runs'[f] # 0
                     PROVE  f \in processed \/ f \in msg[c]
          BY <2>1
        <5>1. CASE f = e
          BY <2>2, <5>1
        <5>2. CASE f # e
          <6>1. runs[f] # 0
            BY <2>4, <5>2
          <6> QED BY <2>1, <2>7, <3>1, <6>1 DEF Handles
        <5> QED BY <5>1, <5>2
      <4> QED BY <4>1, <4>2 DEF Handles
    <3>4. PipelineHandles
      <4>1. Saved' = Saved /\ e \in Saved /\ runs[e] + 1 = 1
        BY <1>4, <1>6, <2>3, <3>2
      <4>2. runs' = [runs EXCEPT ![e] = 1]
        BY <2>3, <4>1
      <4> QED BY <3>2, <4>1, <4>2 DEF PipelineHandles
    <3> QED BY <3>3, <3>4
  <2> QED BY <1>4, <1>6, <2>5, <2>6, <2>7 DEF PipelineTyped
<1>7. ASSUME NEW c \in Consumer, HandlerFails(c) \/ Mark(c), UNCHANGED outboxVars
      PROVE  PipelineTyped' /\ (OneConsumer /\ Handles => Handles' /\ PipelineHandles)
  <2>1. /\ cpc' = [cpc EXCEPT ![c] = "idle"] /\ msg' = [msg EXCEPT ![c] = {}] /\ runs' = runs
        /\ \/ cpc[c] = "handling" /\ processed' = processed
           \/ cpc[c] = "marking" /\ processed' = processed \cup msg[c]
    BY <1>7 DEF HandlerFails, Mark
  <2>2. failed' \in 0..MaxFailures
    BY <1>1, <1>2, <1>7 DEF HandlerFails, Mark
  <2>3. cpc'[c] = "idle" /\ \A d \in Consumer : d # c => cpc'[d] = cpc[d] /\ msg'[d] = msg[d]
    BY <1>1, <2>1
  <2>4. PipelineTypeOK'
    BY <1>1, <1>4, <1>7, <2>1, <2>2 DEF PipelineTypeOK
  <2>5. Delivered'
    BY <1>1, <1>4, <1>7, <2>1, <2>3 DEF Delivered
  <2>6. Handles => Handles'
    BY <2>1, <2>3 DEF Handles
  <2>7. PipelineHandles
    BY <1>4, <1>7, <2>1 DEF PipelineHandles
  <2> QED BY <1>4, <1>7, <2>4, <2>5, <2>6, <2>7 DEF PipelineTyped
<1>8. CASE UNCHANGED pipelineVars
  <2>1. UNCHANGED outboxVars
    BY <1>8 DEF pipelineVars
  <2>2. processed' = processed /\ cpc' = cpc /\ msg' = msg /\ runs' = runs /\ failed' = failed
    BY <1>8 DEF pipelineVars, consumerVars
  <2> QED BY <1>1, <1>4, <2>1, <2>2
          DEF PipelineTyped, PipelineTypeOK, Delivered, Handles, PipelineHandles
<1> QED BY <1>3, <1>5, <1>6, <1>7, <1>8 DEF PipelineNext, ConsumerNext

LEMMA PipelineStarts ==
  ASSUME PipelineParameters, PipelineInit
  PROVE  PipelineInv /\ E!Init
<1>1. /\ status = [e \in Event |-> "absent"] /\ topic = {}
      /\ at = [p \in Publisher |-> "idle"] /\ batch = [p \in Publisher |-> {}]
      /\ event = [p \in Publisher |-> {}] /\ cancelled = {} /\ faults = 0
      /\ processed = {} /\ cpc = [c \in Consumer |-> "idle"] /\ msg = [c \in Consumer |-> {}]
      /\ runs = [e \in Event |-> 0] /\ failed = 0
  BY DEF PipelineInit, Init, ConsumerInit
<1>2. MaxFaults \in Nat /\ MaxRuns \in Nat /\ MaxFailures \in Nat
  BY DEF PipelineParameters
<1>3. TypeOK
  BY <1>1, <1>2 DEF TypeOK
<1>4. PipelineTypeOK
  BY <1>1, <1>2, <1>3 DEF PipelineTypeOK
<1>5. Offered /\ Delivered /\ Handles
  BY <1>1 DEF Offered, Delivered, Handles
<1>6. E!Init
  BY <1>1 DEF E!Init, Saved
<1> QED BY <1>4, <1>5, <1>6 DEF PipelineInv, PipelineTyped

LEMMA PipelineRefines ==
  ASSUME PipelineHandles
  PROVE  [E!Next]_(E!vars)
<1>1. CASE Saved' = Saved /\ runs' = runs
  BY <1>1 DEF E!vars
<1>2. ASSUME NEW e \in Event, e \notin Saved, Saved' = Saved \cup {e}, runs' = runs
      PROVE  E!Next
  BY <1>2 DEF E!Next, E!Save
<1>3. ASSUME NEW e \in Saved, runs[e] = 0, runs' = [runs EXCEPT ![e] = 1], Saved' = Saved
      PROVE  E!Next
  <2>1. e \in Event
    BY DEF Saved
  <2> QED BY <1>3, <2>1 DEF E!Next, E!Handle
<1> QED BY <1>1, <1>2, <1>3 DEF PipelineHandles

\* However publishers race, crash and publish again, for every number of them and of
\* events: with one goroutine that consumes, a saved event is handled at most once, and
\* nothing else is handled.
THEOREM PipelineHandlesOnce ==
  ASSUME PipelineParameters, OneConsumer
  PROVE  PipelineSpec => PipelineExactlyOnce
<1>1. PipelineInit => PipelineInv /\ E!Init
  BY PipelineStarts
<1>2. PipelineInv /\ [PipelineNext]_pipelineVars => PipelineInv' /\ [E!Next]_(E!vars)
  BY PipelineStep, PipelineRefines DEF PipelineInv
<1> QED BY <1>1, <1>2, PTL DEF PipelineSpec, PipelineExactlyOnce, E!Spec
-----------------------------------------------------------------------------
(* Messages that may be dead-lettered, and the job. *)

\* d.attempts counts the failed runs of a message that is delivered again.
DlqCounted ==
  /\ attempts \in [Message -> Nat] /\ dlqStore \subseteq Message
  /\ dpc \in [Message -> {"absent", "queued", "handling", "handled", "dead"}]
  /\ curr \in [Message -> 0..MaxAttempts] /\ failures \in [Message -> 0..MaxAttempts]
  /\ \A m \in Message :
       /\ dpc[m] \in {"absent", "queued"} => attempts[m] = failures[m] /\ attempts[m] < MaxAttempts
       /\ dpc[m] = "handling" => /\ attempts[m] = failures[m] + 1 /\ curr[m] = attempts[m]
                                 /\ attempts[m] <= MaxAttempts
       /\ dpc[m] \in {"handled", "dead"} => attempts[m] = 0

LEMMA DlqStep ==
  ASSUME D!RetryParameters, DlqCounted, [D!DlqNext]_dlqVars
  PROVE  DlqCounted'
<1>1. MaxAttempts \in Nat \ {0}
  BY DEF D!RetryParameters
<1>2. /\ attempts \in [Message -> Nat] /\ dlqStore \subseteq Message
      /\ dpc \in [Message -> {"absent", "queued", "handling", "handled", "dead"}]
      /\ curr \in [Message -> 0..MaxAttempts] /\ failures \in [Message -> 0..MaxAttempts]
  BY DEF DlqCounted
<1>3. \A m \in Message :
       /\ dpc[m] \in {"absent", "queued"} => attempts[m] = failures[m] /\ attempts[m] < MaxAttempts
       /\ dpc[m] = "handling" => /\ attempts[m] = failures[m] + 1 /\ curr[m] = attempts[m]
                                 /\ attempts[m] <= MaxAttempts
       /\ dpc[m] \in {"handled", "dead"} => attempts[m] = 0
  BY DEF DlqCounted
<1>4. ASSUME NEW m \in Message, D!Arrive(m) PROVE DlqCounted'
  <2>1. /\ dpc[m] = "absent" /\ dpc' = [dpc EXCEPT ![m] = "queued"] /\ attempts' = attempts
        /\ dlqStore' = dlqStore /\ curr' = curr /\ failures' = failures
    BY <1>4 DEF D!Arrive
  <2> QED BY <1>2, <1>3, <2>1 DEF DlqCounted
<1>5. ASSUME NEW m \in Message, D!Count(m) PROVE DlqCounted'
  <2>1. /\ dpc[m] = "queued" /\ dpc' = [dpc EXCEPT ![m] = "handling"]
        /\ attempts' = [attempts EXCEPT ![m] = attempts[m] + 1]
        /\ curr' = [curr EXCEPT ![m] = attempts[m] + 1]
        /\ dlqStore' = dlqStore /\ failures' = failures
    BY <1>5 DEF D!Count
  <2>2. attempts[m] \in Nat /\ failures[m] = attempts[m] /\ attempts[m] < MaxAttempts
    BY <1>2, <1>3, <2>1
  <2>3. attempts[m] + 1 \in 0..MaxAttempts /\ attempts[m] + 1 \in Nat
    BY <1>1, <2>2
  <2>4. /\ dpc'[m] = "handling" /\ attempts'[m] = attempts[m] + 1 /\ curr'[m] = attempts[m] + 1
        /\ \A n \in Message : n # m => dpc'[n] = dpc[n] /\ attempts'[n] = attempts[n] /\ curr'[n] = curr[n]
    BY <1>2, <2>1, <2>3
  <2>5. /\ attempts' \in [Message -> Nat] /\ curr' \in [Message -> 0..MaxAttempts]
        /\ dpc' \in [Message -> {"absent", "queued", "handling", "handled", "dead"}]
    BY <1>2, <2>1, <2>3
  <2>6. \A n \in Message :
       /\ dpc'[n] \in {"absent", "queued"} => attempts'[n] = failures[n] /\ attempts'[n] < MaxAttempts
       /\ dpc'[n] = "handling" => /\ attempts'[n] = failures[n] + 1 /\ curr'[n] = attempts'[n]
                                  /\ attempts'[n] <= MaxAttempts
       /\ dpc'[n] \in {"handled", "dead"} => attempts'[n] = 0
    <3> SUFFICES ASSUME NEW n \in Message
        PROVE
       /\ dpc'[n] \in {"absent", "queued"} => attempts'[n] = failures[n] /\ attempts'[n] < MaxAttempts
       /\ dpc'[n] = "handling" => /\ attempts'[n] = failures[n] + 1 /\ curr'[n] = attempts'[n]
                                  /\ attempts'[n] <= MaxAttempts
       /\ dpc'[n] \in {"handled", "dead"} => attempts'[n] = 0
      OBVIOUS
    <3>1. CASE n = m
      BY <1>1, <2>2, <2>4, <3>1
    <3>2. CASE n # m
      BY <1>3, <2>4, <3>2
    <3> QED BY <3>1, <3>2
  <2> QED BY <1>2, <2>1, <2>5, <2>6 DEF DlqCounted
<1>6. ASSUME NEW m \in Message, D!HandlerSucceeds(m) PROVE DlqCounted'
  <2>1. /\ dpc[m] = "handling" /\ dpc' = [dpc EXCEPT ![m] = "handled"]
        /\ attempts' = [attempts EXCEPT ![m] = 0]
        /\ dlqStore' = dlqStore /\ failures' = failures /\ curr' = curr
    BY <1>6 DEF D!HandlerSucceeds
  <2> QED BY <1>2, <1>3, <2>1 DEF DlqCounted
<1>7. ASSUME NEW m \in Message, D!HandlerFails(m) PROVE DlqCounted'
  <2>1. /\ dpc[m] = "handling" /\ failures' = [failures EXCEPT ![m] = failures[m] + 1]
        /\ curr' = curr
        /\ \/ /\ dpc' = [dpc EXCEPT ![m] = "dead"] /\ attempts' = [attempts EXCEPT ![m] = 0]
              /\ dlqStore' = dlqStore \cup {m}
           \/ /\ ~(curr[m] >= MaxAttempts)
              /\ dpc' = [dpc EXCEPT ![m] = "queued"] /\ attempts' = attempts
              /\ dlqStore' = dlqStore
    BY <1>7 DEF D!HandlerFails, D!Last
  <2>2. /\ attempts[m] \in Nat /\ attempts[m] = failures[m] + 1 /\ curr[m] = attempts[m]
        /\ attempts[m] <= MaxAttempts
    BY <1>2, <1>3, <2>1
  <2>3. failures[m] + 1 \in 0..MaxAttempts
    BY <1>1, <1>2, <2>2
  <2>4. /\ failures'[m] = failures[m] + 1 /\ \A n \in Message : n # m => failures'[n] = failures[n]
        /\ \A n \in Message : n # m => dpc'[n] = dpc[n] /\ attempts'[n] = attempts[n]
        /\ \/ dpc'[m] = "dead" /\ attempts'[m] = 0
           \/ dpc'[m] = "queued" /\ attempts'[m] = attempts[m] /\ attempts[m] < MaxAttempts
    <3>1. ~(curr[m] >= MaxAttempts) => attempts[m] < MaxAttempts
      BY <1>1, <2>2
    <3> QED BY <1>2, <2>1, <3>1
  <2>5. /\ attempts' \in [Message -> Nat] /\ failures' \in [Message -> 0..MaxAttempts]
        /\ dpc' \in [Message -> {"absent", "queued", "handling", "handled", "dead"}]
        /\ dlqStore' \subseteq Message
    BY <1>2, <2>1, <2>3
  <2>6. \A n \in Message :
       /\ dpc'[n] \in {"absent", "queued"} => attempts'[n] = failures'[n] /\ attempts'[n] < MaxAttempts
       /\ dpc'[n] = "handling" => /\ attempts'[n] = failures'[n] + 1 /\ curr[n] = attempts'[n]
                                  /\ attempts'[n] <= MaxAttempts
       /\ dpc'[n] \in {"handled", "dead"} => attempts'[n] = 0
    <3> SUFFICES ASSUME NEW n \in Message
        PROVE
       /\ dpc'[n] \in {"absent", "queued"} => attempts'[n] = failures'[n] /\ attempts'[n] < MaxAttempts
       /\ dpc'[n] = "handling" => /\ attempts'[n] = failures'[n] + 1 /\ curr[n] = attempts'[n]
                                  /\ attempts'[n] <= MaxAttempts
       /\ dpc'[n] \in {"handled", "dead"} => attempts'[n] = 0
      OBVIOUS
    <3>1. CASE n = m
      BY <2>2, <2>4, <3>1
    <3>2. CASE n # m
      BY <1>3, <2>4, <3>2
    <3> QED BY <3>1, <3>2
  <2> QED BY <1>2, <2>1, <2>5, <2>6 DEF DlqCounted
<1>8. CASE UNCHANGED dlqVars
  BY <1>8 DEF dlqVars, DlqCounted
<1> QED BY <1>4, <1>5, <1>6, <1>7, <1>8 DEF D!DlqNext

\* A set that has 0 and the successors of its members has every natural number.
LEMMA Induction ==
  ASSUME NEW Good, 0 \in Good, \A n \in Nat : n \in Good => n + 1 \in Good
  PROVE  Nat \subseteq Good
<1> SUFFICES ASSUME Nat \ Good # {} PROVE FALSE
  OBVIOUS
<1> DEFINE Less == {ss \in Nat \X Nat : ss[1] < ss[2]}
<1>1. IsWellFoundedOn(Less, Nat)
  BY ONLY NatLessThanWellFounded DEF OpToRel
<1> HIDE DEF Less
<1>2. PICK n \in Nat \ Good : \A m \in Nat \ Good : <<m, n>> \notin Less
  BY <1>1, WFMin
<1>3. n # 0 /\ n - 1 \in Nat /\ n = (n - 1) + 1
  BY <1>2
<1>4. <<n - 1, n>> \in Less
  BY <1>3 DEF Less
<1> QED BY <1>2, <1>3, <1>4

\* f doubles from 1 as far as n.
Doubles(f, n) == f = [i \in 0..n |-> IF i = 0 THEN 1 ELSE 2 * f[i - 1]]

\* There is a function that does, with values that are positive.
LEMMA Doubling ==
  ASSUME NEW m \in Nat
  PROVE  \E f \in [0..m -> Nat \ {0}] : Doubles(f, m)
<1> DEFINE Good == {n \in Nat : \E f \in [0..n -> Nat \ {0}] : Doubles(f, n)}
<1>1. 0 \in Good
  <2> DEFINE f == [i \in 0..0 |-> 1]
  <2>1. f \in [0..0 -> Nat \ {0}]
    OBVIOUS
  <2>2. f = [i \in 0..0 |-> IF i = 0 THEN 1 ELSE 2 * f[i - 1]]
    OBVIOUS
  <2> HIDE DEF f
  <2> QED BY <2>1, <2>2 DEF Doubles
<1>2. ASSUME NEW n \in Nat, n \in Good PROVE n + 1 \in Good
  <2>1. PICK f \in [0..n -> Nat \ {0}] : Doubles(f, n)
    BY <1>2
  <2> DEFINE g == [i \in 0..(n + 1) |-> IF i = n + 1 THEN 2 * f[n] ELSE f[i]]
  <2>2. f[n] \in Nat \ {0}
    OBVIOUS
  <2>3. g \in [0..(n + 1) -> Nat \ {0}]
    BY <2>2
  <2>4. g[n + 1] = 2 * f[n] /\ \A i \in 0..n : g[i] = f[i]
    OBVIOUS
  <2>5. \A i \in 0..n : f[i] = IF i = 0 THEN 1 ELSE 2 * f[i - 1]
    BY <2>1 DEF Doubles
  <2> HIDE DEF g
  <2>6. ASSUME NEW i \in 0..(n + 1) PROVE g[i] = IF i = 0 THEN 1 ELSE 2 * g[i - 1]
    <3>1. CASE i = n + 1
      <4>1. i # 0 /\ i - 1 = n /\ g[n] = f[n]
        BY <2>4, <3>1
      <4> QED BY <2>4, <3>1, <4>1
    <3>2. CASE i # n + 1
      <4>1. i \in 0..n /\ (i # 0 => i - 1 \in 0..n)
        BY <3>2
      <4> QED BY <2>4, <2>5, <4>1
    <3> QED BY <3>1, <3>2
  <2>7. Doubles(g, n + 1)
    <3>1. g = [i \in 0..(n + 1) |-> g[i]]
      BY <2>3
    <3> QED BY <2>6, <3>1 DEF Doubles
  <2> QED BY <2>3, <2>7
<1>3. Nat \subseteq Good
  <2> HIDE DEF Good
  <2> QED BY <1>1, <1>2, Induction
<1> QED BY <1>3

\* A shift is the last value of such a function,
LEMMA ShiftIs ==
  ASSUME NEW n \in Nat
  PROVE  \E f \in [0..n -> Nat \ {0}] : Doubles(f, n) /\ D!Shifted(n) = f[n]
<1> DEFINE shifted == CHOOSE f : f = [i \in 0..n |-> IF i = 0 THEN 1 ELSE 2 * f[i - 1]]
<1>1. D!Shifted(n) = shifted[n]
  BY Zenon DEF D!Shifted
<1>2. PICK g \in [0..n -> Nat \ {0}] : Doubles(g, n)
  BY Doubling
<1>3. shifted = CHOOSE f : Doubles(f, n)
  BY Zenon DEF Doubles
<1> HIDE DEF shifted
<1>4. Doubles(shifted, n)
  BY <1>2, <1>3
<1>5. \A i \in 0..n : shifted[i] = IF i = 0 THEN 1 ELSE 2 * shifted[i - 1]
  BY <1>4 DEF Doubles
<1>6. \A i \in 0..n : g[i] = IF i = 0 THEN 1 ELSE 2 * g[i - 1]
  BY <1>2 DEF Doubles
<1> DEFINE Good == {k \in Nat : k <= n => shifted[k] = g[k]}
<1>7. 0 \in Good
  BY <1>5, <1>6
<1>8. ASSUME NEW k \in Nat, k \in Good PROVE k + 1 \in Good
  <2> SUFFICES ASSUME k + 1 <= n PROVE shifted[k + 1] = g[k + 1]
    OBVIOUS
  <2>1. k <= n /\ k + 1 \in 0..n /\ k + 1 # 0 /\ (k + 1) - 1 = k
    OBVIOUS
  <2>2. shifted[k] = g[k]
    BY <1>8, <2>1
  <2> QED BY <1>5, <1>6, <2>1, <2>2
<1>9. Nat \subseteq Good
  <2> HIDE DEF Good
  <2> QED BY <1>7, <1>8, Induction
<1>10. shifted[n] = g[n]
  BY <1>9
<1> QED BY <1>1, <1>2, <1>10

\* so that shifting by one more doubles it.
LEMMA ShiftDoubles ==
  ASSUME NEW n \in Nat
  PROVE  /\ D!Shifted(0) = 1 /\ D!Shifted(n) \in Nat \ {0}
         /\ D!Shifted(n + 1) = 2 * D!Shifted(n)
<1>1. \A m \in Nat : D!Shifted(m) \in Nat \ {0} /\ (m = 0 => D!Shifted(m) = 1)
  <2> SUFFICES ASSUME NEW m \in Nat
               PROVE  D!Shifted(m) \in Nat \ {0} /\ (m = 0 => D!Shifted(m) = 1)
    OBVIOUS
  <2>1. PICK f \in [0..m -> Nat \ {0}] : Doubles(f, m) /\ D!Shifted(m) = f[m]
    BY ShiftIs
  <2>2. m = 0 => f[m] = 1
    BY <2>1 DEF Doubles
  <2> QED BY <2>1, <2>2
<1>2. PICK f \in [0..n -> Nat \ {0}] : Doubles(f, n) /\ D!Shifted(n) = f[n]
  BY ShiftIs
<1>3. n + 1 \in Nat
  OBVIOUS
<1>4. PICK g \in [0..(n + 1) -> Nat \ {0}] : Doubles(g, n + 1) /\ D!Shifted(n + 1) = g[n + 1]
  BY <1>3, ShiftIs
<1>5. \A i \in 0..n : f[i] = IF i = 0 THEN 1 ELSE 2 * f[i - 1]
  BY <1>2 DEF Doubles
<1>6. \A i \in 0..(n + 1) : g[i] = IF i = 0 THEN 1 ELSE 2 * g[i - 1]
  BY <1>4 DEF Doubles
<1> DEFINE Good == {k \in Nat : k <= n => f[k] = g[k]}
<1>7. 0 \in Good
  BY <1>5, <1>6
<1>8. ASSUME NEW k \in Nat, k \in Good PROVE k + 1 \in Good
  <2> SUFFICES ASSUME k + 1 <= n PROVE f[k + 1] = g[k + 1]
    OBVIOUS
  <2>1. k <= n /\ k + 1 \in 0..n /\ k + 1 \in 0..(n + 1) /\ k + 1 # 0 /\ (k + 1) - 1 = k
    OBVIOUS
  <2>2. f[k] = g[k]
    BY <1>8, <2>1
  <2> QED BY <1>5, <1>6, <2>1, <2>2
<1>9. Nat \subseteq Good
  <2> HIDE DEF Good
  <2> QED BY <1>7, <1>8, Induction
<1>10. f[n] = g[n]
  BY <1>9
<1>11. g[n + 1] = 2 * g[n]
  <2>1. n + 1 \in 0..(n + 1) /\ n + 1 # 0 /\ (n + 1) - 1 = n
    OBVIOUS
  <2> QED BY <1>6, <2>1
<1> QED BY <1>1, <1>2, <1>4, <1>10, <1>11

\* What fits in the width does not wrap.
LEMMA Fits ==
  ASSUME Width \in Nat \ {0}, NEW n \in Nat, n < D!Shifted(Width - 1)
  PROVE  D!Wrapped(n) = n
<1> DEFINE h == D!Shifted(Width - 1)
<1>1. Width - 1 \in Nat /\ (Width - 1) + 1 = Width
  OBVIOUS
<1>2. h \in Nat /\ D!Shifted(Width) = 2 * h
  <2>1. D!Shifted(Width - 1) \in Nat \ {0} /\ D!Shifted((Width - 1) + 1) = 2 * D!Shifted(Width - 1)
    BY <1>1, ShiftDoubles
  <2> QED BY <1>1, <2>1
<1>3. D!Wrapped(n) = ((n + h) % (2 * h)) - h
  BY <1>2 DEF D!Wrapped
<1>4. n < h
  OBVIOUS
<1> HIDE DEF h
<1>5. n + h \in Nat /\ 2 * h \in Nat /\ n + h < 2 * h
  BY <1>2, <1>4
<1>6. \A a, b \in Nat : a < b => a % b = a
  OBVIOUS
<1>7. (n + h) % (2 * h) = n + h
  BY <1>5, <1>6
<1> QED BY <1>2, <1>3, <1>7

\* What was wrapped is a value of the width.
LEMMA Wraps ==
  ASSUME Width \in Nat \ {0}, NEW n \in Int
  PROVE  D!Wrapped(n) \in Int /\ D!Wrapped(n) >= -D!Shifted(Width - 1)
<1> DEFINE h == D!Shifted(Width - 1)
<1>1. Width - 1 \in Nat /\ (Width - 1) + 1 = Width
  OBVIOUS
<1>2. h \in Nat \ {0} /\ D!Shifted(Width) = 2 * h
  <2>1. D!Shifted(Width - 1) \in Nat \ {0} /\ D!Shifted((Width - 1) + 1) = 2 * D!Shifted(Width - 1)
    BY <1>1, ShiftDoubles
  <2> QED BY <1>1, <2>1
<1>3. D!Wrapped(n) = ((n + h) % (2 * h)) - h
  BY <1>2 DEF D!Wrapped
<1> HIDE DEF h
<1>4. n + h \in Int /\ 2 * h \in Nat \ {0}
  BY <1>2
<1>5. \A a \in Int : \A b \in Nat \ {0} : a % b \in Nat
  OBVIOUS
<1>6. (n + h) % (2 * h) \in Nat
  BY ONLY <1>4, <1>5
<1>7. D!Wrapped(n) \in Int /\ D!Wrapped(n) >= -h
  BY <1>2, <1>3, <1>6
<1> QED BY <1>7 DEF h

\* The delay of an attempt is the base doubled, or the maximum, unless that overflows; then it is
\* a value of the width below the maximum. The next is no shorter unless it overflows.
LEMMA Delays ==
  ASSUME D!RetryParameters, D!JobParameters, NEW n \in Nat \ {0}
  PROVE  /\ D!Delay(n) \in Int /\ D!Delay(n) <= MaxBackoff
         /\ D!Delay(n) >= -D!Shifted(Width - 1)
         /\ ~D!Overflows(n) => D!Delay(n) >= BaseBackoff
         /\ ~D!Overflows(n + 1) => D!Delay(n) <= D!Delay(n + 1)
<1>1. /\ MaxBackoff \in Nat /\ BaseBackoff \in Nat /\ 1 <= BaseBackoff /\ BaseBackoff <= MaxBackoff
      /\ Width \in Nat \ {0}
  BY DEF D!RetryParameters, D!JobParameters
<1>2. D!Shifted(Width - 1) \in Nat
  <2>1. Width - 1 \in Nat
    BY <1>1
  <2> QED BY <2>1, ShiftDoubles
<1>3. /\ D!Delay(n) \in Int /\ D!Delay(n) <= MaxBackoff
      /\ D!Delay(n) >= -D!Shifted(Width - 1)
  <2> DEFINE s == D!Shifted(n - 1)
             v == D!Wrapped(s)
             d == D!Wrapped(BaseBackoff * v)
  <2>1. s \in Int
    <3>1. n - 1 \in Nat
      OBVIOUS
    <3> QED BY <3>1, ShiftDoubles
  <2>2. D!Delay(n) = IF d > MaxBackoff THEN MaxBackoff ELSE d
    BY DEF D!Delay
  <2> HIDE DEF s
  <2>3. v \in Int
    BY <1>1, <2>1, Wraps
  <2> HIDE DEF v
  <2>4. BaseBackoff * v \in Int
    BY <1>1, <2>3
  <2>5. d \in Int /\ d >= -D!Shifted(Width - 1)
    BY <1>1, <2>4, Wraps
  <2> HIDE DEF d
  <2> QED BY <1>1, <1>2, <2>2, <2>5
<1>4. ASSUME NEW k \in Nat \ {0}
      PROVE  /\ D!Exact(k) \in Nat /\ D!Exact(k) >= BaseBackoff
             /\ D!Exact(k + 1) = 2 * D!Exact(k)
  <2> DEFINE s == D!Shifted(k - 1)
  <2>1. k - 1 \in Nat /\ (k + 1) - 1 = (k - 1) + 1
    OBVIOUS
  <2>2. s \in Nat \ {0} /\ D!Shifted((k - 1) + 1) = 2 * s
    BY <2>1, ShiftDoubles
  <2>3. D!Shifted((k + 1) - 1) = 2 * s
    BY <2>1, <2>2
  <2>4. D!Exact(k) = BaseBackoff * s /\ D!Exact(k + 1) = BaseBackoff * (2 * s)
    BY <2>3 DEF D!Exact
  <2> HIDE DEF s
  <2>5. \A a, b \in Nat \ {0} : a * b \in Nat /\ a * b >= a /\ a * (2 * b) = 2 * (a * b)
    <3> SUFFICES ASSUME NEW a \in Nat \ {0}, NEW b \in Nat \ {0}
                 PROVE  a * b \in Nat /\ a * b >= a /\ a * (2 * b) = 2 * (a * b)
      OBVIOUS
    <3>1. a * b = a + a * (b - 1) /\ a * (b - 1) \in Nat
      OBVIOUS
    <3>2. a * (2 * b) = 2 * (a * b)
      OBVIOUS
    <3> QED BY <3>1, <3>2
  <2> QED BY <1>1, <2>2, <2>4, <2>5
<1>5. ASSUME NEW k \in Nat \ {0}, ~D!Overflows(k)
      PROVE  D!Delay(k) = IF D!Exact(k) > MaxBackoff THEN MaxBackoff ELSE D!Exact(k)
  <2> DEFINE s == D!Shifted(k - 1)
  <2>1. k - 1 \in Nat
    OBVIOUS
  <2>2. s \in Nat \ {0}
    BY <2>1, ShiftDoubles
  <2>3. D!Exact(k) = BaseBackoff * s
    BY DEF D!Exact
  <2>4. D!Delay(k) = LET d == D!Wrapped(BaseBackoff * D!Wrapped(s))
                     IN IF d > MaxBackoff THEN MaxBackoff ELSE d
    BY DEF D!Delay, s
  <2> HIDE DEF s
  <2>5. D!Exact(k) < D!Shifted(Width - 1) /\ D!Exact(k) \in Nat
    BY <1>2, <1>4, <1>5 DEF D!Overflows
  <2>6. \A a, b \in Nat \ {0} : a * b >= b
    <3> SUFFICES ASSUME NEW a \in Nat \ {0}, NEW b \in Nat \ {0}
                 PROVE  a * b >= b
      OBVIOUS
    <3>1. a * b = b + (a - 1) * b /\ (a - 1) * b \in Nat
      OBVIOUS
    <3> QED BY <3>1
  <2>7. BaseBackoff * s >= s
    BY <1>1, <2>2, <2>6
  <2>8. s \in Nat /\ s < D!Shifted(Width - 1)
    BY <1>2, <2>2, <2>3, <2>5, <2>7
  <2>9. D!Wrapped(s) = s
    BY <1>1, <2>8, Fits
  <2>10. D!Wrapped(BaseBackoff * s) = BaseBackoff * s
    <3>1. BaseBackoff * s \in Nat /\ BaseBackoff * s < D!Shifted(Width - 1)
      BY <2>3, <2>5
    <3> QED BY <1>1, <3>1, Fits
  <2> QED BY <2>3, <2>4, <2>9, <2>10
<1>6. ~D!Overflows(n) => D!Delay(n) >= BaseBackoff
  BY <1>1, <1>4, <1>5
<1>7. ASSUME ~D!Overflows(n + 1) PROVE D!Delay(n) <= D!Delay(n + 1)
  <2>1. n + 1 \in Nat \ {0}
    OBVIOUS
  <2>2. D!Exact(n) \in Nat /\ D!Exact(n + 1) = 2 * D!Exact(n)
    BY <1>4
  <2>3. ~D!Overflows(n)
    BY <1>2, <1>7, <2>2 DEF D!Overflows
  <2>4. /\ D!Delay(n) = IF D!Exact(n) > MaxBackoff THEN MaxBackoff ELSE D!Exact(n)
        /\ D!Delay(n + 1) = IF D!Exact(n + 1) > MaxBackoff THEN MaxBackoff ELSE D!Exact(n + 1)
    BY <1>5, <1>7, <2>1, <2>3
  <2> QED BY <1>1, <2>2, <2>4
<1> QED BY <1>3, <1>6, <1>7

\* A job is quarantined when its attempts are used up; one that is tried again has the delay
\* of its last attempt.
JobTyped ==
  /\ managed \in [State : {"READY", "RETRYING", "QUARANTINED"},
                  Attempts : 0..MaxJobAttempts \cup {1},
                  delay : -D!Shifted(Width - 1)..MaxBackoff]
  /\ managed.State = "READY" => managed.Attempts = 0 /\ managed.delay = 0
  /\ managed.State = "RETRYING" => /\ managed.Attempts \in 1..MaxJobAttempts - 1
                                   /\ managed.delay = D!Delay(managed.Attempts)

\* A failure ends the job or makes it wait for at least as long as the one before, unless
\* the doubled base overflows.
Grows ==
  managed'.State = "RETRYING" =>
    /\ managed'.delay <= MaxBackoff
    /\ managed'.delay < BaseBackoff \/ managed'.delay < managed.delay
         => D!Overflows(managed'.Attempts)

LEMMA JobStep ==
  ASSUME D!RetryParameters, D!JobParameters, JobTyped, [D!JobNext]_managed
  PROVE  JobTyped' /\ [Grows]_managed
<1>1. /\ MaxJobAttempts \in Nat /\ MaxBackoff \in Nat /\ BaseBackoff \in Nat
      /\ D!Shifted(Width - 1) \in Nat
  <2>1. MaxJobAttempts \in Nat /\ MaxBackoff \in Nat /\ BaseBackoff \in Nat /\ Width - 1 \in Nat
    BY DEF D!JobParameters, D!RetryParameters
  <2> QED BY <2>1, ShiftDoubles
<1>2. CASE UNCHANGED managed
  BY <1>2 DEF JobTyped
<1>3. CASE D!HandleJobFailure
  <2> DEFINE n == managed.Attempts + 1
  <2>1. /\ managed.State # "QUARANTINED"
        /\ managed' = IF n >= MaxJobAttempts
              THEN [State |-> "QUARANTINED", Attempts |-> n, delay |-> 0]
              ELSE [State |-> "RETRYING", Attempts |-> n, delay |-> D!Delay(n)]
    BY <1>3 DEF D!HandleJobFailure
  <2>2. /\ managed.Attempts \in Nat /\ (managed.Attempts = 0 \/ managed.Attempts < MaxJobAttempts)
        /\ \/ managed.Attempts = 0 /\ managed.delay = 0
           \/ managed.Attempts \in Nat \ {0} /\ managed.delay = D!Delay(managed.Attempts)
    BY <1>1, <2>1 DEF JobTyped
  <2>3. n \in Nat \ {0} /\ n \in 0..MaxJobAttempts \cup {1}
    BY <1>1, <2>2
  <2>4. 0 \in -D!Shifted(Width - 1)..MaxBackoff
    BY <1>1
  <2>5. /\ D!Delay(n) \in Int /\ D!Delay(n) <= MaxBackoff
        /\ D!Delay(n) >= -D!Shifted(Width - 1)
        /\ ~D!Overflows(n) => D!Delay(n) >= BaseBackoff
    <3> HIDE DEF n
    <3> QED BY <2>3, Delays
  <2>6. ~D!Overflows(n) => managed.delay <= D!Delay(n)
    <3>1. CASE managed.Attempts = 0 /\ managed.delay = 0
      <4> HIDE DEF n
      <4> QED BY <1>1, <2>5, <3>1
    <3>2. CASE managed.Attempts \in Nat \ {0} /\ managed.delay = D!Delay(managed.Attempts)
      BY <3>2, Delays
    <3> QED BY <2>2, <3>1, <3>2
  <2>7. D!Delay(n) \in -D!Shifted(Width - 1)..MaxBackoff
    <3> HIDE DEF n
    <3> QED BY <1>1, <2>5
  <2>8. managed.delay \in Int
    BY <1>1 DEF JobTyped
  <2> HIDE DEF n
  <2>9. CASE n >= MaxJobAttempts
    <3>1. managed' = [State |-> "QUARANTINED", Attempts |-> n, delay |-> 0]
      BY <2>1, <2>9
    <3> QED BY <2>3, <2>4, <3>1 DEF JobTyped, Grows
  <2>10. CASE n < MaxJobAttempts
    <3>1. managed' = [State |-> "RETRYING", Attempts |-> n, delay |-> D!Delay(n)]
      BY <1>1, <2>1, <2>3, <2>10
    <3>2. n \in 1..MaxJobAttempts - 1
      BY <1>1, <2>3, <2>10
    <3>3. managed'.State = "RETRYING" /\ managed'.Attempts = n /\ managed'.delay = D!Delay(n)
      BY <3>1
    <3>4. D!Delay(n) < BaseBackoff \/ D!Delay(n) < managed.delay => D!Overflows(n)
      BY <1>1, <2>5, <2>6, <2>8
    <3>5. Grows
      BY ONLY <2>5, <3>3, <3>4 DEF Grows
    <3>6. JobTyped'
      BY <2>3, <2>7, <3>1, <3>2 DEF JobTyped
    <3> QED BY <3>5, <3>6
  <2> QED BY <1>1, <2>3, <2>9, <2>10
<1> QED BY <1>2, <1>3 DEF D!JobNext

-----------------------------------------------------------------------------
(* The suite. *)

\* A step of the suite is a step of each part, or none.
LEMMA SuiteMoves ==
  ASSUME [SuiteNext]_suiteVars
  PROVE  /\ [PipelineNext]_pipelineVars /\ [K!InboxNext]_inboxVars /\ [D!CallNext]_callVars
         /\ [D!DlqNext]_dlqVars /\ [D!JobNext]_managed
         /\ [K!GracefulNext]_gracefulVars /\ [K!RouterNext]_routerVars
<1>1. CASE SuiteNext
  <2>1. /\ part # "pipeline" => UNCHANGED pipelineVars
        /\ part # "inbox" => UNCHANGED inboxVars
        /\ part # "requests" => UNCHANGED callVars
        /\ part # "dlq" => UNCHANGED dlqVars
        /\ part # "job" => UNCHANGED managed
        /\ part # "graceful" => UNCHANGED gracefulVars
        /\ part # "router" => UNCHANGED routerVars
    BY <1>1 DEF SuiteNext, Rests, pipelineVars
  <2> QED BY <1>1, <2>1 DEF SuiteNext
<1>2. CASE UNCHANGED suiteVars
  BY <1>2 DEF suiteVars, pipelineVars
<1> QED BY <1>1, <1>2
LEMMA RestStarts ==
  ASSUME D!RetryParameters, D!JobParameters, D!Init
  PROVE  DlqCounted /\ JobTyped
<1>1. /\ attempts = [m \in Message |-> 0] /\ dlqStore = {} /\ dpc = [m \in Message |-> "absent"]
      /\ curr = [m \in Message |-> 0] /\ failures = [m \in Message |-> 0]
      /\ managed = [State |-> "READY", Attempts |-> 0, delay |-> 0]
      /\ MaxAttempts \in Nat \ {0} /\ MaxJobAttempts \in Nat /\ MaxBackoff \in Nat
      /\ Width - 1 \in Nat
  BY DEF D!Init, D!RetryParameters, D!JobParameters
<1>2. DlqCounted
  BY <1>1 DEF DlqCounted
<1>4. 0 \in -D!Shifted(Width - 1)..MaxBackoff
  <2>1. D!Shifted(Width - 1) \in Nat
    BY <1>1, ShiftDoubles
  <2> QED BY <1>1, <2>1
<1>3. JobTyped
  BY <1>1, <1>4 DEF JobTyped
<1> QED BY <1>2, <1>3

\* The parts keep their types, each with the invariant that carries it.
LEMMA RetriesTyped ==
  ASSUME CallTyped, DlqCounted, JobTyped, D!RetryParameters
  PROVE  D!TypeOK
<1>1. attempts \in [Message -> 0..MaxAttempts]
  <2>1. \A m \in Message : attempts[m] \in 0..MaxAttempts
    BY DEF DlqCounted, D!RetryParameters
  <2> QED BY <2>1 DEF DlqCounted
<1>2. /\ dlqStore \subseteq Message
      /\ dpc \in [Message -> {"absent", "queued", "handling", "handled", "dead"}]
      /\ curr \in [Message -> 0..MaxAttempts] /\ failures \in [Message -> 0..MaxAttempts]
  BY DEF DlqCounted
<1>3. managed \in [State : {"READY", "RETRYING", "QUARANTINED"},
                   Attempts : 0..MaxJobAttempts \cup {1},
                   delay : -D!Shifted(Width - 1)..MaxBackoff]
  BY DEF JobTyped
<1>4. /\ stage \in [Client -> {"idle", "check", "send", "awaits", "backoff", "succeeded", "failed"}]
      /\ attempt \in [Client -> 0..MaxTries] /\ givenUp \subseteq Client
      /\ request \in [D!Attempt -> {"none", "sent", "locked", "executed", "answered", "conflict",
                                     "died"}]
      /\ cache \in D!Attempt \cup {D!NoRequest}
      /\ response \in [Client -> D!Attempt \cup {D!NoRequest}]
  BY DEF CallTyped
<1>5. keyLocked \in BOOLEAN
  BY DEF CallTyped
<1> QED BY <1>1, <1>2, <1>3, <1>4, <1>5 DEF D!TypeOK

SuiteInv ==
  PipelineTyped /\ InboxInv /\ RetryInv /\ DlqCounted /\ JobTyped /\ GracefulInv /\ RouterInv

LEMMA SuiteStarts ==
  ASSUME SuiteInit
  PROVE  SuiteInv /\ PipelineInv /\ E!Init /\ K!E!Init
<1>1. /\ PipelineParameters /\ D!RetryParameters /\ D!JobParameters /\ K!ConsumerParameters
      /\ PipelineInit /\ K!InboxInit /\ D!Init /\ K!GracefulInit /\ K!RouterInit
  BY Parameters DEF SuiteInit
<1>2. PipelineInv /\ PipelineTyped /\ E!Init
  BY <1>1, PipelineStarts DEF PipelineInv
<1>3. InboxInv /\ K!E!Init
  BY <1>1, InboxStarts
<1>4. RetryInv /\ DlqCounted /\ JobTyped
  BY <1>1, RetryStarts, RestStarts
<1>5. GracefulInv /\ RouterInv
  BY <1>1, GracefulStarts, RouterStarts
<1> QED BY <1>2, <1>3, <1>4, <1>5 DEF SuiteInv

LEMMA SuiteStep ==
  ASSUME SuiteInv, [SuiteNext]_suiteVars
  PROVE  SuiteInv'
<1>1. PipelineParameters /\ D!RetryParameters /\ D!JobParameters /\ K!ConsumerParameters
  BY Parameters
<1>2. /\ [PipelineNext]_pipelineVars /\ [K!InboxNext]_inboxVars /\ [D!CallNext]_callVars
      /\ [D!DlqNext]_dlqVars /\ [D!JobNext]_managed
      /\ [K!GracefulNext]_gracefulVars /\ [K!RouterNext]_routerVars
  BY SuiteMoves
<1>3. PipelineTyped'
  BY <1>1, <1>2, PipelineStep DEF SuiteInv
<1>4. InboxInv'
  BY <1>2, InboxStep DEF SuiteInv
<1>5. RetryInv'
  BY <1>1, <1>2, RetryStep DEF SuiteInv
<1>6. DlqCounted' /\ JobTyped'
  BY <1>1, <1>2, DlqStep, JobStep DEF SuiteInv
<1>7. GracefulInv'
  BY <1>1, <1>2, GracefulStep DEF SuiteInv
<1>8. RouterInv'
  BY <1>1, <1>2, RouterStep DEF SuiteInv
<1> QED BY <1>3, <1>4, <1>5, <1>6, <1>7, <1>8 DEF SuiteInv

LEMMA SuiteHolds == SuiteSpec => []SuiteInv
<1>1. SuiteInit => SuiteInv
  BY SuiteStarts
<1>2. SuiteInv /\ [SuiteNext]_suiteVars => SuiteInv'
  BY SuiteStep
<1> QED BY <1>1, <1>2, PTL DEF SuiteSpec

\* HandleJobFailure, for any backoffs, width and number of attempts: no delay exceeds the
\* maximum, and one is shorter than the base backoff or the one before it only at an attempt
\* whose doubled base overflows the width.
THEOREM BackoffGrowsHolds == SuiteSpec => D!BackoffGrows
<1>1. SuiteInv /\ [SuiteNext]_suiteVars => [Grows]_managed
  BY SuiteMoves, JobStep, Parameters DEF SuiteInv, Parameters
<1>2. SuiteSpec => []SuiteInv
  BY SuiteHolds
<1>3. SuiteSpec => [][SuiteNext]_suiteVars
  BY PTL DEF SuiteSpec
<1> QED BY <1>1, <1>2, <1>3, PTL DEF D!BackoffGrows, Grows

\* Every part of 15_messaging and of what is tried again keeps its types, the bounds of
\* the dead-letter counters and of the job's delays among them.
THEOREM SuiteKeepsTypes == SuiteSpec => []SuiteTypeOK
<1>1. SuiteInv => SuiteTypeOK
  BY Parameters, RetriesTyped
     DEF SuiteInv, PipelineTyped, InboxInv, RetryInv, GracefulInv, RouterInv, SuiteTypeOK
<1> QED BY <1>1, SuiteHolds, PTL

\* Shutdown that returns nil has drained what it accepted, and Stop has drained the
\* partitions unless the context was cancelled.
THEOREM SuiteDrains == SuiteSpec => []DrainsComplete
<1>1. SuiteInv => DrainsComplete
  BY Parameters, GracefulMeans, RouterMeans DEF SuiteInv, DrainsComplete
<1> QED BY <1>1, SuiteHolds, PTL

\* Messages of a key are handled in the order they were routed in, none lost or twice.
THEOREM SuiteKeepsOrder == SuiteSpec => []PerKeyFifo
<1>1. SuiteInv => PerKeyFifo
  BY RouterMeans DEF SuiteInv, PerKeyFifo
<1> QED BY <1>1, SuiteHolds, PTL

\* Requests with one idempotency key that overtake and outlive one another run the
\* operation at most once, and all that succeed return its response.
THEOREM SuiteRunsOnce == SuiteSpec => []RetriedOnce
<1>1. SuiteInv => RetriedOnce
  BY RetryMeans DEF SuiteInv, RetriedOnce
<1> QED BY <1>1, SuiteHolds, PTL

\* Behind the outbox with its racing and crashing publishers, for one consuming
\* goroutine, and behind the inbox, for any number: each event is handled as
\* ExactlyOnce says.
THEOREM SuiteHandlesOnce ==
  ASSUME OneConsumer
  PROVE  SuiteSpec => HandledExactlyOnce
<1>1. SuiteInit => SuiteInv /\ PipelineInv /\ E!Init /\ K!E!Init
  BY SuiteStarts
<1>2. SuiteInv /\ PipelineInv /\ [SuiteNext]_suiteVars
        => SuiteInv' /\ PipelineInv' /\ [E!Next]_(E!vars) /\ [K!E!Next]_(K!E!vars)
  <2> SUFFICES ASSUME SuiteInv, PipelineInv, [SuiteNext]_suiteVars
               PROVE  SuiteInv' /\ PipelineInv' /\ [E!Next]_(E!vars) /\ [K!E!Next]_(K!E!vars)
    OBVIOUS
  <2>1. SuiteInv' /\ PipelineParameters
    BY SuiteStep, Parameters
  <2>2. [PipelineNext]_pipelineVars /\ [K!InboxNext]_inboxVars
    BY SuiteMoves
  <2>3. PipelineInv' /\ PipelineHandles
    BY <2>1, <2>2, PipelineStep DEF PipelineInv
  <2>4. InboxHandles
    BY <2>2, InboxStep DEF SuiteInv
  <2> QED BY <2>1, <2>3, <2>4, PipelineRefines, InboxRefines
<1> QED BY <1>1, <1>2, PTL
        DEF SuiteSpec, HandledExactlyOnce, PipelineExactlyOnce, K!InboxExactlyOnce, E!Spec, K!E!Spec

=============================================================================
