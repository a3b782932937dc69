----------------------------- MODULE MCResilience -----------------------------
(***************************************************************************)
(* What keeps a server from being overloaded, checked in one run: token    *)
(* bucket, circuit breaker, connection pool, load shedders, bulkheads, and *)
(* the chain of middlewares that a request passes.  They share no state,   *)
(* so a behaviour exercises one of them.                                   *)
(***************************************************************************)
EXTENDS TokenBucket, Sequences, TLC

CONSTANTS Caller, FailureThreshold, SuccessThreshold, CooldownTimeout, \* of the breaker
          MaxOutages,
          User, MaxCapacity, MaxConns, MayCloseTwice,              \* the pool
          MaxInFlight, MaxRequests, Request, TargetSLA, MaxActive, \* the load shedders
          Fast, Slow, MaxSpikes,
          Workload, Worker, Job, QueueSize, Hanging,               \* the bulkheads
          Dependency, MaxConcurrency, MaxRegistrations,
          Visitor, MaxActiveRequests,                              \* the chain
          Exercised

VARIABLES part,                                            \* the component exercised
          state, consecutiveFails, consecutiveSuccess, cooldown, call,
          healthy, outages, hits,                          \* the breaker
          permits, idleConns, nextID, released, pc, conn, again, \* the pool
          currentInFlight, admitted, dropping,             \* the load shedders
          currentEMA, activeCount, active, degraded, spikes,
          queues, worker, cancelled, accepted, runs,       \* the bulkheads
          registered, slots, using,
          at, handler, panicChan, expired, activeRequests, \* the chain
          wroteHeader, statusCode, sent, recorded, requestCount, counter, count

B == INSTANCE CircuitBreaker
L == INSTANCE Limits
R == INSTANCE RequestChain WITH Request <- Visitor

ASSUME Parameters ==
  /\ TokenBucketParameters /\ B!BreakerParameters /\ L!PoolParameters
  /\ L!ShedderParameters /\ L!BulkheadParameters /\ R!ChainParameters

\* Values for the constants.
CONSTANTS k1, k2, r1, r2, r3, w1, w2, j1, j2, j3, j4

MCTwo == {r1, r2}
MCThree == {r1, r2, r3}
MCDependency == {k1, k2}
MCWorkload == {"PAYMENT", "EMAIL"}
MCHanging == {"EMAIL"}
MCWorker == [PAYMENT |-> {w1}, EMAIL |-> {w2}]
MCJob == [PAYMENT |-> {j1, j2}, EMAIL |-> {j3, j4}]
AllParts ==
  {"bucket", "breaker", "pool", "shedder", "latency", "workloads", "tokens", "chain"}
OnlyPool == {"pool"}
OnlyTokens == {"tokens"}
OnlyLatency == {"latency"}
OnlyChain == {"chain"}

breakerVars == <<state, consecutiveFails, consecutiveSuccess, cooldown, call,
                 healthy, outages, hits>>
poolVars == <<permits, idleConns, nextID, released, pc, conn, again>>
loadVars == <<currentInFlight, admitted, dropping>>
emaVars == <<currentEMA, activeCount, active, degraded, spikes>>
workloadVars == <<queues, worker, cancelled, accepted, runs>>
tokenVars == <<registered, slots, using>>
chainVars == <<at, handler, panicChan, expired, activeRequests, wroteHeader, statusCode,
               sent, recorded, requestCount, counter, count>>
suiteVars == <<part, bucketVars, breakerVars, poolVars, loadVars, emaVars, workloadVars,
               tokenVars, chainVars>>

SuiteInit ==
  /\ part \in Exercised
  /\ Init /\ B!Init /\ L!PoolInit /\ L!ShedderInit /\ L!BulkheadInit /\ R!Init

Rests(name, v) == IF part = name THEN TRUE ELSE UNCHANGED v

SuiteNext ==
  /\ UNCHANGED part
  /\ \/ part = "bucket" /\ Next
     \/ part = "breaker" /\ B!Next
     \/ part = "pool" /\ L!PoolNext
     \/ part = "shedder" /\ L!LoadNext
     \/ part = "latency" /\ L!LatencyNext
     \/ part = "workloads" /\ L!WorkloadNext
     \/ part = "tokens" /\ L!TokenNext
     \/ part = "chain" /\ R!Next
  /\ Rests("bucket", bucketVars) /\ Rests("breaker", breakerVars) /\ Rests("pool", poolVars)
  /\ Rests("shedder", loadVars) /\ Rests("latency", emaVars)
  /\ Rests("workloads", workloadVars) /\ Rests("tokens", tokenVars)
  /\ Rests("chain", chainVars)

SuiteOnly == SuiteInit /\ [][SuiteNext]_suiteVars

\* The fair steps of a part that nobody uses are disabled.
SuiteSpec ==
  /\ SuiteOnly
  /\ Fairness /\ B!Fairness /\ L!PoolFairness /\ L!BulkheadFairness /\ R!Fairness

\* Requests keep coming to the latency shedder and are done (LatencyFairness).
LatencySpec ==
  /\ SuiteOnly
  /\ \A r \in Request : WF_emaVars(L!AllowBelowTarget(r)) /\ WF_emaVars(L!Done(r))

-----------------------------------------------------------------------------
\* Every variable keeps its type.
SuiteTypeOK ==
  /\ TypeOK /\ B!TypeOK /\ L!PoolTypeOK /\ L!ShedderTypeOK /\ L!BulkheadTypeOK
  /\ R!TypeOK

\* The limits hold: of connections and of their users, of requests in flight by
\* priority and in all, of calls of a dependency since its latest registration.
LimitsHold ==
  /\ L!ExclusiveConns /\ L!PermitsConserved /\ L!LayeredAdmission /\ L!SheddingSound
  /\ L!TokensConserved /\ L!ExcessIsStale

\* What the chain counts and answers: requests let in, statuses, metrics.
RequestsAccounted == R!ActiveBounded /\ R!AnswersTrue /\ R!MetricsExact

\* Nobody waits for ever: callers of Wait and of the pool, jobs beside a hanging
\* workload, Stop, and requests whatever their handler does; nor calls of a
\* dependency that has recovered.
NobodyStarves ==
  /\ WaitReturns /\ L!AcquireReturns /\ L!WorkloadsIsolated /\ L!StopReturns
  /\ R!RequestsAnswered /\ B!BreakerRecovers

\* The other properties, stated and explained in their modules.
OutageContained == B!OutageContained
ConnsExclusive == L!ExclusiveConns
ReAdmits == L!ReAdmits
CallsBounded == L!CallsBounded
PanicsReported == R!PanicsReported

=============================================================================
