-------------------------------- MODULE Limits --------------------------------
(***************************************************************************)
(* What lets in no more than there is room for; the limiters share no      *)
(* state.  ConnectionPoolLimiter of 04_persistence: permits in one         *)
(* channel, idle connections in another; Acquire looks into the two one    *)
(* after the other and waits on both, and Close is guarded by a flag of    *)
(* the connection that Acquire resets (a connection's ID is its number).   *)
(* AdaptiveLoadShedder of 16_distributed, without a lock: a request adds   *)
(* itself, compares what it got with the threshold of its priority and     *)
(* takes itself off again, at once if it is dropped and through the        *)
(* release function if it is admitted.  LatencyEMAShedder of 26_advanced,  *)
(* under a lock: requests are shed while the moving average of the         *)
(* response times is above the target, and the average moves when an       *)
(* admitted request is done.  MultiWorkloadBulkhead of 26_advanced has a   *)
(* queue and workers of its own for each type of workload, and one context *)
(* for all of them.  BulkheadRegistry of 08_httpclient and BulkheadShield  *)
(* of 20_reliability have a channel of tokens for each dependency,         *)
(* replaced when the dependency is registered again.                       *)
(***************************************************************************)
EXTENDS Integers, Sequences, FiniteSets

CONSTANTS User,
          MaxCapacity,
          MaxConns,        \* bound: connections created
          MayCloseTwice    \* may a user close a connection that it has closed?

PoolParameters ==
  /\ IsFiniteSet(User) /\ {MaxCapacity, MaxConns} \subseteq Nat
  /\ MayCloseTwice \in BOOLEAN

CONSTANTS MaxInFlight,
          MaxRequests,   \* bound: requests at a time at the first shedder
          Request,       \* of the second one, as the rest
          TargetSLA,     \* units of time
          MaxActive,     \* its MaxInFlight
          Fast, Slow,    \* the response times of a sound and of a degraded server
          MaxSpikes      \* bound: how often the server degrades

\* A sound server answers within the target.
ShedderParameters ==
  /\ IsFiniteSet(Request)
  /\ {MaxInFlight, MaxActive, Fast, Slow, TargetSLA, MaxSpikes} \subseteq Nat
  /\ Fast <= TargetSLA

CONSTANTS Workload,
          Worker,      \* the workers of each type: workload |-> set
          Job,         \* the jobs of each type: workload |-> set
          QueueSize,
          Hanging,     \* the types whose jobs do not return
          Dependency, Caller,
          MaxConcurrency,
          MaxRegistrations   \* bound: registrations of a dependency

BulkheadParameters ==
  /\ IsFiniteSet(Caller) /\ {QueueSize, MaxConcurrency, MaxRegistrations} \subseteq Nat

VARIABLES permits, idleConns, nextID,
          released,        \* each connection's flag
          pc,
          conn,            \* the connection of a user's latest Acquire
          again            \* users who closed it and still have its pointer

VARIABLES currentInFlight,
          admitted,        \* requests of each priority that are in progress
          dropping,        \* requests that were dropped and are still counted
          currentEMA, activeCount, active, degraded, spikes   \* of the second one

VARIABLES queues,
          worker,          \* each worker: waiting, returned, or the job that it runs
          cancelled,       \* b.ctx is done
          accepted,        \* jobs whose Dispatch returned nil
          runs,            \* history: how often each job was started
          registered,      \* how often each dependency was registered
          slots,           \* of each of its channels: how many tokens are in it
          using            \* each caller: the channel it took a token from, or none

-----------------------------------------------------------------------------
(* ConnectionPoolLimiter *)

poolVars == <<permits, idleConns, nextID, released, pc, conn, again>>

PoolInit ==
  /\ permits = MaxCapacity /\ idleConns = <<>> /\ nextID = 0
  /\ released = [i \in 1..MaxConns |-> FALSE]
  /\ pc = [u \in User |-> "idle"]
  /\ conn = [u \in User |-> 0]
  /\ again = {}

Goto(u, l) == pc' = [pc EXCEPT ![u] = l]

-----------------------------------------------------------------------------
\* Acquire begins.
CallAcquire(u) ==
  /\ pc[u] = "idle" /\ Goto(u, "lookIdle") /\ again' = again \ {u}
  /\ UNCHANGED <<permits, idleConns, nextID, released, conn>>

\* An idle connection is received, and its flag reset before it is returned,
TakeIdle(u) ==
  /\ idleConns # <<>> /\ Goto(u, "using")
  /\ conn' = [conn EXCEPT ![u] = Head(idleConns)]
  /\ released' = [released EXCEPT ![Head(idleConns)] = FALSE]
  /\ idleConns' = Tail(idleConns)
  /\ UNCHANGED <<permits, nextID, again>>

\* or a permit, for a new connection.
TakeToken(u) ==
  /\ permits > 0 /\ nextID < MaxConns /\ Goto(u, "using")
  /\ permits' = permits - 1 /\ nextID' = nextID + 1
  /\ conn' = [conn EXCEPT ![u] = nextID + 1]
  /\ UNCHANGED <<idleConns, released, again>>

Skip(u, l) == Goto(u, l) /\ UNCHANGED <<permits, idleConns, nextID, released, conn, again>>

\* The first select, the second, and the one that waits.
LookIdle(u) ==
  /\ pc[u] = "lookIdle"
  /\ TakeIdle(u) \/ (idleConns = <<>> /\ Skip(u, "lookTokens"))

LookTokens(u) ==
  /\ pc[u] = "lookTokens"
  /\ TakeToken(u) \/ (permits = 0 /\ Skip(u, "waiting"))

WaitBoth(u) == TakeIdle(u) \/ TakeToken(u)

Receive(u) == pc[u] = "waiting" /\ WaitBoth(u)

\* The context of a waiting user is done.
GiveUp(u) == pc[u] = "waiting" /\ Skip(u, "idle")

-----------------------------------------------------------------------------
\* Close does something only when the flag was not set.
Unreleased(u) == ~released[conn[u]]

CloseConn(u) ==
  /\ pc[u] = "using" \/ (pc[u] = "idle" /\ u \in again)
  /\ IF Unreleased(u)
     THEN released' = [released EXCEPT ![conn[u]] = TRUE] /\ Goto(u, "releasing")
     ELSE Goto(u, "idle") /\ UNCHANGED released
  /\ again' = IF MayCloseTwice /\ pc[u] = "using" THEN again \cup {u} ELSE again \ {u}
  /\ UNCHANGED <<permits, idleConns, nextID, conn>>

\* release: to the idle connections, or as a permit if there is no room for it.
ReleaseConn(u) ==
  /\ pc[u] = "releasing" /\ Goto(u, "idle")
  /\ \/ /\ Len(idleConns) < MaxCapacity
        /\ idleConns' = Append(idleConns, conn[u]) /\ UNCHANGED permits
     \/ /\ Len(idleConns) = MaxCapacity /\ permits < MaxCapacity
        /\ permits' = permits + 1 /\ UNCHANGED idleConns
  /\ UNCHANGED <<nextID, released, conn, again>>

PoolNext ==
  \E u \in User :
    \/ CallAcquire(u) \/ LookIdle(u) \/ LookTokens(u) \/ Receive(u) \/ GiveUp(u)
    \/ CloseConn(u) \/ ReleaseConn(u)

PoolSpec == PoolInit /\ [][PoolNext]_poolVars

\* Users get on with their call and close what they use; the channels serve who
\* waits in turn.
PoolFairness ==
  \A u \in User :
    /\ WF_poolVars(LookIdle(u) \/ LookTokens(u) \/ ReleaseConn(u))
    /\ WF_poolVars(pc[u] = "using" /\ CloseConn(u))
    /\ SF_poolVars(Receive(u))

-----------------------------------------------------------------------------
loadVars == <<currentInFlight, admitted, dropping>>
emaVars == <<currentEMA, activeCount, active, degraded, spikes>>
shedderVars == <<loadVars, emaVars>>

Priority == {"low", "normal", "critical"}

ShedderInit ==
  /\ currentInFlight = 0 /\ admitted = [p \in Priority |-> 0] /\ dropping = 0
  /\ currentEMA = TargetSLA \div 2 /\ activeCount = 0
  /\ active = {} /\ degraded = FALSE /\ spikes = 0

-----------------------------------------------------------------------------
(* AdaptiveLoadShedder *)

\* Above its threshold a priority is dropped.
FlatThreshold(p) == MaxInFlight
Threshold(p) ==
  CASE p = "low" -> (MaxInFlight * 70) \div 100
    [] p = "normal" -> (MaxInFlight * 90) \div 100
    [] p = "critical" -> MaxInFlight

InProgress == admitted["low"] + admitted["normal"] + admitted["critical"]

\* Allow counts the request and decides on the count that it got,
Allow(p) ==
  /\ InProgress + dropping < MaxRequests
  /\ currentInFlight' = currentInFlight + 1
  /\ IF currentInFlight' > Threshold(p)
     THEN dropping' = dropping + 1 /\ UNCHANGED admitted
     ELSE admitted' = [admitted EXCEPT ![p] = @ + 1] /\ UNCHANGED dropping

\* takes it off if it drops it,
Drop ==
  /\ dropping > 0 /\ dropping' = dropping - 1
  /\ currentInFlight' = currentInFlight - 1 /\ UNCHANGED admitted

\* and leaves that to the release function if it does not.
Release(p) ==
  /\ admitted[p] > 0 /\ admitted' = [admitted EXCEPT ![p] = @ - 1]
  /\ currentInFlight' = currentInFlight - 1 /\ UNCHANGED dropping

LoadNext == Drop \/ \E p \in Priority : Allow(p) \/ Release(p)

-----------------------------------------------------------------------------
(* LatencyEMAShedder *)

\* The load is shed.
Shed == currentEMA > TargetSLA \/ activeCount >= MaxActive

\* Allow admits a request,
AllowBelowTarget(r) ==
  /\ r \notin active /\ ~Shed
  /\ active' = active \cup {r} /\ activeCount' = activeCount + 1
  /\ UNCHANGED <<currentEMA, degraded, spikes>>

\* whose done function moves the average by a tenth (decayFactor).
Done(r) ==
  /\ r \in active
  /\ active' = active \ {r} /\ activeCount' = activeCount - 1
  /\ currentEMA' = ((IF degraded THEN Slow ELSE Fast) + 9 * currentEMA) \div 10
  /\ UNCHANGED <<degraded, spikes>>

\* The server degrades and recovers.
Degrade ==
  /\ ~degraded /\ spikes < MaxSpikes /\ degraded' = TRUE /\ spikes' = spikes + 1
  /\ UNCHANGED <<currentEMA, activeCount, active>>

Recover ==
  /\ degraded /\ degraded' = FALSE
  /\ UNCHANGED <<currentEMA, activeCount, active, spikes>>

LatencyNext == (\E r \in Request : AllowBelowTarget(r) \/ Done(r)) \/ Degrade \/ Recover

\* Requests keep coming to the second shedder and are done.
LatencyFairness ==
  \A r \in Request : WF_emaVars(AllowBelowTarget(r)) /\ WF_emaVars(Done(r))

ShedderSpec ==
  /\ ShedderInit
  /\ \/ [][LoadNext /\ UNCHANGED emaVars]_shedderVars
     \/ [][LatencyNext /\ UNCHANGED loadVars]_shedderVars /\ LatencyFairness

-----------------------------------------------------------------------------
bulkheadVars == <<queues, worker, cancelled, accepted, runs>>
tokenVars == <<registered, slots, using>>

AllWorkers == UNION {Worker[t] : t \in Workload}
AllJobs == UNION {Job[t] : t \in Workload}
Channel == Dependency \X (1..MaxRegistrations)

BulkheadInit ==
  /\ queues = [t \in Workload |-> <<>>]
  /\ worker = [k \in AllWorkers |-> "waiting"]
  /\ cancelled = FALSE /\ accepted = {}
  /\ runs = [j \in AllJobs |-> 0]
  /\ registered = [d \in Dependency |-> 0]
  /\ slots = [c \in Channel |-> 0]
  /\ using = [k \in Caller |-> <<>>]

-----------------------------------------------------------------------------
(* MultiWorkloadBulkhead *)

\* The queue of a type.
SharedQueue(t) == CHOOSE q \in Workload : TRUE
QueueOf(t) == t

\* Dispatch queues a job while there is room, even if the context is done too:
\* select takes either of two ready cases.  Otherwise it refuses the job.
Dispatch(t, j) ==
  /\ j \in Job[t] \ accepted
  /\ Len(queues[QueueOf(t)]) < QueueSize
  /\ queues' = [queues EXCEPT ![QueueOf(t)] = Append(@, j)]
  /\ accepted' = accepted \cup {j}
  /\ UNCHANGED <<worker, cancelled, runs>>

\* A waiting worker receives a job of its queue and runs it,
ReceiveJob(t, k) ==
  /\ worker[k] = "waiting" /\ queues[QueueOf(t)] # <<>>
  /\ LET j == Head(queues[QueueOf(t)]) IN
       worker' = [worker EXCEPT ![k] = j] /\ runs' = [runs EXCEPT ![j] = @ + 1]
  /\ queues' = [queues EXCEPT ![QueueOf(t)] = Tail(@)]
  /\ UNCHANGED <<cancelled, accepted>>

\* which may take for ever,
Finish(k) ==
  /\ worker[k] \in AllJobs \ UNION {Job[t] : t \in Hanging}
  /\ worker' = [worker EXCEPT ![k] = "waiting"]
  /\ UNCHANGED <<queues, cancelled, accepted, runs>>

\* or returns when the context is done.
Return(k) ==
  /\ worker[k] = "waiting" /\ cancelled
  /\ worker' = [worker EXCEPT ![k] = "returned"]
  /\ UNCHANGED <<queues, cancelled, accepted, runs>>

\* Stop, which then waits for the workers.
Stop == ~cancelled /\ cancelled' = TRUE /\ UNCHANGED <<queues, worker, accepted, runs>>
Stopped == cancelled /\ \A k \in AllWorkers : worker[k] = "returned"

WorkloadNext ==
  \/ \E t \in Workload :
       (\E j \in Job[t] : Dispatch(t, j)) \/ (\E k \in Worker[t] : ReceiveJob(t, k))
  \/ \E k \in AllWorkers : Finish(k) \/ Return(k)
  \/ Stop

\* Goroutines run, and jobs that return do so in the end.
BulkheadFairness ==
  /\ \A t \in Workload : \A k \in Worker[t] : WF_bulkheadVars(ReceiveJob(t, k) \/ Return(k))
  /\ \A k \in AllWorkers : WF_bulkheadVars(Finish(k))

-----------------------------------------------------------------------------
(* BulkheadRegistry and BulkheadShield *)

\* RegisterPartition, RegisterDependency: a new channel, filled with tokens.
Register(d) ==
  /\ registered[d] < MaxRegistrations
  /\ registered' = [registered EXCEPT ![d] = @ + 1]
  /\ slots' = [slots EXCEPT ![<<d, registered'[d]>>] = MaxConcurrency]
  /\ UNCHANGED using

\* Execute and Call look the channel up under the read lock,
Lookup(k, d) ==
  /\ using[k] = <<>> /\ registered[d] > 0
  /\ using' = [using EXCEPT ![k] = <<"looked", <<d, registered[d]>> >>]
  /\ UNCHANGED <<registered, slots>>

\* and take a token of it, or refuse the call if there is none (the second look of
\* Execute, beside a context that may be done, leads to nothing else),
AcquireToken(k) ==
  /\ using[k] # <<>> /\ using[k][1] = "looked"
  /\ \/ /\ slots[using[k][2]] > 0
        /\ slots' = [slots EXCEPT ![using[k][2]] = @ - 1]
        /\ using' = [using EXCEPT ![k] = <<"runs", @[2]>>]
     \/ /\ slots[using[k][2]] = 0
        /\ using' = [using EXCEPT ![k] = <<>>] /\ UNCHANGED slots
  /\ UNCHANGED registered

\* which goes back to the channel that it came from when fn returns or panics.
ReturnTo(c) == c

Finished(k) ==
  /\ using[k] # <<>> /\ using[k][1] = "runs"
  /\ slots' = [slots EXCEPT ![ReturnTo(using[k][2])] = @ + 1]
  /\ using' = [using EXCEPT ![k] = <<>>]
  /\ UNCHANGED registered

TokenNext ==
  \/ \E d \in Dependency : Register(d)
  \/ \E k \in Caller : AcquireToken(k) \/ Finished(k) \/ \E d \in Dependency : Lookup(k, d)

BulkheadSpec ==
  /\ BulkheadInit
  /\ \/ [][WorkloadNext /\ UNCHANGED tokenVars]_<<bulkheadVars, tokenVars>> /\ BulkheadFairness
     \/ [][TokenNext /\ UNCHANGED bulkheadVars]_<<bulkheadVars, tokenVars>>

-----------------------------------------------------------------------------
Using == {u \in User : pc[u] = "using"}
Releasing == {u \in User : pc[u] = "releasing"}

\* Users, connections and permits.
PoolTypeOK ==
  /\ permits \in 0..MaxCapacity /\ nextID \in 0..MaxConns
  /\ idleConns \in Seq(1..nextID) /\ Len(idleConns) <= MaxCapacity
  /\ released \in [1..MaxConns -> BOOLEAN]
  /\ pc \in [User -> {"idle", "lookIdle", "lookTokens", "waiting", "using", "releasing"}]
  /\ conn \in [User -> 0..nextID] /\ again \subseteq User

\* A connection is used by one user at a time and is not idle meanwhile, through
\* racing Acquires and Closes.
ExclusiveConns ==
  \A u \in Using :
    /\ \A v \in User \ {u} : pc[v] \in {"using", "releasing"} => conn[v] # conn[u]
    /\ \A i \in DOMAIN idleConns : idleConns[i] # conn[u]

\* No permit is lost or made: each is free, or has a connection that is idle, in
\* use or on its way back; so no more than MaxCapacity connections are ever open.
PermitsConserved ==
  /\ permits + Len(idleConns) + Cardinality(Using \cup Releasing) = MaxCapacity
  /\ nextID <= MaxCapacity

\* Nobody waits for ever while connections are closed.
AcquireReturns == \A u \in User : (pc[u] = "waiting") ~> (pc[u] # "waiting")

\* The counts and the average.
ShedderTypeOK ==
  /\ currentInFlight \in Nat /\ admitted \in [Priority -> Nat] /\ dropping \in Nat
  /\ currentEMA \in Nat /\ activeCount \in 0..MaxActive
  /\ active \subseteq Request /\ degraded \in BOOLEAN /\ spikes \in 0..MaxSpikes

\* The counter is exact, and in spite of the gap between adding and comparing
\* low requests leave three tenths of the room to the others, low and normal ones
\* together a tenth to the critical ones.
LayeredAdmission ==
  /\ currentInFlight = InProgress + dropping
  /\ 10 * admitted["low"] <= 7 * MaxInFlight
  /\ 10 * (admitted["low"] + admitted["normal"]) <= 9 * MaxInFlight
  /\ InProgress <= MaxInFlight

\* The counter is exact and within its limit, and until the server has degraded
\* the average never sheds anything.
SheddingSound ==
  /\ activeCount = Cardinality(active)
  /\ spikes = 0 => currentEMA <= TargetSLA

\* "As soon as shedding relieves pressure and latency drops, the shedder
\* automatically re-admits traffic" (adaptive_shedder.md:28).
ReAdmits == <>[](~degraded) => []<>(currentEMA <= TargetSLA)

\* Queues hold accepted jobs, channels no more tokens than they have room for.
BulkheadTypeOK ==
  /\ \A t \in Workload : queues[t] \in Seq(accepted) /\ Len(queues[t]) <= QueueSize
  /\ worker \in [AllWorkers -> AllJobs \cup {"waiting", "returned"}]
  /\ cancelled \in BOOLEAN /\ accepted \subseteq AllJobs
  /\ runs \in [AllJobs -> 0..1]
  /\ registered \in [Dependency -> 0..MaxRegistrations]
  /\ slots \in [Channel -> 0..MaxConcurrency]
  /\ using \in [Caller -> {<<>>} \cup ({"looked", "runs"} \X Channel)]

\* Workloads do not disturb each other: a job that was accepted for a type whose
\* jobs return is run before the context is cancelled, though every worker of
\* another type hangs.
WorkloadsIsolated ==
  \A t \in Workload \ Hanging : \A j \in Job[t] :
    (j \in accepted) ~> (runs[j] = 1 \/ cancelled)

\* Stop returns although jobs are still queued, unless one is running that hangs.
StopReturns ==
  cancelled ~> (Stopped \/ \E t \in Hanging : \E k \in Worker[t] : worker[k] \in Job[t])

\* No token is lost or made, through registrations while calls are in flight: each
\* channel has as many calls as tokens are missing, so that a token always finds room.
\* (Calls of a channel that was replaced are not counted in the new one.)
TokensConserved ==
  \A c \in Channel : c[2] <= registered[c[1]] =>
    slots[c] + Cardinality({k \in Caller : using[k] = <<"runs", c>>}) = MaxConcurrency

Running(d) == {k \in Caller : \E n \in 1..MaxRegistrations : using[k] = <<"runs", <<d, n>> >>}

\* Of the calls of a dependency that took their token since its latest registration no
\* more run than its maximum: an excess is of calls that still hold a token of a channel
\* which was replaced.
ExcessIsStale ==
  \A d \in Dependency :
    Cardinality({k \in Running(d) : using[k][2][2] = registered[d]}) <= MaxConcurrency

\* "RegisterPartition defines maximum concurrency for a named workload"
\* (bulkhead.go:37): of the calls of a dependency no more run.
CallsBounded == \A d \in Dependency : Cardinality(Running(d)) <= MaxConcurrency

=============================================================================
