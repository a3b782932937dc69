-------------------------------- MODULE Leases --------------------------------
(***************************************************************************)
(* What is held for a time: DistributedLockManager of                      *)
(* 16_distributed/distributed_lock.go with a storage that compares fencing *)
(* tokens, LeaderElector of 16_distributed/leader_election.go, and the     *)
(* VisibilityQueue of 24_backgroundjobs/job_queue.go, whose dequeued jobs  *)
(* are hidden for a timeout.  The three share no state.  Time is what is   *)
(* left of a lease.  A client of the lock may pause and write with a lease *)
(* that has expired, or die and come back under its name; candidates join, *)
(* crash and come back; workers die with their job.                        *)
(***************************************************************************)
EXTENDS Integers

CONSTANTS Resource, Client,
          TTL,         \* of every lease
          MaxGrants    \* bound: leases granted

\* A TTL of a whole number of ticks.
ASSUME LockAssumption == TTL \in Nat /\ MaxGrants \in Nat

CONSTANTS Candidate, LeaseDuration,
          Nobody,      \* currentLeader = ""
          MaxCrashes   \* bound

\* A lease lasts a whole number of ticks, and no candidate has the empty name.
ElectorParameters == {LeaseDuration, MaxCrashes} \subseteq Nat /\ Nobody \notin Candidate

CONSTANTS Job, Worker,
          VisibilityTimeout, \* of the queue, and the extension of each heartbeat
          MaxFaults          \* bound: workers that die and handlers that fail

\* The timeout is a whole number of ticks.
VisibilityParameters == VisibilityTimeout \in Nat /\ MaxFaults \in Nat

VARIABLES locks,       \* locks[r]: {} or {the lease} of resource r
          fencingToken,\* the counter of the manager
          lease,       \* lease[c]: {} or {what Acquire returned to c}
          stored,      \* stored[r]: the token and the grant of the last write to r
          grants       \* history: leases granted so far

VARIABLES currentLeader, leaseLeft,
          up,          \* candidates that run
          believes,    \* what is left of the lease c was granted, as c counts it
          crashes

VARIABLES jobs,     \* the IDs in q.jobs
          hidden,   \* hidden[j]: time left before j is visible
          wpc, work,\* where a worker is, and its job, if any
          receipt,  \* what is left of the worker's time with its job, as it was told
          ran,      \* history: jobs that ran to their end
          enqueued, faults

-----------------------------------------------------------------------------
(* DistributedLockManager *)

lockVars == <<locks, fencingToken, lease, stored, grants>>

LockInit ==
  /\ locks = [r \in Resource |-> {}] /\ fencingToken = 0
  /\ lease = [c \in Client |-> {}]
  /\ stored = [r \in Resource |-> [token |-> 0, grant |-> 0]] /\ grants = 0

\* Somebody else holds r and its lease has not expired.
HeldIgnoringTime(r, c) == FALSE
HeldByOther(r, c) == \E l \in locks[r] : l.left > 0 /\ l.owner # c

\* The fencing token of the next lease on r.
TokenOfLock(r) == IF locks[r] = {} THEN 1 ELSE (CHOOSE l \in locks[r] : TRUE).token + 1
NextToken(r) == fencingToken + 1

\* Acquire; it changes nothing when it fails.  An owner may acquire again.
Acquire(c, r) ==
  /\ ~HeldByOther(r, c)
  /\ grants < MaxGrants /\ grants' = grants + 1
  /\ fencingToken' = fencingToken + 1
  /\ LET l == [resource |-> r, owner |-> c, token |-> NextToken(r), left |-> TTL,
               grant |-> grants + 1]
     IN /\ locks' = [locks EXCEPT ![r] = {l}]
        /\ lease' = [lease EXCEPT ![c] = {l}]
  /\ UNCHANGED stored

\* Release, by the name of the owner.
Release(c) ==
  /\ lease[c] # {}
  /\ locks' = [r \in Resource |->
       {l \in locks[r] : l.owner # c \/ \A k \in lease[c] : k.resource # r}]
  /\ lease' = [lease EXCEPT ![c] = {}]
  /\ UNCHANGED <<fencingToken, stored, grants>>

\* The storage takes a write that is not behind the last one (distributed_lock.md:54).
Write(c) ==
  /\ \E l \in lease[c] :
       /\ l.token >= stored[l.resource].token
       /\ stored' = [stored EXCEPT ![l.resource] = [token |-> l.token, grant |-> l.grant]]
  /\ UNCHANGED <<locks, fencingToken, lease, grants>>

\* A client dies without releasing, and forgets its lease.
Crash(c) ==
  /\ lease[c] # {} /\ lease' = [lease EXCEPT ![c] = {}]
  /\ UNCHANGED <<locks, fencingToken, stored, grants>>

Aged(S) == {[l EXCEPT !.left = IF @ = 0 THEN 0 ELSE @ - 1] : l \in S}

LockTick ==
  /\ locks' = [r \in Resource |-> Aged(locks[r])]
  /\ lease' = [c \in Client |-> Aged(lease[c])]
  /\ UNCHANGED <<fencingToken, stored, grants>>

LockNext ==
  \/ \E c \in Client : (\E r \in Resource : Acquire(c, r)) \/ Release(c) \/ Write(c) \/ Crash(c)
  \/ LockTick

LockSpec == LockInit /\ [][LockNext]_lockVars

-----------------------------------------------------------------------------
(* LeaderElector *)

electorVars == <<currentLeader, leaseLeft, up, believes, crashes>>

ElectorInit ==
  /\ currentLeader = Nobody /\ leaseLeft = -1
  /\ up = {} /\ believes = [c \in Candidate |-> 0] /\ crashes = 0

\* A candidate starts, or starts again under its ID.
Join(c) ==
  /\ c \notin up /\ up' = up \cup {c}
  /\ UNCHANGED <<currentLeader, leaseLeft, believes, crashes>>

\* The lease can be claimed: there is no leader or it is past its expiry.
Vacant == currentLeader = Nobody \/ leaseLeft < 0

\* TryAcquireOrRenew returns true: renewed or claimed,
TryAcquireOrRenew(c) ==
  /\ c \in up /\ (currentLeader = c \/ Vacant)
  /\ currentLeader' = c /\ leaseLeft' = LeaseDuration
  /\ believes' = [believes EXCEPT ![c] = LeaseDuration]
  /\ UNCHANGED <<up, crashes>>

\* or false: somebody else leads.
Refused(c) ==
  /\ c \in up /\ currentLeader # c /\ ~Vacant
  /\ believes' = [believes EXCEPT ![c] = 0]
  /\ UNCHANGED <<currentLeader, leaseLeft, up, crashes>>

Resign(c) ==
  /\ c \in up /\ currentLeader = c
  /\ currentLeader' = Nobody /\ leaseLeft' = -1
  /\ believes' = [believes EXCEPT ![c] = 0]
  /\ UNCHANGED <<up, crashes>>

\* A candidate dies; somebody stays.
CandidateCrash(c) ==
  /\ c \in up /\ up # {c} /\ crashes < MaxCrashes
  /\ up' = up \ {c} /\ crashes' = crashes + 1
  /\ believes' = [believes EXCEPT ![c] = 0]
  /\ UNCHANGED <<currentLeader, leaseLeft>>

ElectorTick ==
  /\ leaseLeft' = IF leaseLeft < 0 THEN -1 ELSE leaseLeft - 1
  /\ believes' = [c \in Candidate |-> IF believes[c] = 0 THEN 0 ELSE believes[c] - 1]
  /\ UNCHANGED <<currentLeader, up, crashes>>

IsLeader(c) == currentLeader = c /\ leaseLeft > 0

ElectorNext ==
  \/ \E c \in Candidate :
       Join(c) \/ TryAcquireOrRenew(c) \/ Refused(c) \/ Resign(c) \/ CandidateCrash(c)
  \/ ElectorTick

\* Time passes and candidates keep trying; nobody is obliged to join.
ElectorFairness ==
  WF_electorVars(ElectorTick) /\ \A c \in Candidate : WF_electorVars(TryAcquireOrRenew(c))

-----------------------------------------------------------------------------
(* VisibilityQueue *)

queueVars == <<jobs, hidden, wpc, work, receipt, ran, enqueued, faults>>

QueueInit ==
  /\ jobs = {} /\ hidden = [j \in Job |-> 0]
  /\ wpc = [w \in Worker |-> "idle"] /\ work = [w \in Worker |-> {}]
  /\ receipt = [w \in Worker |-> 0]
  /\ ran = {} /\ enqueued = {} /\ faults = 0

\* Enqueue, with distinct IDs.
Enqueue(j) ==
  /\ j \notin enqueued /\ enqueued' = enqueued \cup {j}
  /\ jobs' = jobs \cup {j} /\ hidden' = [hidden EXCEPT ![j] = 0]
  /\ UNCHANGED <<wpc, work, receipt, ran, faults>>

\* What Dequeue leaves in the map: the job stays until its Ack.
Popped(j) == jobs \ {j}
Kept(j) == jobs

\* Dequeue returns any visible job.
Dequeue(w, j) ==
  /\ wpc[w] = "idle" /\ j \in jobs /\ hidden[j] = 0
  /\ jobs' = Kept(j)
  /\ hidden' = [hidden EXCEPT ![j] = VisibilityTimeout]
  /\ wpc' = [wpc EXCEPT ![w] = "running"] /\ work' = [work EXCEPT ![w] = {j}]
  /\ receipt' = [receipt EXCEPT ![w] = VisibilityTimeout]
  /\ UNCHANGED <<ran, enqueued, faults>>

\* How long a heartbeat hides a job.
Extended(j) == VisibilityTimeout

\* Heartbeat, by ID: it fails when the job is gone.  It prolongs the worker's
\* time when that has not passed; a late one hides the job from the others only.
Heartbeat(w) ==
  /\ wpc[w] = "running" /\ work[w] \subseteq jobs
  /\ \E j \in work[w] : hidden' = [hidden EXCEPT ![j] = Extended(j)]
  /\ receipt' = [receipt EXCEPT ![w] = IF @ = 0 THEN 0 ELSE VisibilityTimeout]
  /\ UNCHANGED <<jobs, wpc, work, ran, enqueued, faults>>

\* The worker has run its job,
Complete(w) ==
  /\ wpc[w] = "running" /\ ran' = ran \cup work[w]
  /\ wpc' = [wpc EXCEPT ![w] = "done"]
  /\ UNCHANGED <<jobs, hidden, work, receipt, enqueued, faults>>

Drop(w) ==
  /\ wpc' = [wpc EXCEPT ![w] = "idle"] /\ work' = [work EXCEPT ![w] = {}]
  /\ receipt' = [receipt EXCEPT ![w] = 0]

\* and acknowledges it, by ID.
Ack(w) ==
  /\ wpc[w] = "done" /\ jobs' = jobs \ work[w] /\ Drop(w)
  /\ UNCHANGED <<hidden, ran, enqueued, faults>>

\* The handler fails or the worker dies, before or after it has run the job:
\* nothing tells the queue.
Abandon(w) ==
  /\ wpc[w] # "idle" /\ faults < MaxFaults /\ faults' = faults + 1
  /\ Drop(w) /\ UNCHANGED <<jobs, hidden, ran, enqueued>>

QueueTick ==
  /\ hidden' = [j \in Job |-> IF hidden[j] = 0 THEN 0 ELSE hidden[j] - 1]
  /\ receipt' = [w \in Worker |-> IF receipt[w] = 0 THEN 0 ELSE receipt[w] - 1]
  /\ UNCHANGED <<jobs, wpc, work, ran, enqueued, faults>>

QueueNext ==
  \/ \E j \in Job : Enqueue(j) \/ \E w \in Worker : Dequeue(w, j)
  \/ \E w \in Worker : Heartbeat(w) \/ Complete(w) \/ Ack(w) \/ Abandon(w)
  \/ QueueTick

\* Time passes, idle workers dequeue, handlers return and are acknowledged.
QueueFairness ==
  /\ WF_queueVars(QueueTick)
  /\ \A j \in Job : WF_queueVars(\E w \in Worker : Dequeue(w, j))
  /\ \A w \in Worker : WF_queueVars(Complete(w) \/ Ack(w))

-----------------------------------------------------------------------------
Lease ==
  [resource : Resource, owner : Client, token : 1..MaxGrants, left : 0..TTL, grant : 1..MaxGrants]

\* Every variable keeps its type.
LockTypeOK ==
  /\ \A r \in Resource : locks[r] \subseteq Lease
  /\ \A c \in Client : lease[c] \subseteq Lease
  /\ stored \in [Resource -> [token : 0..MaxGrants, grant : 0..MaxGrants]]
  /\ {fencingToken, grants} \subseteq 0..MaxGrants

\* While the lease in a client's hands has not expired, no other client's has, on
\* the same resource: after crashes, late releases and acquiring again too.
OneLiveLease ==
  \A c, d \in Client : \A k \in lease[c], l \in lease[d] :
    k.resource = l.resource /\ k.left > 0 /\ l.left > 0 => c = d

\* The storage never takes a write of an earlier grant after one of a later
\* grant, however long a client paused (distributed_lock.md, "GC Pause").
FencedWrites == [][\A r \in Resource : stored'[r].grant >= stored[r].grant]_lockVars

\* Every variable keeps its type.
ElectorTypeOK ==
  /\ currentLeader \in Candidate \cup {Nobody} /\ leaseLeft \in -1..LeaseDuration
  /\ up \subseteq Candidate /\ believes \in [Candidate -> 0..LeaseDuration]
  /\ crashes \in 0..MaxCrashes

\* At most one candidate has reason to think that it leads, and it does: no
\* split brain (leader_election.md:17), through renewals, crashes and restarts.
OneBeliever == \A c \in Candidate : believes[c] > 0 => IsLeader(c)

\* A leader that dies or resigns is replaced when its lease runs out.
LeaderReturns == []<>(up # {} => \E c \in up : IsLeader(c))

\* Every variable keeps its type.
QueueTypeOK ==
  /\ jobs \subseteq enqueued /\ ran \subseteq enqueued /\ enqueued \subseteq Job
  /\ hidden \in [Job -> 0..VisibilityTimeout] /\ receipt \in [Worker -> 0..VisibilityTimeout]
  /\ wpc \in [Worker -> {"idle", "running", "done"}] /\ work \in [Worker -> SUBSET Job]
  /\ faults \in 0..MaxFaults

\* A worker whose time has not passed is alone with its job (job_queue.md:17), also
\* when a worker whose time has passed still sends heartbeats for that job.
OneLiveReceipt ==
  \A v, w \in Worker :
    v # w /\ receipt[v] > 0 /\ receipt[w] > 0 => work[v] \cap work[w] = {}

\* At-least-once: an enqueued job runs to its end, whichever workers die.
JobsComplete == \A j \in Job : j \in enqueued ~> j \in ran

=============================================================================
