------------------------------- MODULE Retries -------------------------------
(***************************************************************************)
(* What is tried again, and how often.  ExecuteWithRetry of 08_httpclient, *)
(* called with a request that carries an idempotency key, against the      *)
(* MemoryIdempotencyStore of 10_apidesign (one key, for two stores of keys *)
(* share nothing but a mutex): requests overtake one another, answers are  *)
(* late or lost, a handler may die with the key locked.  DLQManager of     *)
(* 15_messaging: the broker delivers a failed message again, one delivery  *)
(* of a message at a time, different messages overlap.                     *)
(* JobRetryCoordinator of 24_backgroundjobs: delays that double.           *)
(***************************************************************************)
EXTENDS Integers, FiniteSets

CONSTANTS Client,
          Cancellable,   \* those whose context may be cancelled
          MaxTries,      \* RetryPolicy.MaxAttempts
          Message,
          Healthy,       \* messages whose handler does not fail for ever
          MaxAttempts,   \* NewDLQManager(maxAttempts), after its default
          BaseBackoff, MaxBackoff, MaxJobAttempts,  \* of the job coordinator
          Width          \* bits of its time.Duration, sign included

RetryParameters ==
  /\ Cancellable \subseteq Client /\ MaxTries \in Nat \ {0} /\ MaxAttempts \in Nat \ {0}
  /\ MaxBackoff \in Nat /\ BaseBackoff \in 1..MaxBackoff

VARIABLES stage, attempt,  \* where each ExecuteWithRetry is, and its attempt
          cancelled,       \* clients whose ctx is done
          late,            \* history: attempts a client began after that
          request,         \* what became of the request of each attempt
          locked,          \* the key is in s.locks
          cache,           \* s.cache[key]: the request whose response it is, or none
          executed,        \* history: executions of the operation
          response,        \* history: the response each client returned with
          attempts,        \* d.attempts[id], 0 when there is no entry
          dlqStore,        \* the messages in d.dlqStore
          pc, curr,        \* where the delivery of a message is, its currAttempts
          failures,        \* history: handler runs that failed
          job              \* a ManagedJob and the delay to its NextRunAt

loopVars == <<stage, attempt, cancelled, late>>
storeVars == <<request, locked, cache, executed, response>>
callVars == <<loopVars, storeVars>>
dlqVars == <<attempts, dlqStore, pc, curr, failures>>
vars == <<callVars, dlqVars, job>>

NoRequest == <<>>
Attempt == Client \X (1..MaxTries)

Init ==
  /\ stage = [c \in Client |-> "idle"] /\ attempt = [c \in Client |-> 0]
  /\ cancelled = {} /\ late = [c \in Client |-> 0]
  /\ request = [q \in Attempt |-> "none"] /\ locked = FALSE /\ cache = NoRequest
  /\ executed = 0 /\ response = [c \in Client |-> NoRequest]
  /\ attempts = [m \in Message |-> 0] /\ dlqStore = {}
  /\ pc = [m \in Message |-> "absent"]
  /\ curr = [m \in Message |-> 0] /\ failures = [m \in Message |-> 0]
  /\ job = [State |-> "READY", Attempts |-> 0, delay |-> 0]

-----------------------------------------------------------------------------
(* ExecuteWithRetry *)

Goes(c, s) == stage' = [stage EXCEPT ![c] = s]

Call(c) ==
  /\ stage[c] = "idle" /\ Goes(c, "check")
  /\ attempt' = [attempt EXCEPT ![c] = 1]
  /\ UNCHANGED <<cancelled, late, storeVars>>

Cancel(c) ==
  /\ c \in Cancellable /\ stage[c] # "idle" /\ cancelled' = cancelled \cup {c}
  /\ UNCHANGED <<stage, attempt, late, storeVars>>

\* Each turn looks at the context first
Check(c) ==
  /\ stage[c] = "check" /\ Goes(c, IF c \in cancelled THEN "failed" ELSE "send")
  /\ UNCHANGED <<attempt, cancelled, late, storeVars>>

\* and then runs fn, which sends a request.
Send(c) ==
  /\ stage[c] = "send" /\ Goes(c, "awaits")
  /\ late' = IF c \in cancelled THEN [late EXCEPT ![c] = @ + 1] ELSE late
  /\ request' = [request EXCEPT ![<<c, attempt[c]>>] = "sent"]
  /\ UNCHANGED <<attempt, cancelled, locked, cache, executed, response>>

\* fn returns without error,
Succeed(c) ==
  /\ stage[c] = "awaits" /\ request[<<c, attempt[c]>>] = "answered"
  /\ Goes(c, "succeeded") /\ response' = [response EXCEPT ![c] = cache]
  /\ UNCHANGED <<attempt, cancelled, late, request, locked, cache, executed>>

\* or with one that may be tried again: a conflict, a failure, or no answer in time,
\* though there may be one.  The last attempt gives up,
Fail(c) ==
  /\ stage[c] = "awaits"
  /\ Goes(c, IF attempt[c] >= MaxTries THEN "failed" ELSE "backoff")
  /\ UNCHANGED <<attempt, cancelled, late, storeVars>>

\* and so does one whose error is permanent.
FailForGood(c) ==
  /\ stage[c] = "awaits" /\ request[<<c, attempt[c]>>] = "died"
  /\ Goes(c, "failed") /\ UNCHANGED <<attempt, cancelled, late, storeVars>>

\* The delay passes or the context is done; if both, either is taken.
Elapse(c) ==
  /\ stage[c] = "backoff" /\ Goes(c, "check")
  /\ attempt' = [attempt EXCEPT ![c] = @ + 1]
  /\ UNCHANGED <<cancelled, late, storeVars>>

AbortBackoff(c) ==
  /\ stage[c] = "backoff" /\ c \in cancelled /\ Goes(c, "failed")
  /\ UNCHANGED <<attempt, cancelled, late, storeVars>>

Loop(c) ==
  \/ Check(c) \/ Send(c) \/ Succeed(c) \/ Fail(c) \/ FailForGood(c)
  \/ Elapse(c) \/ AbortBackoff(c)

-----------------------------------------------------------------------------
(* The server: LockKey, the operation, SaveResponse. *)

Becomes(q, s) == request' = [request EXCEPT ![q] = s]

\* Is the key in s.locks?
IgnoredLock == FALSE
InFlight == locked

LockKey(q) ==
  /\ request[q] = "sent"
  /\ \/ cache # NoRequest /\ Becomes(q, "answered") /\ UNCHANGED locked
     \/ cache = NoRequest /\ InFlight /\ Becomes(q, "conflict") /\ UNCHANGED locked
     \/ cache = NoRequest /\ ~InFlight /\ Becomes(q, "locked") /\ locked' = TRUE
  /\ UNCHANGED <<loopVars, cache, executed, response>>

Execute(q) ==
  /\ request[q] = "locked" /\ Becomes(q, "executed") /\ executed' = executed + 1
  /\ UNCHANGED <<loopVars, locked, cache, response>>

\* The handler panics, before or after the operation: nothing takes the key out.
Die(q) ==
  /\ request[q] \in {"locked", "executed"} /\ Becomes(q, "died")
  /\ UNCHANGED <<loopVars, locked, cache, executed, response>>

SaveResponse(q) ==
  /\ request[q] = "executed" /\ Becomes(q, "answered")
  /\ locked' = FALSE /\ cache' = q
  /\ UNCHANGED <<loopVars, executed, response>>

CallNext ==
  \/ \E c \in Client : Call(c) \/ Cancel(c) \/ Loop(c)
  \/ \E q \in Attempt : LockKey(q) \/ Execute(q) \/ Die(q) \/ SaveResponse(q)

-----------------------------------------------------------------------------
(* ProcessWithDLQ *)

\* The broker gets a message.
Arrive(m) ==
  /\ pc[m] = "absent" /\ pc' = [pc EXCEPT ![m] = "queued"]
  /\ UNCHANGED <<attempts, dlqStore, curr, failures>>

\* A delivery counts its attempt before the handler runs.
Count(m) ==
  /\ pc[m] = "queued"
  /\ attempts' = [attempts EXCEPT ![m] = @ + 1]
  /\ curr' = [curr EXCEPT ![m] = attempts[m] + 1]
  /\ pc' = [pc EXCEPT ![m] = "handling"]
  /\ UNCHANGED <<dlqStore, failures>>

HandlerSucceeds(m) ==
  /\ pc[m] = "handling" /\ m \in Healthy
  /\ attempts' = [attempts EXCEPT ![m] = 0]
  /\ pc' = [pc EXCEPT ![m] = "handled"]
  /\ UNCHANGED <<dlqStore, curr, failures>>

\* Is this the last attempt?
LastOffByOne(m) == curr[m] > MaxAttempts
LastUncounted(m) == curr[m] >= MaxAttempts - 1
Last(m) == curr[m] >= MaxAttempts

\* The handler fails: the message is queued again, or dead-lettered.
HandlerFails(m) ==
  /\ pc[m] = "handling"
  /\ failures' = [failures EXCEPT ![m] = @ + 1]
  /\ IF Last(m)
       THEN /\ dlqStore' = dlqStore \cup {m}
            /\ attempts' = [attempts EXCEPT ![m] = 0]
            /\ pc' = [pc EXCEPT ![m] = "dead"]
       ELSE pc' = [pc EXCEPT ![m] = "queued"] /\ UNCHANGED <<dlqStore, attempts>>
  /\ UNCHANGED curr

DlqNext == \E m \in Message : Arrive(m) \/ Count(m) \/ HandlerSucceeds(m) \/ HandlerFails(m)

-----------------------------------------------------------------------------
(* HandleJobFailure *)

\* 1 << n, by doublings.
Shifted(n) ==
  LET shifted[i \in 0..n] == IF i = 0 THEN 1 ELSE 2 * shifted[i - 1] IN shifted[n]

\* Arithmetic of time.Duration wraps.
Wrapped(n) == ((n + Shifted(Width - 1)) % Shifted(Width)) - Shifted(Width - 1)

\* The delay doubles up to a maximum.
Delay(n) ==
  LET d == Wrapped(BaseBackoff * Wrapped(Shifted(n - 1)))
  IN IF d > MaxBackoff THEN MaxBackoff ELSE d

JobParameters == MaxJobAttempts \in Nat /\ Width \in Nat \ {0}

HandleJobFailure ==
  /\ job.State # "QUARANTINED"
  /\ LET n == job.Attempts + 1 IN
       job' = IF n >= MaxJobAttempts
              THEN [State |-> "QUARANTINED", Attempts |-> n, delay |-> 0]
              ELSE [State |-> "RETRYING", Attempts |-> n, delay |-> Delay(n)]

JobNext == HandleJobFailure

\* A client goes on, an attempt ends in time; the broker delivers what is queued and
\* handlers return.
LoopFairness == \A c \in Client : WF_loopVars(Loop(c))
DlqFairness ==
  \A m \in Message : WF_dlqVars(Count(m) \/ HandlerSucceeds(m) \/ HandlerFails(m))

Spec ==
  /\ Init
  /\ \/ [][CallNext /\ UNCHANGED <<dlqVars, job>>]_vars /\ LoopFairness
     \/ [][DlqNext /\ UNCHANGED <<callVars, job>>]_vars /\ DlqFairness
     \/ [][JobNext /\ UNCHANGED <<callVars, dlqVars>>]_vars

-----------------------------------------------------------------------------
\* Every variable keeps its type.
TypeOK ==
  /\ stage \in [Client -> {"idle", "check", "send", "awaits", "backoff", "succeeded",
                            "failed"}]
  /\ attempt \in [Client -> 0..MaxTries] /\ cancelled \subseteq Client
  /\ request \in [Attempt -> {"none", "sent", "locked", "executed", "answered", "conflict",
                               "died"}]
  /\ locked \in BOOLEAN /\ cache \in Attempt \cup {NoRequest}
  /\ response \in [Client -> Attempt \cup {NoRequest}]
  /\ attempts \in [Message -> 0..MaxAttempts] /\ dlqStore \subseteq Message
  /\ pc \in [Message -> {"absent", "queued", "handling", "handled", "dead"}]
  /\ curr \in [Message -> 0..MaxAttempts] /\ failures \in [Message -> 0..MaxAttempts]
  /\ job \in [State : {"READY", "RETRYING", "QUARANTINED"}, Attempts : 0..MaxJobAttempts \cup {1},
               delay : -Shifted(Width - 1)..MaxBackoff]

\* "Subsequent requests bearing the same key immediately return the exact cached
\* response without executing business logic" (idempotency_keys.md:13): under retries
\* that overtake or outlive one another, the operation runs at most once, every
\* client that succeeds got the one response, of a request that ran it, and the key
\* is locked by one request at most, be it dead.  A cancelled client begins no more
\* than the attempt that it had checked for.
RetriedOnce ==
  /\ executed <= 1
  /\ \A c \in Client : stage[c] = "succeeded" => executed = 1 /\ response[c] = cache
  /\ Cardinality({q \in Attempt : request[q] \in {"locked", "executed", "died"}}) =
       IF locked THEN 1 ELSE 0
  /\ \A c \in Client : late[c] <= 1

\* Every ExecuteWithRetry returns, with the key locked for ever too.
RetriesEnd == \A c \in Client : stage[c] = "check" ~> stage[c] \in {"succeeded", "failed"}

\* Every message leaves the queue, so that a poison message never blocks it, and
\* is isolated only after exactly MaxAttempts failed runs of its handler
\* (dead_letter_queue.go:37), whatever other messages do in between.
PoisonIsolated ==
  \A m \in Message :
    pc[m] = "queued" ~> pc[m] = "handled" \/ (m \in dlqStore /\ failures[m] = MaxAttempts)

\* What base * 2^(attempts - 1) is at an attempt, and is it too large for a Duration?
Exact(n) == BaseBackoff * Shifted(n - 1)
Overflows(n) == Exact(n) >= Shifted(Width - 1)

\* A job never waits for longer than the maximum, and each wait is at least the base
\* backoff and the one before it until the doubled base overflows, which alone may
\* shorten a wait or put it into the past.
BackoffGrows ==
  [][job'.State = "RETRYING" =>
       /\ job'.delay <= MaxBackoff
       /\ job'.delay < BaseBackoff \/ job'.delay < job.delay => Overflows(job'.Attempts)]_job

\* "Delay = min(Base * 2^(att-1), Max)" (job_retry.md:48), at every attempt.
BackoffExact ==
  job.State = "RETRYING" =>
    job.delay = IF Exact(job.Attempts) > MaxBackoff THEN MaxBackoff ELSE Exact(job.Attempts)

=============================================================================
